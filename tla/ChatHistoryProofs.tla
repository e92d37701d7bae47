-------------------------- MODULE ChatHistoryProofs --------------------------
(***************************************************************************)
(* Safety of a chat's two copies of its messages, for any message ids,     *)
(* turns, requests and failures.                                           *)
(*                                                                         *)
(* A request writes the document several times, and between two writes the *)
(* document is no forest: a parent does not list the message yet, or lists *)
(* answers that are not there.  TreeInv says at which stage of a request   *)
(* which part is missing; each write moves the document to the next stage, *)
(* and a request without steps left has brought it back to a forest.  It   *)
(* holds until a request overlaps another, sends stale links or loses a    *)
(* call of a turn (~disturbed): no other write comes between its read and  *)
(* its commit, and what it resends is what the document has.  The rows     *)
(* then mirror the document once what the request still has to put and     *)
(* drop is applied to them (RowsInv).  Requests that overlap overwrite     *)
(* each other's documents, but as long as none deletes, what any document  *)
(* holds is in a row or about to be put into one (KeepInv).                *)
(***************************************************************************)
EXTENDS ChatHistory, FiniteSetTheorems, WellFoundedInduction, SequenceTheorems, TLAPS

-----------------------------------------------------------------------------
(* Forests: what merge_history and delete_message_from_history make of them. *)

\* The children of m, by their parents.
Family(f, m) == {k \in DOMAIN f : f[k].parent = m}

Typed(f) == DOMAIN f \subseteq Id /\ f \in [DOMAIN f -> Message]

\* Every parent exists, and no message is its own ancestor.
Rooted(f) ==
    /\ \A m \in DOMAIN f : f[m].parent \in DOMAIN f \cup {Null}
    /\ \A S \in SUBSET DOMAIN f : S # {} => \E m \in S : f[m].parent \notin S

\* And the lists of children are the inverse of the parents.
Forest(f) ==
    /\ Typed(f)
    /\ Rooted(f)
    /\ \A m \in DOMAIN f : f[m].kids = Family(f, m)

\* A message is put into the document.
LEMMA PutTyped ==
    ASSUME NEW f, Typed(f), NEW m \in Id, NEW value \in Message
    PROVE  Typed(Put(f, m, value))
BY DEF Typed, Put

\* A new message below an existing one, or a new root.
LEMMA PutNew ==
    ASSUME NEW f, Typed(f), Rooted(f), NEW m \in Id \ DOMAIN f,
           NEW value, value.parent \in DOMAIN f \cup {Null}
    PROVE  /\ Rooted(Put(f, m, value))
           /\ \A k \in DOMAIN f : Family(Put(f, m, value), k) =
                 IF k = value.parent THEN Family(f, k) \cup {m} ELSE Family(f, k)
           /\ Family(Put(f, m, value), m) = {}
<1> DEFINE g == Put(f, m, value)
<1>1. /\ DOMAIN g = DOMAIN f \cup {m} /\ g[m] = value
      /\ \A k \in DOMAIN f : g[k] = f[k]
  <2>1. DOMAIN g = DOMAIN f \cup {m} /\ g[m] = value /\ \A k \in DOMAIN f \ {m} : g[k] = f[k]
    BY DEF Put
  <2> QED
    BY <2>1
<1> HIDE DEF g
<1>2. m # Null
    BY IdAssumption
<1>3. ASSUME NEW S \in SUBSET DOMAIN g, S # {} PROVE \E k \in S : g[k].parent \notin S
  <2>1. CASE S = {m}
    BY <1>1, <1>2, <2>1
  <2>2. CASE S # {m}
    <3>1. S \ {m} \in SUBSET DOMAIN f /\ S \ {m} # {}
        BY <1>1, <1>3, <2>2
    <3>2. PICK k \in S \ {m} : f[k].parent \notin S \ {m}
        BY <3>1 DEF Rooted
    <3>3. f[k].parent # m
        BY <1>2, <3>1, <3>2 DEF Rooted
    <3> QED
        BY <1>1, <3>1, <3>2, <3>3
  <2> QED
    BY <2>1, <2>2
<1>4. \A k \in DOMAIN g : g[k].parent \in DOMAIN g \cup {Null}
    BY <1>1 DEF Rooted
<1>5. Rooted(g)
    BY <1>3, <1>4 DEF Rooted
<1>6. /\ \A k \in DOMAIN f : Family(g, k) = IF k = value.parent THEN Family(f, k) \cup {m} ELSE Family(f, k)
      /\ Family(g, m) = {}
    BY <1>1, <1>2 DEF Family, Rooted
<1> QED
    BY <1>5, <1>6 DEF g

\* A message that keeps its parent.
LEMMA PutOld ==
    ASSUME NEW f, Rooted(f), NEW m \in DOMAIN f, NEW value, value.parent = f[m].parent
    PROVE  /\ Rooted(Put(f, m, value))
           /\ \A k : Family(Put(f, m, value), k) = Family(f, k)
<1> DEFINE g == Put(f, m, value)
<1>1. DOMAIN g = DOMAIN f /\ \A k \in DOMAIN f : g[k].parent = f[k].parent
  <2>1. DOMAIN g = DOMAIN f \cup {m} /\ g[m] = value /\ \A k \in DOMAIN f \ {m} : g[k] = f[k]
    BY DEF Put
  <2> HIDE DEF g
  <2> QED
    BY <2>1
<1> HIDE DEF g
<1>2. Rooted(g)
    BY <1>1 DEF Rooted
<1>3. \A k : Family(g, k) = Family(f, k)
    BY <1>1 DEF Family
<1> QED
    BY <1>2, <1>3 DEF g

\* merge_history: the browser's messages over the document's, relinked, are a
\* forest, as every message's parent is in the history the message comes from.
LEMMA MergedForest ==
    ASSUME NEW existing, Forest(existing.messages), NEW incoming, Forest(incoming.messages),
           incoming.current \in DOMAIN incoming.messages
    PROVE  LET h == Merged(existing, incoming)
           IN  /\ Forest(h.messages)
               /\ DOMAIN h.messages = DOMAIN existing.messages \cup DOMAIN incoming.messages
               /\ h = [messages |-> h.messages, current |-> incoming.current]
<1> DEFINE e == existing.messages
           i == incoming.messages
           f == Over(i, e)
           g == Relinked(f)
<1>1. /\ DOMAIN f = DOMAIN e \cup DOMAIN i
      /\ \A m \in DOMAIN i : f[m] = i[m]
      /\ \A m \in DOMAIN e \ DOMAIN i : f[m] = e[m]
  <2>1. /\ DOMAIN f = DOMAIN i \cup DOMAIN e
        /\ \A m \in DOMAIN i : f[m] = i[m]
        /\ \A m \in DOMAIN e \ DOMAIN i : f[m] = e[m]
    BY DEF Over
  <2> HIDE DEF f, e, i
  <2> QED
    BY <2>1
<1>2. Typed(f)
    BY DEF Forest, Typed, Over
<1> HIDE DEF f
<1>3. /\ DOMAIN g = DOMAIN f
      /\ \A m \in DOMAIN f : g[m].parent = f[m].parent /\ g[m].kids = Family(f, m) /\ g[m] \in Message
  <2>1. \A m \in DOMAIN f : f[m] \in Message /\ {k \in DOMAIN f : f[k].parent = m} \in SUBSET Id
    BY <1>2 DEF Typed
  <2> QED
    BY <2>1 DEF Relinked, Family, Message
<1>4. g \in [DOMAIN g -> Message]
    BY <1>3 DEF Relinked
<1> HIDE DEF g
<1>5. \A m \in DOMAIN f : f[m].parent \in DOMAIN f \cup {Null}
    BY <1>1 DEF Forest, Rooted
<1>6. ASSUME NEW S \in SUBSET DOMAIN f, S # {} PROVE \E m \in S : f[m].parent \notin S
  <2>1. CASE S \cap DOMAIN i # {}
    <3>1. PICK m \in S \cap DOMAIN i : i[m].parent \notin S \cap DOMAIN i
        BY <2>1 DEF Forest, Rooted
    <3>2. i[m].parent \in DOMAIN i \cup {Null}
        BY <3>1 DEF Forest, Rooted
    <3>3. Null \notin S
        BY <1>2, <1>6, IdAssumption DEF Typed
    <3> QED
        BY <1>1, <3>1, <3>2, <3>3
  <2>2. CASE S \cap DOMAIN i = {}
    <3>1. PICK m \in S : e[m].parent \notin S
        BY <1>1, <1>6, <2>2 DEF Forest, Rooted
    <3> QED
        BY <1>1, <1>6, <2>2, <3>1
  <2> QED
    BY <2>1, <2>2
<1>7. Forest(g)
  <2>1. Typed(g)
    BY <1>2, <1>3, <1>4 DEF Typed
  <2>2. Rooted(g)
    BY <1>3, <1>5, <1>6 DEF Rooted
  <2>3. \A m \in DOMAIN g : g[m].kids = Family(g, m)
    BY <1>3 DEF Family
  <2> QED
    BY <2>1, <2>2, <2>3 DEF Forest
<1>8. Merged(existing, incoming) = [messages |-> g, current |-> incoming.current]
    BY <1>1, <1>3 DEF Merged, f, g
<1> QED
    BY <1>1, <1>3, <1>7, <1>8

\* Neither the parent nor the grandchildren of a message are doomed with it.
LEMMA DoomedFamily ==
    ASSUME NEW h, Forest(h.messages), NEW m \in Ids(h)
    PROVE  /\ Doomed(h, m) = {m} \cup Family(h.messages, m)
           /\ Adopted(h, m) = {k \in Ids(h) : h.messages[k].parent \in Family(h.messages, m)}
           /\ h.messages[m].parent \notin Doomed(h, m)
           /\ Adopted(h, m) \cap Doomed(h, m) = {}
<1> DEFINE f == h.messages
           kids == Family(f, m)
           p == f[m].parent
<1>1. DOMAIN f = Ids(h) /\ Rooted(f) /\ \A k \in DOMAIN f : f[k].kids = Family(f, k)
    BY DEF Ids, Forest
<1>2. kids \subseteq DOMAIN f /\ \A k \in kids : f[k].parent = m
    BY DEF Family
<1>3. Doomed(h, m) = {m} \cup kids
    BY <1>1, <1>2 DEF Doomed
<1>4. p # m /\ m \notin kids
  <2>1. {m} \in SUBSET DOMAIN f /\ {m} # {}
    BY <1>1
  <2>2. p # m
    BY <1>1, <2>1 DEF Rooted
  <2> QED
    BY <1>2, <2>2
<1>5. p \notin kids
  <2> SUFFICES ASSUME p \in kids PROVE FALSE
    OBVIOUS
  <2>1. {m, p} \in SUBSET DOMAIN f /\ {m, p} # {}
    BY <1>1, <1>2
  <2>2. \E k \in {m, p} : f[k].parent \notin {m, p}
    BY <1>1, <2>1 DEF Rooted
  <2> QED
    BY <1>2, <2>2
<1>6. Adopted(h, m) = {k \in Ids(h) : f[k].parent \in kids}
  <2>1. Doomed(h, m) \ {m} = kids
    BY <1>3, <1>4
  <2>2. Adopted(h, m) = (UNION {f[k].kids : k \in kids}) \cap Ids(h)
    BY <2>1 DEF Adopted
  <2>3. \A k \in kids : f[k].kids = Family(f, k)
    BY <1>1, <1>2
  <2>4. \A x : x \in Adopted(h, m) <=> x \in Ids(h) /\ \E k \in kids : x \in Family(f, k)
    <3> HIDE DEF kids, f
    <3> QED
        BY <2>2, <2>3
  <2>5. \A k, x : x \in Family(f, k) <=> x \in Ids(h) /\ f[x].parent = k
    BY <1>1 DEF Family
  <2> HIDE DEF kids, f
  <2> QED
    BY <2>4, <2>5
<1>7. Adopted(h, m) \cap Doomed(h, m) = {}
    BY <1>2, <1>3, <1>4, <1>5, <1>6
<1> QED
    BY <1>3, <1>4, <1>5, <1>6, <1>7

\* What the messages left look like.
LEMMA LeftFields ==
    ASSUME NEW h, Forest(h.messages), NEW m \in Ids(h)
    PROVE  /\ DOMAIN Left(h, m) = Ids(h) \ Doomed(h, m)
           /\ Left(h, m) \in [DOMAIN Left(h, m) -> Message]
           /\ \A k \in Ids(h) \ Doomed(h, m) :
                 /\ Left(h, m)[k].parent = IF k \in Adopted(h, m) THEN h.messages[m].parent
                                           ELSE h.messages[k].parent
                 /\ Left(h, m)[k].kids = IF k = h.messages[m].parent
                                         THEN (h.messages[k].kids \ {m}) \cup Adopted(h, m)
                                         ELSE h.messages[k].kids
                 /\ Left(h, m)[k].text = h.messages[k].text
<1> DEFINE f == h.messages
           p == f[m].parent
           grand == Adopted(h, m)
           stay == Ids(h) \ Doomed(h, m)
           of(k) == [f[k] EXCEPT !.parent = IF k \in grand THEN p ELSE @,
                                 !.kids = IF k = p THEN (@ \ {m}) \cup grand ELSE @]
<1>1. Left(h, m) = [k \in stay |-> of(k)]
    BY DEF Left
<1>2. f \in [Ids(h) -> Message] /\ Ids(h) \subseteq Id
    BY DEF Forest, Typed, Ids
<1>3. grand \subseteq Id
  <2>1. grand \subseteq Ids(h)
    BY DEF Adopted
  <2> QED
    BY <1>2, <2>1
<1>4. ASSUME NEW k \in stay
      PROVE  /\ of(k) \in Message
             /\ of(k).parent = IF k \in grand THEN p ELSE f[k].parent
             /\ of(k).kids = IF k = p THEN (f[k].kids \ {m}) \cup grand ELSE f[k].kids
             /\ of(k).text = f[k].text
  <2>1. f[k] \in Message /\ f[m] \in Message
    BY <1>2
  <2>2. p \in Id \cup {Null}
    BY <2>1 DEF Message
  <2> HIDE DEF p, grand, f
  <2> QED
    BY <1>3, <2>1, <2>2 DEF Message
<1> HIDE DEF of, f, p, grand, stay
<1>5. /\ DOMAIN Left(h, m) = stay
      /\ Left(h, m) \in [stay -> Message]
  <2>1. \A k \in stay : of(k) \in Message
    BY <1>4
  <2> QED
    BY <1>1, <2>1
<1>6. ASSUME NEW k \in stay
      PROVE  /\ Left(h, m)[k].parent = IF k \in grand THEN p ELSE f[k].parent
             /\ Left(h, m)[k].kids = IF k = p THEN (f[k].kids \ {m}) \cup grand ELSE f[k].kids
             /\ Left(h, m)[k].text = f[k].text
  <2>1. Left(h, m)[k] = of(k)
    BY <1>1
  <2> QED
    BY <1>4, <2>1
<1> QED
    BY <1>5, <1>6 DEF f, p, grand, stay

\* delete_message_from_history leaves a forest.
LEMMA LeftForest ==
    ASSUME NEW h, Forest(h.messages), NEW m \in Ids(h)
    PROVE  Forest(Left(h, m))
<1> DEFINE f == h.messages
           p == f[m].parent
           grand == Adopted(h, m)
           doomed == Doomed(h, m)
           left == Left(h, m)
<1>1. /\ DOMAIN left = DOMAIN f \ doomed
      /\ left \in [DOMAIN left -> Message]
      /\ \A k \in DOMAIN f \ doomed :
            /\ left[k].parent = IF k \in grand THEN p ELSE f[k].parent
            /\ left[k].kids = IF k = p THEN (f[k].kids \ {m}) \cup grand ELSE f[k].kids
  <2>1. Ids(h) = DOMAIN f
    BY DEF Ids
  <2>2. /\ DOMAIN left = Ids(h) \ doomed
        /\ left \in [DOMAIN left -> Message]
        /\ \A k \in Ids(h) \ doomed :
            /\ left[k].parent = IF k \in grand THEN p ELSE f[k].parent
            /\ left[k].kids = IF k = p THEN (f[k].kids \ {m}) \cup grand ELSE f[k].kids
            /\ left[k].text = f[k].text
    BY LeftFields, Zenon
  <2> HIDE DEF left, doomed, grand, p, f
  <2> QED
    BY <2>1, <2>2
<1>2. /\ doomed = {m} \cup Family(f, m)
      /\ grand = {k \in DOMAIN f : f[k].parent \in Family(f, m)}
      /\ p \notin doomed
      /\ grand \cap doomed = {}
    BY DoomedFamily DEF Ids
<1>3. /\ Typed(f) /\ Rooted(f) /\ m \in DOMAIN f
      /\ \A k \in DOMAIN f : f[k].kids = Family(f, k)
    BY DEF Forest, Ids
<1> HIDE DEF f, p, grand, doomed, left
<1>4. Null \notin DOMAIN f
    BY <1>3, IdAssumption DEF Typed
<1>5. p \in DOMAIN f \cup {Null} /\ f[m].parent = p
    BY <1>3 DEF Rooted, p
<1>6. \A k \in DOMAIN left : left[k].parent \in DOMAIN left \cup {Null}
  <2> TAKE k \in DOMAIN left
  <2>1. CASE k \in grand
    BY <1>1, <1>2, <1>5, <2>1
  <2>2. CASE k \notin grand
    <3>1. f[k].parent \notin Family(f, m) /\ f[k].parent # m
        BY <1>1, <1>2, <2>2 DEF Family
    <3> QED
        BY <1>1, <1>2, <1>3, <2>2, <3>1 DEF Rooted
  <2> QED
    BY <2>1, <2>2
<1>7. ASSUME NEW S \in SUBSET DOMAIN left, S # {} PROVE \E k \in S : left[k].parent \notin S
  <2>1. CASE S \cap grand = {}
    <3>1. PICK k \in S : f[k].parent \notin S
        BY <1>1, <1>3, <1>7 DEF Rooted
    <3> QED
        BY <1>1, <1>7, <2>1, <3>1
  <2>2. CASE S \cap grand # {}
    <3>1. S \cup doomed \in SUBSET DOMAIN f /\ S \cup doomed # {}
        BY <1>1, <1>2, <1>3, <1>7 DEF Family
    <3>2. PICK k \in S \cup doomed : f[k].parent \notin S \cup doomed
        BY <1>3, <3>1 DEF Rooted
    <3>3. CASE k \in doomed
        <4>1. k = m
            BY <1>2, <3>2, <3>3 DEF Family
        <4>2. p \notin S
            BY <1>5, <3>2, <4>1
        <4> QED
            BY <1>1, <1>7, <2>2, <4>2
    <3>4. CASE k \notin doomed
        <4>1. k \notin grand
            BY <1>2, <3>2
        <4> QED
            BY <1>1, <1>7, <3>2, <3>4, <4>1
    <3> QED
        BY <3>3, <3>4
  <2> QED
    BY <2>1, <2>2
<1>8. ASSUME NEW k \in DOMAIN left PROVE left[k].kids = Family(left, k)
  <2>1. \A x \in DOMAIN f : f[x].parent = k => x = m \/ x \in DOMAIN left
    BY <1>1, <1>2, <1>8 DEF Family
  <2>2. \A x \in grand : x \in DOMAIN left /\ f[x].parent # k
    BY <1>1, <1>2, <1>8
  <2>3. CASE k = p
    <3>1. Family(left, k) = {x \in DOMAIN left : x \in grand \/ f[x].parent = k}
        BY <1>1, <2>3 DEF Family
    <3>2. left[k].kids = (Family(f, k) \ {m}) \cup grand
        BY <1>1, <1>3, <1>8, <2>3
    <3>3. m \notin DOMAIN left
        BY <1>1, <1>2
    <3> QED
        BY <1>1, <2>1, <2>2, <3>1, <3>2, <3>3 DEF Family
  <2>4. CASE k # p
    <3>1. Family(left, k) = {x \in DOMAIN left : f[x].parent = k}
        BY <1>1, <2>2, <2>4 DEF Family
    <3>2. left[k].kids = Family(f, k)
        BY <1>1, <1>3, <1>8, <2>4
    <3>3. \A x \in DOMAIN f : f[x].parent = k => x \in DOMAIN left
        BY <1>5, <2>1, <2>4
    <3> QED
        BY <1>1, <3>1, <3>2, <3>3 DEF Family
  <2> QED
    BY <2>3, <2>4
<1>9. Typed(left)
    BY <1>1, <1>3 DEF Typed
<1> QED
    BY <1>6, <1>7, <1>8, <1>9 DEF Forest, Rooted, left

\* Below a message of a finite forest there is a message without children.
LEMMA EndExists ==
    ASSUME NEW f, Forest(f), NEW S, S # {}, S \subseteq DOMAIN f
    PROVE  Ends(f, S) # {} /\ Ends(f, S) \subseteq DOMAIN f
<1> DEFINE closed(C) == \A k \in C \cap DOMAIN f : f[k].kids \subseteq C
           R == Reached(f, S)
<1>1. DOMAIN f \in SUBSET Id /\ closed(DOMAIN f)
    BY DEF Forest, Typed, Family
<1>2. R \subseteq DOMAIN f
    BY <1>1 DEF Reached
<1>3. S \subseteq R
    BY <1>1 DEF Reached
<1>4. closed(R)
  <2> SUFFICES ASSUME NEW k \in R, NEW x \in f[k].kids PROVE x \in R
    OBVIOUS
  <2>1. k \in DOMAIN f /\ x \in DOMAIN f
    BY <1>1, <1>2
  <2>2. ASSUME NEW C \in SUBSET Id, S \subseteq C, closed(C) PROVE x \in C
    <3>1. k \in C
        BY <2>2 DEF Reached
    <3> QED
        BY <2>1, <2>2, <3>1
  <2> QED
    BY <1>1, <2>1, <2>2 DEF Reached
<1> DEFINE T == {C \in SUBSET R : C # {} /\ closed(C)}
<1>5. IsFiniteSet(R)
    BY <1>1, <1>2, IdAssumption, FS_Subset
<1>6. PICK C \in T : \A D \in T : ~(<<D, C>> \in StrictSubsetOrdering(R))
  <2>1. IsWellFoundedOn(StrictSubsetOrdering(R), FiniteSubsetsOf(R))
    BY FS_StrictSubsetOrderingWellFounded
  <2>2. T \subseteq FiniteSubsetsOf(R)
    BY <1>5, FS_Subset DEF FiniteSubsetsOf
  <2>3. R \in T
    BY <1>3, <1>4
  <2> HIDE DEF T, R
  <2> QED
    BY <2>1, <2>2, <2>3, WFMin
<1>7. PICK x \in C : f[x].parent \notin C
  <2>1. C \in SUBSET DOMAIN f /\ C # {}
    BY <1>2
  <2> QED
    BY <2>1 DEF Forest, Rooted
<1>8. x \in DOMAIN f /\ x \in R /\ C \subseteq DOMAIN f
    BY <1>2
<1>9. \A k \in C : x \notin f[k].kids
    BY <1>7, <1>8 DEF Forest, Family
<1>10. closed(C \ {x})
    BY <1>8, <1>9
<1>11. C \ {x} = {}
  <2> SUFFICES ASSUME C \ {x} # {} PROVE FALSE
    OBVIOUS
  <2>1. C \ {x} \in T
    BY <1>10
  <2>2. <<C \ {x}, C>> \in StrictSubsetOrdering(R)
    BY DEF StrictSubsetOrdering
  <2> QED
    BY <1>6, <2>1, <2>2
<1>12. f[x].kids = {}
  <2>1. f[x].kids \subseteq C
    BY <1>8
  <2> QED
    BY <1>9, <1>11, <2>1
<1> QED
    BY <1>2, <1>8, <1>12 DEF Ends

Empty == [messages |-> None, current |-> Null]

\* The message shown exists.
Current(h) == h.current \in Ids(h) \/ h = Empty

\* Whichever branch a deletion leaves shown.
LEMMA DeletionsSound ==
    ASSUME NEW h, Forest(h.messages), Current(h), NEW m, NEW d \in Deletions(h, m)
    PROVE  /\ Forest(d.messages)
           /\ Current(d)
           /\ Ids(d) = Ids(h) \ Doomed(h, m)
           /\ m \in Ids(h) => d.messages = Left(h, m)
<1>1. CASE m \notin Ids(h)
    BY <1>1 DEF Deletions, Doomed
<1>2. CASE m \in Ids(h)
  <2> DEFINE left == Left(h, m)
             p == h.messages[m].parent
             from == IF p = Null THEN {k \in DOMAIN left : left[k].parent = Null} ELSE {p}
             ends == Ends(left, from)
  <2>1. PICK c \in IF ends = {} THEN {Null} ELSE ends :
            d = [messages |-> left, current |-> IF c \in DOMAIN left THEN c ELSE Null]
    BY <1>2 DEF Deletions
  <2>2. Forest(left)
    BY <1>2, LeftForest
  <2>3. DOMAIN left = Ids(h) \ Doomed(h, m)
    BY DEF Left
  <2>4. p \in DOMAIN left \cup {Null}
    <3>1. p \notin Doomed(h, m)
        BY <1>2, DoomedFamily
    <3>2. p \in Ids(h) \cup {Null}
        BY <1>2 DEF Forest, Rooted, Ids
    <3> QED
        BY <2>3, <3>1, <3>2
  <2> HIDE DEF left, p
  <2>5. Null \notin DOMAIN left
    BY <2>2, IdAssumption DEF Forest, Typed
  <2>6. CASE DOMAIN left = {}
    <3>1. from = {}
        BY <2>4, <2>6
    <3>2. ends = {}
        BY <2>6, <3>1 DEF Ends, Reached
    <3>3. d.messages = left /\ d.current = Null /\ d = [messages |-> left, current |-> Null]
        BY <2>1, <2>5, <3>2
    <3>4. left = None
        BY <2>2, <2>6 DEF None, Forest, Typed
    <3> QED
        BY <1>2, <2>2, <2>3, <3>3, <3>4 DEF Current, Empty, Ids, left
  <2>7. CASE DOMAIN left # {}
    <3>1. from # {} /\ from \subseteq DOMAIN left
      <4>1. PICK k \in DOMAIN left : left[k].parent \notin DOMAIN left
        BY <2>2, <2>7 DEF Forest, Rooted
      <4>2. left[k].parent = Null
        BY <2>2, <4>1 DEF Forest, Rooted
      <4> QED
        BY <2>4, <4>2
    <3> HIDE DEF from
    <3>2. ends # {} /\ ends \subseteq DOMAIN left
        BY <2>2, <3>1, EndExists
    <3>3. d.messages = left /\ d.current \in DOMAIN left
        BY <2>1, <3>2
    <3> QED
        BY <1>2, <2>2, <2>3, <3>3 DEF Current, Ids, left
  <2> QED
    BY <2>6, <2>7
<1> QED
    BY <1>1, <1>2

\* A deletion takes out of the path above a message what it deletes.
LEMMA AncestorsSpared ==
    ASSUME NEW h, Forest(h.messages), NEW m \in Ids(h), NEW d, d.messages = Left(h, m),
           NEW x \in Ids(h) \ Doomed(h, m)
    PROVE  Ancestors(d, x) = Ancestors(h, x) \ Doomed(h, m)
<1> DEFINE f == h.messages
           left == Left(h, m)
           p == f[m].parent
           grand == Adopted(h, m)
           doomed == Doomed(h, m)
           up(C) == \A k \in C \cap DOMAIN f : f[k].parent \in C \cup {Null}
           upLeft(C) == \A k \in C \cap DOMAIN left : left[k].parent \in C \cup {Null}
<1>1. /\ DOMAIN left = DOMAIN f \ doomed
      /\ \A k \in DOMAIN left : left[k].parent = IF k \in grand THEN p ELSE f[k].parent
  <2>1. Ids(h) = DOMAIN f
    BY DEF Ids
  <2>2. /\ DOMAIN left = Ids(h) \ doomed
        /\ left \in [DOMAIN left -> Message]
        /\ \A k \in Ids(h) \ doomed :
            /\ left[k].parent = IF k \in grand THEN p ELSE f[k].parent
            /\ left[k].kids = IF k = p THEN (f[k].kids \ {m}) \cup grand ELSE f[k].kids
            /\ left[k].text = f[k].text
    BY LeftFields, Zenon
  <2> HIDE DEF left, doomed, grand, p, f
  <2> QED
    BY <2>1, <2>2
<1>2. /\ doomed = {m} \cup Family(f, m)
      /\ grand = {k \in DOMAIN f : f[k].parent \in Family(f, m)}
      /\ p \notin doomed
      /\ grand \cap doomed = {}
    BY DoomedFamily DEF Ids
<1>3. /\ Typed(f) /\ Rooted(f) /\ m \in DOMAIN f /\ p \in DOMAIN f \cup {Null} /\ f[m].parent = p
      /\ x \in DOMAIN f \ doomed
    BY DEF Forest, Rooted, Ids
<1>4. /\ Ancestors(h, x) = {a \in Id \ {x} : \A C \in SUBSET Id : x \in C /\ up(C) => a \in C}
      /\ Ancestors(d, x) = {a \in Id \ {x} : \A C \in SUBSET Id : x \in C /\ upLeft(C) => a \in C}
  <2> HIDE DEF left
  <2>1. d.messages = left
    BY DEF left
  <2> QED
    BY <2>1 DEF Ancestors, Ids
<1> HIDE DEF f, left, p, grand, doomed
<1>5. \A k \in DOMAIN left : k \notin grand => f[k].parent \notin doomed
    BY <1>1, <1>2 DEF Family
<1>6. Null \notin Id /\ DOMAIN f \subseteq Id /\ doomed \subseteq DOMAIN f
    BY <1>2, <1>3, IdAssumption DEF Typed, Family
<1>7. ASSUME NEW C \in SUBSET Id, x \in C, up(C) PROVE x \in C \ doomed /\ upLeft(C \ doomed)
  <2> SUFFICES ASSUME NEW k \in (C \ doomed) \cap DOMAIN left
               PROVE  left[k].parent \in (C \ doomed) \cup {Null}
    BY <1>3, <1>7
  <2>1. k \in C \cap DOMAIN f /\ f[k].parent \in C \cup {Null}
    BY <1>1, <1>7
  <2>2. CASE k \in grand
    <3>1. PICK c \in Family(f, m) : f[k].parent = c
        BY <1>2, <2>2
    <3>2. c \in C \cap DOMAIN f /\ f[c].parent = m
        BY <1>6, <2>1, <3>1 DEF Family
    <3>3. m \in C \cap DOMAIN f
        BY <1>3, <1>6, <1>7, <3>2
    <3>4. p \in C \cup {Null}
        BY <1>3, <1>7, <3>3
    <3> QED
        BY <1>1, <1>2, <2>2, <3>4
  <2>3. CASE k \notin grand
    BY <1>1, <1>5, <2>1, <2>3
  <2> QED
    BY <2>2, <2>3
<1>8. ASSUME NEW C \in SUBSET Id, x \in C, upLeft(C), p \in C \cup {Null}
      PROVE  up(C \cup doomed)
  <2> SUFFICES ASSUME NEW k \in (C \cup doomed) \cap DOMAIN f
               PROVE  f[k].parent \in C \cup doomed \cup {Null}
    OBVIOUS
  <2>1. CASE k \in doomed
    BY <1>2, <1>3, <1>8, <2>1 DEF Family
  <2>2. CASE k \notin doomed /\ k \in grand
    BY <1>2, <2>2
  <2>3. CASE k \notin doomed /\ k \notin grand
    <3>1. k \in C \cap DOMAIN left /\ left[k].parent = f[k].parent
        BY <1>1, <2>3
    <3> QED
        BY <1>8, <3>1
  <2> QED
    BY <2>1, <2>2, <2>3
<1>9. ASSUME NEW C \in SUBSET Id, x \in C, upLeft(C), p \notin C \cup {Null}
      PROVE  x \in C \ doomed /\ up(C \ doomed)
  <2> SUFFICES ASSUME NEW k \in (C \ doomed) \cap DOMAIN f
               PROVE  f[k].parent \in (C \ doomed) \cup {Null}
    BY <1>3, <1>9
  <2>1. k \in C \cap DOMAIN left
    BY <1>1
  <2>2. k \notin grand
    BY <1>1, <1>9, <2>1
  <2> QED
    BY <1>1, <1>5, <1>9, <2>1, <2>2
<1>10. ASSUME NEW a \in Ancestors(d, x) PROVE a \in Ancestors(h, x) \ doomed
  <2>1. ASSUME NEW C \in SUBSET Id, x \in C, up(C) PROVE a \in C \ doomed
    <3>1. C \ doomed \in SUBSET Id
        OBVIOUS
    <3> QED
        BY <1>4, <1>7, <2>1, <3>1
  <2>2. DOMAIN f \in SUBSET Id /\ x \in DOMAIN f /\ up(DOMAIN f)
    BY <1>3, <1>6 DEF Rooted
  <2>3. a \notin doomed
    BY <2>1, <2>2
  <2> QED
    BY <1>4, <2>1, <2>3
<1>11. ASSUME NEW a \in Ancestors(h, x), a \notin doomed PROVE a \in Ancestors(d, x)
  <2>1. ASSUME NEW C \in SUBSET Id, x \in C, upLeft(C) PROVE a \in C
    <3>1. CASE p \in C \cup {Null}
      <4>1. C \cup doomed \in SUBSET Id /\ x \in C \cup doomed /\ up(C \cup doomed)
        BY <1>6, <1>8, <2>1, <3>1
      <4> QED
        BY <1>4, <1>11, <4>1
    <3>2. CASE p \notin C \cup {Null}
      <4>1. C \ doomed \in SUBSET Id /\ x \in C \ doomed /\ up(C \ doomed)
        BY <1>9, <2>1, <3>2
      <4> QED
        BY <1>4, <1>11, <4>1
    <3> QED
        BY <3>1, <3>2
  <2> QED
    BY <1>4, <1>11, <2>1
<1> QED
    BY <1>10, <1>11 DEF doomed

-----------------------------------------------------------------------------
(* The steps that a request has left.                                      *)

IsSeq(s) == \E S : s \in Seq(S)

\* Dropping a step, and putting one first.
LEMMA Rest ==
    ASSUME NEW s, IsSeq(s), s # <<>>
    PROVE  IsSeq(Tail(s))
<1>1. PICK S : s \in Seq(S)
    BY DEF IsSeq
<1>2. Tail(s) \in Seq(S)
    BY <1>1
<1> QED
    BY <1>2 DEF IsSeq

LEMMA FirstThen ==
    ASSUME NEW x, NEW s, IsSeq(s)
    PROVE  /\ IsSeq(<<x>> \o s) /\ <<x>> \o s # <<>>
           /\ Head(<<x>> \o s) = x
           /\ Tail(<<x>> \o s) = s
<1>1. PICK S : s \in Seq(S)
    BY DEF IsSeq
<1> DEFINE T == S \cup {x}
           l == <<x>> \o s
<1>2. s \in Seq(T) /\ <<x>> \in Seq(T) /\ Len(<<x>>) = 1 /\ <<x>>[1] = x
    BY <1>1
<1>3. /\ l \in Seq(T) /\ Len(l) = 1 + Len(s)
      /\ \A i \in 1..1+Len(s) : l[i] = IF i <= 1 THEN x ELSE s[i - 1]
    BY <1>2, ConcatProperties
<1> HIDE DEF l, T
<1>4. l # <<>> /\ Head(l) = x
    BY <1>2, <1>3
<1>5. Tail(l) \in Seq(T) /\ Len(Tail(l)) = Len(s) /\ \A i \in 1..Len(s) : Tail(l)[i] = s[i]
    BY <1>2, <1>3, <1>4
<1>6. Tail(l) = s
    BY <1>2, <1>5, SeqEqual
<1> QED
    BY <1>3, <1>4, <1>6 DEF l, IsSeq

\* What is left to do of the answers' placeholders below u.
Answering(todo, u, left) ==
    \E s \in Seq(Id) : /\ IsInjective(s)
                       /\ ToSet(s) = left
                       /\ todo = [i \in 1..Len(s) |-> Upsert(s[i], Placeholder(u))]

\* The answers' placeholders are written one by one.
LEMMA AnsweringSeq ==
    ASSUME NEW todo, NEW u, NEW left, Answering(todo, u, left)
    PROVE  IsSeq(todo) /\ (todo = <<>> => left = {})
<1>1. PICK s \in Seq(Id) : ToSet(s) = left /\ todo = [i \in 1..Len(s) |-> Upsert(s[i], Placeholder(u))]
    BY DEF Answering
<1> DEFINE S == {Upsert(m, Placeholder(u)) : m \in Id}
<1>2. todo \in Seq(S) /\ Len(todo) = Len(s)
    BY <1>1
<1>3. todo = <<>> => left = {}
    BY <1>1, <1>2 DEF ToSet
<1> QED
    BY <1>2, <1>3 DEF IsSeq

LEMMA AnsweringNext ==
    ASSUME NEW todo, NEW u, NEW left, Answering(todo, u, left), todo # <<>>
    PROVE  \E a \in left : /\ Head(todo) = Upsert(a, Placeholder(u))
                           /\ Answering(Tail(todo), u, left \ {a})
<1>1. PICK s \in Seq(Id) : /\ IsInjective(s)
                           /\ ToSet(s) = left
                           /\ todo = [i \in 1..Len(s) |-> Upsert(s[i], Placeholder(u))]
    BY DEF Answering
<1> DEFINE S == {Upsert(m, Placeholder(u)) : m \in Id}
           a == s[1]
           r == Tail(s)
<1>2. todo \in Seq(S) /\ Len(todo) = Len(s)
    BY <1>1
<1>3. Len(s) # 0 /\ Len(s) \in Nat /\ s # <<>>
    BY <1>1, <1>2
<1>4. r \in Seq(Id) /\ Len(r) = Len(s) - 1 /\ \A i \in 1..Len(r) : r[i] = s[i + 1]
    BY <1>3
<1>5. a \in left /\ Head(todo) = Upsert(a, Placeholder(u))
    BY <1>1, <1>2, <1>3 DEF ToSet
<1> HIDE DEF r
<1>6. IsInjective(r)
  <2> SUFFICES ASSUME NEW i \in 1..Len(r), NEW k \in 1..Len(r), r[i] = r[k] PROVE i = k
    BY <1>4 DEF IsInjective
  <2>1. i + 1 \in DOMAIN s /\ k + 1 \in DOMAIN s /\ s[i + 1] = s[k + 1]
    BY <1>1, <1>3, <1>4
  <2>2. i + 1 = k + 1
    BY <1>1, <2>1 DEF IsInjective
  <2> QED
    BY <2>2
<1>7. ToSet(r) = left \ {a}
  <2>1. \A i \in 1..Len(r) : s[i + 1] \in left /\ s[i + 1] # a
    BY <1>1, <1>3, <1>4 DEF ToSet, IsInjective
  <2>2. ASSUME NEW x \in left, x # a PROVE x \in ToSet(r)
    <3>1. PICK i \in 1..Len(s) : s[i] = x /\ i # 1
        BY <1>1, <2>2 DEF ToSet
    <3>2. i - 1 \in 1..Len(r) /\ r[i - 1] = x
        BY <1>3, <1>4, <3>1
    <3> QED
        BY <1>4, <3>2 DEF ToSet
  <2> QED
    BY <1>4, <2>1, <2>2 DEF ToSet
<1>8. Tail(todo) = [i \in 1..Len(r) |-> Upsert(r[i], Placeholder(u))]
  <2> DEFINE q == [i \in 1..Len(r) |-> Upsert(r[i], Placeholder(u))]
  <2>1. Tail(todo) \in Seq(S) /\ Len(Tail(todo)) = Len(s) - 1
        /\ \A i \in 1..Len(s) - 1 : Tail(todo)[i] = todo[i + 1]
    BY <1>2, <1>3
  <2>2. q \in Seq(S) /\ Len(q) = Len(r) /\ \A i \in 1..Len(r) : q[i] = Upsert(r[i], Placeholder(u))
    BY <1>4
  <2>3. \A i \in 1..Len(r) : todo[i + 1] = Upsert(r[i], Placeholder(u))
    BY <1>1, <1>3, <1>4
  <2> HIDE DEF q
  <2>4. \A i \in 1..Len(Tail(todo)) : Tail(todo)[i] = q[i]
    BY <1>3, <1>4, <2>1, <2>2, <2>3
  <2>5. Tail(todo) = q
    BY <1>4, <2>1, <2>2, <2>4, SeqEqual
  <2> QED
    BY <2>5 DEF q
<1> QED
    BY <1>4, <1>5, <1>6, <1>7, <1>8 DEF Answering

-----------------------------------------------------------------------------
(* The stages of a request, and how a write moves the document from one to *)
(* the next.                                                               *)

\* The outcomes of one step, for the document it read.
Results(step, snap) ==
    CASE step.op = "fields" -> {snap}
      [] step.op = "upsert" -> {Upserted(snap, step.id, step.data)}
      [] step.op = "delete" -> Deletions(snap, step.id)
      [] step.op = "save" -> {Merged(snap, step.tab)}

LEMMA Steps ==
    /\ Fields.op = "fields"
    /\ \A m, data : /\ Upsert(m, data).op = "upsert"
                    /\ Upsert(m, data).id = m
                    /\ Upsert(m, data).data = data
    /\ \A m, kids, always : /\ Link(m, kids, always).op = "link"
                            /\ Link(m, kids, always).id = m
                            /\ Link(m, kids, always).kids = kids
                            /\ Link(m, kids, always).always = always
    /\ \A m : Delete(m).op = "delete" /\ Delete(m).id = m
    /\ \A h : Save(h).op = "save" /\ Save(h).tab = h
BY DEF Fields, Upsert, Link, Delete, Save

LEMMA ResultsOf ==
    /\ \A snap : Results(Fields, snap) = {snap}
    /\ \A m, data, snap : Results(Upsert(m, data), snap) = {Upserted(snap, m, data)}
    /\ \A m, snap : Results(Delete(m), snap) = Deletions(snap, m)
    /\ \A h, snap : Results(Save(h), snap) = {Merged(snap, h)}
BY DEF Results, Fields, Upsert, Delete, Save

\* All fields of a message the document does not have yet, or of one it has.
LEMMA UpsertedNew ==
    ASSUME NEW h, NEW m \in Id \ Ids(h), NEW p, NEW kids, NEW text,
           p = Null => \A k \in Ids(h) : m \notin h.messages[k].kids
    PROVE  Upserted(h, m, Whole(p, kids, text)) =
              [messages |-> Put(h.messages, m, [parent |-> p, kids |-> kids, text |-> text]),
               current |-> m]
<1>1. p = Null => ParentOf(h, m) = Null
    BY DEF ParentOf
<1> DEFINE data == Whole(p, kids, text)
<1>2. data.sets = "all" /\ data.parent = p /\ data.kids = kids /\ data.text = text
    BY DEF Whole
<1> HIDE DEF data
<1>3. Upserted(h, m, data) =
          [messages |-> Put(h.messages, m, [parent |-> p, kids |-> kids, text |-> text]),
           current |-> m]
    BY <1>1, <1>2 DEF Upserted
<1> QED
    BY <1>3 DEF data

LEMMA UpsertedWhole ==
    ASSUME NEW h, NEW m \in Ids(h), NEW p, NEW kids, NEW text
    PROVE  Upserted(h, m, Whole(p, kids, text)) =
              [messages |-> Put(h.messages, m, [parent |-> p, kids |-> kids, text |-> text]),
               current |-> m]
<1> DEFINE data == Whole(p, kids, text)
<1>1. data.sets = "all" /\ data.parent = p /\ data.kids = kids /\ data.text = text
    BY DEF Whole
<1> HIDE DEF data
<1>2. Upserted(h, m, data) =
          [messages |-> Put(h.messages, m, [parent |-> p, kids |-> kids, text |-> text]),
           current |-> m]
    BY <1>1 DEF Upserted
<1> QED
    BY <1>2 DEF data

\* An answer's placeholder.
LEMMA UpsertedPlaceholder ==
    ASSUME NEW h, NEW m, NEW u, u # Null
    PROVE  Upserted(h, m, Placeholder(u)) =
              [messages |-> Put(h.messages, m, [parent |-> u, kids |-> {}, text |-> ""]),
               current |-> m]
<1>1. /\ Placeholder(u).sets = "all" /\ Placeholder(u).parent = u
      /\ Placeholder(u).kids = {} /\ Placeholder(u).text = ""
    BY DEF Placeholder, Whole
<1> QED
    BY <1>1 DEF Upserted

\* A message's children, or its text.
LEMMA UpsertedOld ==
    ASSUME NEW h, NEW m \in Ids(h)
    PROVE  /\ \A kids : Upserted(h, m, Kids(kids)) =
                 [messages |-> Put(h.messages, m, [h.messages[m] EXCEPT !.kids = kids]),
                  current |-> m]
           /\ Upserted(h, m, Written) =
                 [messages |-> Put(h.messages, m, [h.messages[m] EXCEPT !.text = "written"]),
                  current |-> m]
<1>1. ASSUME NEW kids
      PROVE  Upserted(h, m, Kids(kids)) =
                 [messages |-> Put(h.messages, m, [h.messages[m] EXCEPT !.kids = kids]),
                  current |-> m]
  <2>1. Kids(kids).sets = "kids" /\ Kids(kids).kids = kids
    BY DEF Kids
  <2> QED
    BY <2>1 DEF Upserted
<1>2. Written.sets = "text"
    BY DEF Written
<1>3. Upserted(h, m, Written) =
          [messages |-> Put(h.messages, m, [h.messages[m] EXCEPT !.text = "written"]),
           current |-> m]
    BY <1>2 DEF Upserted
<1> QED
    BY <1>1, <1>3

-----------------------------------------------------------------------------
(* Where a request is, on the document as it is                            *)

Todos(todo) == IsSeq(todo) /\ todo # <<>>

\* A forest but for a message u its parent does not list, and the children that
\* u lists and that are not there.
Unlisted(f, u, p, left) ==
    /\ Typed(f) /\ Rooted(f)
    /\ u \in DOMAIN f /\ p \in DOMAIN f /\ f[u].parent = p
    /\ \A m \in DOMAIN f : f[m].kids = IF m = p THEN Family(f, m) \ {u}
                                       ELSE IF m = u THEN Family(f, m) \cup left
                                       ELSE Family(f, m)

\* A forest but for the children that a message lists and that are not there.
Awaited(f, u, left) ==
    /\ Typed(f) /\ Rooted(f)
    /\ u \in DOMAIN f
    /\ \A m \in DOMAIN f : f[m].kids = IF m = u THEN Family(f, m) \cup left ELSE Family(f, m)

\* The answers left are of no other turn (F), and not in the document or there
\* without children.
Fresh(h, u, left, F) ==
    /\ left \in SUBSET Id /\ left \cap F = {}
    /\ \A a \in left \cap Ids(h) : h.messages[a].parent = u /\ h.messages[a].kids = {}

\* What is left to do of a turn: from its link to the answers, its link to the
\* parent, or its placeholder on.
Linking(todo, u, left) ==
    Todos(todo) /\ Head(todo) = Link(u, left, TRUE) /\ Answering(Tail(todo), u, left)

Hanging(todo, u, p, left) ==
    IF p = Null THEN Linking(todo, u, left)
    ELSE Todos(todo) /\ Head(todo) = Link(p, {u}, FALSE) /\ Linking(Tail(todo), u, left)

Placing(todo, u, data, left) ==
    Todos(todo) /\ Head(todo) = Upsert(u, data) /\ Hanging(Tail(todo), u, data.parent, left)

\* The user message is new, or it is written again with the links it has.
New(h, u, data, left, F) ==
    /\ u \in Id \ (Ids(h) \cup F) /\ u \notin left
    /\ \E p \in Ids(h) \cup {Null}, text \in Text : data = Whole(p, left, text)

Again(h, u, data, left) ==
    /\ u \in Ids(h)
    /\ \E text \in Text : data = Whole(h.messages[u].parent, h.messages[u].kids \cup left, text)

\* The stages: nothing left to do; one write; before a turn's user message is
\* written, before its parent lists it (or is seen to), before it lists its
\* answers once more, and before they are all there.
Ended(h, todo, F) == todo = <<>> /\ Forest(h.messages)

Single(h, todo, F) ==
    /\ Todos(todo) /\ Tail(todo) = <<>> /\ Forest(h.messages)
    /\ \/ Head(todo) = Fields
       \/ \E m \in Ids(h) : Head(todo) = Upsert(m, Written)
       \/ \E m : Head(todo) = Delete(m)
       \/ \E t : /\ Head(todo) = Save(t)
                 /\ Forest(t.messages) /\ t.current \in Ids(t) /\ Ids(t) \cap F = {}

Sending(h, todo, F) ==
    \E u, data, left :
        /\ Forest(h.messages)
        /\ Fresh(h, u, left, F)
        /\ New(h, u, data, left, F) \/ Again(h, u, data, left)
        /\ \/ Placing(todo, u, data, left)
           \/ Todos(todo) /\ Head(todo) = Fields /\ Placing(Tail(todo), u, data, left)

Hung(h, todo, F) ==
    \E u, p, left :
        /\ Unlisted(h.messages, u, p, left)
        /\ Fresh(h, u, left, F)
        /\ Todos(todo) /\ Linking(Tail(todo), u, left)
        /\ \/ Head(todo) = Link(p, {u}, FALSE)
           \/ Head(todo) = Upsert(p, Kids(h.messages[p].kids \cup {u}))

Hooked(h, todo, F) ==
    \E u, p, left :
        /\ Awaited(h.messages, u, left)
        /\ p \in Ids(h) /\ u \in h.messages[p].kids
        /\ Fresh(h, u, left, F)
        /\ Todos(todo) /\ Linking(Tail(todo), u, left)
        /\ Head(todo) = Link(p, {u}, FALSE)

Listing(h, todo, F) ==
    \E u, left :
        /\ Awaited(h.messages, u, left)
        /\ Fresh(h, u, left, F)
        /\ Todos(todo) /\ Answering(Tail(todo), u, left)
        /\ \/ Head(todo) = Link(u, left, TRUE)
           \/ Head(todo) = Upsert(u, Kids(h.messages[u].kids \cup left))

Filling(h, todo, F) ==
    \E u, left :
        /\ Awaited(h.messages, u, left)
        /\ Fresh(h, u, left, F)
        /\ Answering(todo, u, left)

Stage(h, todo, F) ==
    \/ Ended(h, todo, F) \/ Single(h, todo, F) \/ Sending(h, todo, F)
    \/ Hung(h, todo, F) \/ Hooked(h, todo, F) \/ Listing(h, todo, F) \/ Filling(h, todo, F)

\* What a request that holds the document leaves behind.
Leaves(d, todo, F) ==
    Stage(d, todo, F) /\ Current(d) /\ Ids(d) \cap F = {}

LEMMA CommitSingle ==
    ASSUME NEW h, NEW todo, NEW F, Single(h, todo, F), Current(h), Ids(h) \cap F = {},
           NEW d \in Results(Head(todo), h)
    PROVE  Leaves(d, Tail(todo), F)
<1> SUFFICES Forest(d.messages) /\ Current(d) /\ Ids(d) \cap F = {}
    BY DEF Single, Leaves, Stage, Ended
<1>1. CASE Head(todo) = Fields
    BY <1>1, ResultsOf DEF Single
<1>2. ASSUME NEW m \in Ids(h), Head(todo) = Upsert(m, Written)
      PROVE  Forest(d.messages) /\ Current(d) /\ Ids(d) \cap F = {}
  <2> DEFINE f == h.messages
             new == [f[m] EXCEPT !.text = "written"]
             g == Put(f, m, new)
  <2>1. d = [messages |-> g, current |-> m]
    BY <1>2, ResultsOf, UpsertedOld
  <2>2. Typed(f) /\ Rooted(f) /\ m \in DOMAIN f /\ \A k \in DOMAIN f : f[k].kids = Family(f, k)
    BY DEF Single, Forest, Ids
  <2>3. f[m] \in Message /\ m \in Id
    BY <2>2 DEF Typed
  <2>4. new \in Message /\ new.parent = f[m].parent /\ new.kids = f[m].kids
    BY <2>3 DEF Message, Text
  <2> HIDE DEF new, f
  <2>5. Typed(g)
    BY <2>2, <2>3, <2>4, PutTyped
  <2>6. Rooted(g) /\ \A k : Family(g, k) = Family(f, k)
    BY <2>2, <2>4, PutOld
  <2>7. DOMAIN g = DOMAIN f /\ \A k \in DOMAIN g : g[k].kids = f[k].kids
    BY <2>2, <2>4 DEF Put
  <2> HIDE DEF g
  <2>8. Forest(g)
    BY <2>2, <2>5, <2>6, <2>7 DEF Forest
  <2> QED
    BY <2>1, <2>2, <2>7, <2>8 DEF Current, Ids, f
<1>3. ASSUME NEW m, Head(todo) = Delete(m)
      PROVE  Forest(d.messages) /\ Current(d) /\ Ids(d) \cap F = {}
    BY <1>3, ResultsOf, DeletionsSound DEF Single
<1>4. ASSUME NEW t, Head(todo) = Save(t),
             Forest(t.messages), t.current \in Ids(t), Ids(t) \cap F = {}
      PROVE  Forest(d.messages) /\ Current(d) /\ Ids(d) \cap F = {}
  <2>1. d = Merged(h, t)
    BY <1>4, ResultsOf
  <2>2. /\ Forest(d.messages)
        /\ DOMAIN d.messages = DOMAIN h.messages \cup DOMAIN t.messages
        /\ d = [messages |-> d.messages, current |-> t.current]
    BY <1>4, <2>1, MergedForest DEF Single, Ids
  <2>3. d.current = t.current
    BY <2>2
  <2> QED
    BY <1>4, <2>2, <2>3 DEF Current, Ids
<1> QED
    BY <1>1, <1>2, <1>3, <1>4 DEF Single

LEMMA LinkingSeq ==
    ASSUME NEW todo, NEW u, NEW left, NEW p, Hanging(todo, u, p, left)
    PROVE  Todos(todo)
BY DEF Hanging, Linking

\* The user message that is sent.
LEMMA CommitNew ==
    ASSUME NEW h, NEW F, Forest(h.messages), Ids(h) \cap F = {},
           NEW u, NEW data, NEW left, New(h, u, data, left, F), Fresh(h, u, left, F),
           NEW todo, Placing(todo, u, data, left),
           NEW d \in Results(Head(todo), h)
    PROVE  Leaves(d, Tail(todo), F)
<1>1. PICK p \in Ids(h) \cup {Null}, text \in Text : data = Whole(p, left, text)
    BY DEF New
<1> DEFINE f == h.messages
           new == [parent |-> p, kids |-> left, text |-> text]
           g == Put(f, u, new)
           rest == Tail(todo)
<1>2. /\ DOMAIN f = Ids(h) /\ Typed(f) /\ Rooted(f) /\ (\A k \in DOMAIN f : f[k].kids = Family(f, k))
      /\ u \in Id \ (Ids(h) \cup F) /\ u \notin left /\ left \in SUBSET Id
    BY DEF Ids, Forest, New, Fresh
<1>3. Null \notin Ids(h) /\ Ids(h) \subseteq Id /\ Null # u
    BY <1>2, IdAssumption DEF Typed
<1>4. \A k \in Ids(h) : u \notin f[k].kids
    BY <1>2 DEF Family
<1>5. d = [messages |-> g, current |-> u]
  <2>1. Results(Head(todo), h) = {Upserted(h, u, Whole(p, left, text))}
    BY <1>1, ResultsOf DEF Placing
  <2>2. Upserted(h, u, Whole(p, left, text)) = [messages |-> g, current |-> u]
    BY <1>2, <1>4, UpsertedNew
  <2> QED
    BY <2>1, <2>2
<1>6. new \in Message /\ new.parent = p /\ new.kids = left /\ p \in DOMAIN f \cup {Null}
    BY <1>2, <1>3 DEF Message
<1>7. Hanging(rest, u, p, left)
    BY <1>1 DEF Placing, Whole
<1> HIDE DEF new, f
<1>8. Typed(g)
    BY <1>2, <1>6, PutTyped
<1>9. /\ Rooted(g)
      /\ \A k \in DOMAIN f : Family(g, k) = IF k = p THEN Family(f, k) \cup {u} ELSE Family(f, k)
      /\ Family(g, u) = {}
  <2>1. u \in Id \ DOMAIN f /\ new.parent \in DOMAIN f \cup {Null}
    BY <1>2, <1>6
  <2>2. /\ Rooted(g)
        /\ \A k \in DOMAIN f : Family(g, k) = IF k = new.parent THEN Family(f, k) \cup {u} ELSE Family(f, k)
        /\ Family(g, u) = {}
    BY <1>2, <2>1, PutNew, Zenon
  <2> QED
    BY <1>6, <2>2
<1>10. /\ DOMAIN g = DOMAIN f \cup {u} /\ g[u] = new
       /\ \A k \in DOMAIN f : g[k] = f[k]
    BY <1>2 DEF Put
<1> HIDE DEF g
<1>11. d.messages = g /\ Ids(d) = Ids(h) \cup {u} /\ d.current = u
    BY <1>2, <1>5, <1>10 DEF Ids
<1>12. Fresh(d, u, left, F) /\ Ids(d) \cap F = {} /\ Current(d)
  <2>1. ASSUME NEW a \in left \cap Ids(d) PROVE d.messages[a].parent = u /\ d.messages[a].kids = {}
    <3>1. a \in Ids(h) /\ d.messages[a] = h.messages[a]
        BY <1>2, <1>10, <1>11 DEF f
    <3> QED
        BY <3>1 DEF Fresh
  <2> QED
    BY <1>2, <1>11, <2>1 DEF Fresh, Current
<1>13. CASE p = Null
  <2>1. Linking(rest, u, left)
    BY <1>7, <1>13 DEF Hanging
  <2>2. \A k \in DOMAIN g : g[k].kids = IF k = u THEN Family(g, k) \cup left ELSE Family(g, k)
    <3>1. \A k \in DOMAIN f : k # p /\ k # u /\ g[k].kids = Family(g, k)
        BY <1>2, <1>3, <1>9, <1>10, <1>13
    <3>2. g[u].kids = Family(g, u) \cup left
        BY <1>6, <1>9, <1>10
    <3> QED
        BY <1>10, <3>1, <3>2
  <2>3. Awaited(g, u, left)
    BY <1>8, <1>9, <1>10, <2>2 DEF Awaited
  <2>4. Listing(d, rest, F)
    BY <1>11, <1>12, <2>1, <2>3 DEF Listing, Linking
  <2> QED
    BY <1>12, <2>4 DEF Leaves, Stage
<1>14. CASE p # Null
  <2>1. Todos(rest) /\ Head(rest) = Link(p, {u}, FALSE) /\ Linking(Tail(rest), u, left)
    BY <1>7, <1>14 DEF Hanging
  <2>2. p \in DOMAIN f /\ u \notin DOMAIN f
    BY <1>2, <1>6, <1>14
  <2>3. u \notin Family(f, p)
    BY <2>2 DEF Family
  <2>4. \A k \in DOMAIN g : g[k].kids = IF k = p THEN Family(g, k) \ {u}
                                        ELSE IF k = u THEN Family(g, k) \cup left
                                        ELSE Family(g, k)
    <3> TAKE k \in DOMAIN g
    <3>1. CASE k = u
        BY <1>6, <1>9, <1>10, <2>2, <3>1
    <3>2. CASE k = p
        BY <1>2, <1>9, <1>10, <2>2, <2>3, <3>2
    <3>3. CASE k \in DOMAIN f \ {p}
        BY <1>2, <1>9, <1>10, <2>2, <3>3
    <3> QED
        BY <1>10, <3>1, <3>2, <3>3
  <2>5. Unlisted(g, u, p, left)
    BY <1>6, <1>8, <1>9, <1>10, <2>2, <2>4 DEF Unlisted
  <2>6. Hung(d, rest, F)
    BY <1>11, <1>12, <2>1, <2>5 DEF Hung
  <2> QED
    BY <1>12, <2>6 DEF Leaves, Stage
<1> QED
    BY <1>13, <1>14

\* The user message that is sent again.
LEMMA CommitAgain ==
    ASSUME NEW h, NEW F, Forest(h.messages), Ids(h) \cap F = {},
           NEW u, NEW data, NEW left, Again(h, u, data, left), Fresh(h, u, left, F),
           NEW todo, Placing(todo, u, data, left),
           NEW d \in Results(Head(todo), h)
    PROVE  Leaves(d, Tail(todo), F)
<1> DEFINE f == h.messages
           p == f[u].parent
           kids == f[u].kids \cup left
<1>1. PICK text \in Text : data = Whole(p, kids, text)
    BY DEF Again
<1> DEFINE new == [parent |-> p, kids |-> kids, text |-> text]
           g == Put(f, u, new)
           rest == Tail(todo)
<1>2. /\ DOMAIN f = Ids(h) /\ Typed(f) /\ Rooted(f) /\ (\A k \in DOMAIN f : f[k].kids = Family(f, k))
      /\ u \in DOMAIN f /\ left \in SUBSET Id
    BY DEF Ids, Forest, Again, Fresh
<1>3. f[u] \in Message /\ u \in Id
    BY <1>2 DEF Typed
<1>4. d = [messages |-> g, current |-> u]
  <2>1. Results(Head(todo), h) = {Upserted(h, u, Whole(p, kids, text))}
    BY <1>1, ResultsOf DEF Placing
  <2>2. u \in Ids(h)
    BY <1>2
  <2> HIDE DEF kids, p, f
  <2>3. Upserted(h, u, Whole(p, kids, text)) = [messages |-> Put(h.messages, u, new), current |-> u]
    BY <2>2, UpsertedWhole
  <2> QED
    BY <2>1, <2>3 DEF f
<1>5. Hanging(rest, u, p, left)
    BY <1>1 DEF Placing, Whole
<1>6. new \in Message /\ new.parent = p /\ new.kids = kids
    BY <1>2, <1>3 DEF Message
<1>7. kids = Family(f, u) \cup left
    BY <1>2
<1>8. p \in DOMAIN f \cup {Null}
    BY <1>2 DEF Rooted
<1>9. p = f[u].parent
    OBVIOUS
<1> HIDE DEF new, kids, p, f
<1>10. Typed(g)
    BY <1>2, <1>3, <1>6, PutTyped
<1>11. Rooted(g) /\ \A k : Family(g, k) = Family(f, k)
    BY <1>2, <1>6, <1>9, PutOld
<1>12. DOMAIN g = DOMAIN f /\ g[u] = new /\ \A k \in DOMAIN f \ {u} : g[k] = f[k]
    BY <1>2 DEF Put
<1> HIDE DEF g
<1>13. \A k \in DOMAIN g : g[k].kids = IF k = u THEN Family(g, k) \cup left ELSE Family(g, k)
    BY <1>2, <1>6, <1>7, <1>11, <1>12
<1>14. Awaited(g, u, left)
    BY <1>2, <1>10, <1>11, <1>12, <1>13 DEF Awaited
<1>15. d.messages = g /\ Ids(d) = Ids(h) /\ d.current = u /\ u \in Ids(d)
    BY <1>2, <1>4, <1>12 DEF Ids
<1>16. Fresh(d, u, left, F) /\ Current(d)
  <2>1. ASSUME NEW a \in left \cap Ids(d) PROVE d.messages[a].parent = u /\ d.messages[a].kids = {}
    <3>1. a \in Ids(h) /\ f[a].parent = u /\ f[a].kids = {}
        BY <1>15 DEF Fresh, f
    <3>2. a # u
        <4>1. {u} \in SUBSET DOMAIN f /\ {u} # {}
            BY <1>2
        <4>2. f[u].parent # u
            BY <1>2, <4>1 DEF Rooted
        <4> QED
            BY <3>1, <4>2
    <3> QED
        BY <1>2, <1>12, <1>15, <3>1, <3>2
  <2> QED
    BY <1>15, <2>1 DEF Fresh, Current
<1>17. CASE p = Null
  <2>1. Linking(rest, u, left)
    BY <1>5, <1>17 DEF Hanging
  <2>2. Listing(d, rest, F)
    BY <1>14, <1>15, <1>16, <2>1 DEF Listing, Linking
  <2> QED
    BY <1>15, <1>16, <2>2 DEF Leaves, Stage
<1>18. CASE p # Null
  <2>1. Todos(rest) /\ Head(rest) = Link(p, {u}, FALSE) /\ Linking(Tail(rest), u, left)
    BY <1>5, <1>18 DEF Hanging
  <2>2. p \in DOMAIN f /\ u \in Family(f, p)
    BY <1>2, <1>8, <1>9, <1>18 DEF Family
  <2>3. p \in Ids(d) /\ u \in d.messages[p].kids
    <3>1. p \in DOMAIN g /\ u \in Family(g, p)
        BY <1>11, <1>12, <2>2
    <3>2. u \in g[p].kids
        BY <1>13, <3>1
    <3> QED
        BY <1>2, <1>12, <1>15, <3>1, <3>2
  <2>4. Hooked(d, rest, F)
    BY <1>14, <1>15, <1>16, <2>1, <2>3 DEF Hooked
  <2> QED
    BY <1>15, <1>16, <2>4 DEF Leaves, Stage
<1> QED
    BY <1>17, <1>18

LEMMA CommitSending ==
    ASSUME NEW h, NEW todo, NEW F, Sending(h, todo, F), Current(h), Ids(h) \cap F = {},
           NEW d \in Results(Head(todo), h)
    PROVE  Leaves(d, Tail(todo), F)
<1>1. PICK u, data, left :
        /\ Forest(h.messages)
        /\ Fresh(h, u, left, F)
        /\ New(h, u, data, left, F) \/ Again(h, u, data, left)
        /\ \/ Placing(todo, u, data, left)
           \/ Todos(todo) /\ Head(todo) = Fields /\ Placing(Tail(todo), u, data, left)
    BY DEF Sending
<1>2. CASE Placing(todo, u, data, left)
    BY <1>1, <1>2, CommitNew, CommitAgain
<1>3. CASE Todos(todo) /\ Head(todo) = Fields /\ Placing(Tail(todo), u, data, left)
  <2>1. d = h
    BY <1>3, ResultsOf
  <2>2. Sending(h, Tail(todo), F)
    BY <1>1, <1>3 DEF Sending
  <2> QED
    BY <2>1, <2>2 DEF Leaves, Stage
<1> QED
    BY <1>1, <1>2, <1>3

\* No message is its parent's parent.
LEMMA PathNoReturn ==
    ASSUME NEW f, Rooted(f), NEW u \in DOMAIN f, NEW p \in DOMAIN f, f[u].parent = p
    PROVE  f[p].parent # u
<1>1. {u, p} \in SUBSET DOMAIN f /\ {u, p} # {}
    OBVIOUS
<1>2. \E m \in {u, p} : f[m].parent \notin {u, p}
    BY <1>1 DEF Rooted
<1> QED
    BY <1>2

\* The message is linked below its parent.
LEMMA CommitHung ==
    ASSUME NEW h, NEW todo, NEW F, Hung(h, todo, F), Head(todo).op # "link", Ids(h) \cap F = {},
           NEW d \in Results(Head(todo), h)
    PROVE  Leaves(d, Tail(todo), F)
<1>1. PICK u, p, left :
        /\ Unlisted(h.messages, u, p, left)
        /\ Fresh(h, u, left, F)
        /\ Todos(todo) /\ Linking(Tail(todo), u, left)
        /\ \/ Head(todo) = Link(p, {u}, FALSE)
           \/ Head(todo) = Upsert(p, Kids(h.messages[p].kids \cup {u}))
    BY DEF Hung
<1> DEFINE f == h.messages
           kids == f[p].kids \cup {u}
           new == [f[p] EXCEPT !.kids = kids]
           g == Put(f, p, new)
<1>2. Head(todo) = Upsert(p, Kids(kids))
    BY <1>1 DEF Link
<1>3. /\ DOMAIN f = Ids(h) /\ Typed(f) /\ Rooted(f)
      /\ u \in DOMAIN f /\ p \in DOMAIN f /\ f[u].parent = p
      /\ \A m \in DOMAIN f : f[m].kids = IF m = p THEN Family(f, m) \ {u}
                                         ELSE IF m = u THEN Family(f, m) \cup left
                                         ELSE Family(f, m)
      /\ left \in SUBSET Id
    BY <1>1 DEF Unlisted, Fresh, Ids
<1>4. d = [messages |-> g, current |-> p]
  <2>1. Results(Head(todo), h) = {Upserted(h, p, Kids(kids))}
    BY <1>2, ResultsOf
  <2>2. p \in Ids(h)
    BY <1>3
  <2>3. Upserted(h, p, Kids(kids)) = [messages |-> g, current |-> p]
    BY <2>2, UpsertedOld
  <2> QED
    BY <2>1, <2>3
<1>5. kids = Family(f, p) /\ kids \subseteq Id
    BY <1>3 DEF Family, Typed
<1>6. f[p] \in Message /\ p \in Id
    BY <1>3 DEF Typed
<1>7. new \in Message /\ new.parent = f[p].parent /\ new.kids = kids
    BY <1>5, <1>6 DEF Message
<1> HIDE DEF new, kids, f
<1>8. Typed(g)
    BY <1>3, <1>6, <1>7, PutTyped
<1>9. Rooted(g) /\ \A k : Family(g, k) = Family(f, k)
    BY <1>3, <1>7, PutOld
<1>10. DOMAIN g = DOMAIN f /\ g[p] = new /\ \A k \in DOMAIN f \ {p} : g[k] = f[k]
    BY <1>3 DEF Put
<1> HIDE DEF g
<1>11. u # p
  <2>1. {p} \in SUBSET DOMAIN f /\ {p} # {}
    BY <1>3
  <2> QED
    BY <1>3, <2>1 DEF Rooted
<1>12. \A k \in DOMAIN g : g[k].kids = IF k = u THEN Family(g, k) \cup left ELSE Family(g, k)
  <2>1. g[p].kids = Family(g, p)
    BY <1>5, <1>7, <1>9, <1>10
  <2>2. \A k \in DOMAIN f \ {p} : g[k].kids = IF k = u THEN Family(g, k) \cup left ELSE Family(g, k)
    BY <1>3, <1>9, <1>10
  <2> QED
    BY <1>10, <1>11, <2>1, <2>2
<1>13. Awaited(g, u, left)
    BY <1>3, <1>8, <1>9, <1>10, <1>12 DEF Awaited
<1>14. d.messages = g /\ Ids(d) = Ids(h) /\ d.current = p
    BY <1>3, <1>4, <1>10 DEF Ids
<1>15. Fresh(d, u, left, F)
  <2>1. ASSUME NEW a \in left \cap Ids(d) PROVE d.messages[a].parent = u /\ d.messages[a].kids = {}
    <3>1. a \in Ids(h) /\ f[a].parent = u /\ f[a].kids = {}
        BY <1>1, <1>14 DEF Fresh, f
    <3>2. a # p
        BY <1>3, <1>11, <3>1, PathNoReturn
    <3> QED
        BY <1>3, <1>10, <1>14, <3>1, <3>2
  <2> QED
    BY <1>1, <1>14, <2>1 DEF Fresh
<1>16. Listing(d, Tail(todo), F)
    BY <1>1, <1>13, <1>14, <1>15 DEF Listing, Linking
<1> QED
    BY <1>3, <1>14, <1>16 DEF Leaves, Stage, Current

\* It lists its answers, which it does since it was written.
LEMMA CommitListing ==
    ASSUME NEW h, NEW todo, NEW F, Listing(h, todo, F), Head(todo).op # "link", Ids(h) \cap F = {},
           NEW d \in Results(Head(todo), h)
    PROVE  Leaves(d, Tail(todo), F)
<1>1. PICK u, left :
        /\ Awaited(h.messages, u, left)
        /\ Fresh(h, u, left, F)
        /\ Todos(todo) /\ Answering(Tail(todo), u, left)
        /\ \/ Head(todo) = Link(u, left, TRUE)
           \/ Head(todo) = Upsert(u, Kids(h.messages[u].kids \cup left))
    BY DEF Listing
<1> DEFINE f == h.messages
           kids == f[u].kids \cup left
           new == [f[u] EXCEPT !.kids = kids]
           g == Put(f, u, new)
<1>2. Head(todo) = Upsert(u, Kids(kids))
    BY <1>1 DEF Link
<1>3. /\ DOMAIN f = Ids(h) /\ Typed(f) /\ Rooted(f) /\ u \in DOMAIN f
      /\ \A m \in DOMAIN f : f[m].kids = IF m = u THEN Family(f, m) \cup left ELSE Family(f, m)
    BY <1>1 DEF Awaited, Ids
<1>4. d = [messages |-> g, current |-> u]
  <2>1. Results(Head(todo), h) = {Upserted(h, u, Kids(kids))}
    BY <1>2, ResultsOf
  <2>2. u \in Ids(h)
    BY <1>3
  <2>3. Upserted(h, u, Kids(kids)) = [messages |-> g, current |-> u]
    BY <2>2, UpsertedOld, Zenon
  <2> QED
    BY <2>1, <2>3, Zenon
<1>5. kids = Family(f, u) \cup left /\ kids \subseteq Id
    BY <1>1, <1>3 DEF Family, Typed, Fresh
<1>6. f[u] \in Message /\ u \in Id
    BY <1>3 DEF Typed
<1>7. new \in Message /\ new.parent = f[u].parent /\ new.kids = kids
    BY <1>5, <1>6 DEF Message
<1> HIDE DEF new, kids, f
<1>8. Typed(g)
    BY <1>3, <1>6, <1>7, PutTyped
<1>9. Rooted(g) /\ \A k : Family(g, k) = Family(f, k)
    BY <1>3, <1>7, PutOld
<1>10. DOMAIN g = DOMAIN f /\ g[u] = new /\ \A k \in DOMAIN f \ {u} : g[k] = f[k]
    BY <1>3 DEF Put
<1> HIDE DEF g
<1>11. \A k \in DOMAIN g : g[k].kids = IF k = u THEN Family(g, k) \cup left ELSE Family(g, k)
    BY <1>3, <1>5, <1>7, <1>9, <1>10
<1>12. Awaited(g, u, left)
    BY <1>3, <1>8, <1>9, <1>10, <1>11 DEF Awaited
<1>13. d.messages = g /\ Ids(d) = Ids(h) /\ d.current = u
    BY <1>3, <1>4, <1>10 DEF Ids
<1>14. Fresh(d, u, left, F)
  <2>1. ASSUME NEW a \in left \cap Ids(d) PROVE d.messages[a].parent = u /\ d.messages[a].kids = {}
    <3>1. a \in Ids(h) /\ f[a].parent = u /\ f[a].kids = {}
        BY <1>1, <1>13 DEF Fresh, f
    <3>2. a # u
        BY <1>3, <3>1, PathNoReturn
    <3> QED
        BY <1>3, <1>10, <1>13, <3>1, <3>2
  <2> QED
    BY <1>1, <1>13, <2>1 DEF Fresh
<1>15. Filling(d, Tail(todo), F)
    BY <1>1, <1>12, <1>13, <1>14 DEF Filling
<1> QED
    BY <1>3, <1>13, <1>15 DEF Leaves, Stage, Current

\* The next answer's placeholder.
LEMMA CommitFilling ==
    ASSUME NEW h, NEW todo, NEW F, Filling(h, todo, F), todo # <<>>, Ids(h) \cap F = {},
           NEW d \in Results(Head(todo), h)
    PROVE  Leaves(d, Tail(todo), F)
<1>1. PICK u, left : /\ Awaited(h.messages, u, left)
                     /\ Fresh(h, u, left, F)
                     /\ Answering(todo, u, left)
    BY DEF Filling
<1>2. PICK a \in left : /\ Head(todo) = Upsert(a, Placeholder(u))
                        /\ Answering(Tail(todo), u, left \ {a})
    BY <1>1, AnsweringNext
<1> DEFINE f == h.messages
           new == [parent |-> u, kids |-> {}, text |-> ""]
           g == Put(f, a, new)
<1>3. /\ DOMAIN f = Ids(h) /\ Typed(f) /\ Rooted(f) /\ u \in DOMAIN f
      /\ \A m \in DOMAIN f : f[m].kids = IF m = u THEN Family(f, m) \cup left ELSE Family(f, m)
    BY <1>1 DEF Awaited, Ids
<1>4. a \in Id /\ a \notin F /\ u # Null /\ u \in Id
    BY <1>1, <1>3, IdAssumption DEF Fresh, Typed
<1>5. d = [messages |-> g, current |-> a]
  <2>1. Results(Head(todo), h) = {Upserted(h, a, Placeholder(u))}
    BY <1>2, ResultsOf
  <2>2. Upserted(h, a, Placeholder(u)) = [messages |-> g, current |-> a]
    BY <1>4, UpsertedPlaceholder
  <2> QED
    BY <2>1, <2>2
<1>6. new \in Message /\ new.parent = u /\ new.kids = {} /\ u \in DOMAIN f \cup {Null}
    BY <1>3, <1>4 DEF Message, Text
<1> HIDE DEF new, f
<1>7. Typed(g)
    BY <1>3, <1>4, <1>6, PutTyped
<1>8. /\ Rooted(g)
      /\ \A k \in DOMAIN f : Family(g, k) = IF k = u THEN Family(f, k) \cup {a} ELSE Family(f, k)
      /\ Family(g, a) = {}
  <2>1. CASE a \notin DOMAIN f
    <3>1. a \in Id \ DOMAIN f /\ new.parent \in DOMAIN f \cup {Null}
        BY <1>4, <1>6, <2>1
    <3>2. /\ Rooted(g)
          /\ \A k \in DOMAIN f : Family(g, k) = IF k = new.parent THEN Family(f, k) \cup {a} ELSE Family(f, k)
          /\ Family(g, a) = {}
        BY <1>3, <3>1, PutNew, Zenon
    <3> QED
        BY <1>6, <3>2
  <2>2. CASE a \in DOMAIN f
    <3>1. f[a].parent = u /\ f[a].kids = {}
        BY <1>1, <1>3, <2>2 DEF Fresh, f
    <3>2. Rooted(g) /\ \A k : Family(g, k) = Family(f, k)
        BY <1>3, <1>6, <2>2, <3>1, PutOld
    <3>3. a \in Family(f, u) /\ \A k \in DOMAIN f : k # u => a \notin Family(f, k)
        BY <2>2, <3>1 DEF Family
    <3>4. a # u
        BY <1>3, <2>2, <3>1, PathNoReturn
    <3>5. Family(f, a) = {}
        BY <1>3, <2>2, <3>1, <3>4
    <3> QED
        BY <3>2, <3>3, <3>5
  <2> QED
    BY <2>1, <2>2
<1>9. /\ DOMAIN g = DOMAIN f \cup {a} /\ g[a] = new
      /\ \A k \in DOMAIN f \ {a} : g[k] = f[k]
    BY DEF Put
<1>15. a # u
  <2>1. CASE a \in DOMAIN f
    <3>1. f[a].parent = u
        BY <1>1, <1>3, <2>1 DEF Fresh, f
    <3> QED
        BY <1>3, <2>1, <3>1, PathNoReturn
  <2> QED
    BY <1>3, <2>1
<1> HIDE DEF g
<1>10. \A k \in DOMAIN g : g[k].kids = IF k = u THEN Family(g, k) \cup (left \ {a}) ELSE Family(g, k)
  <2> TAKE k \in DOMAIN g
  <2>1. CASE k = a
    BY <1>6, <1>8, <1>9, <1>15, <2>1
  <2>2. CASE k \in DOMAIN f \ {a}
    <3>1. g[k].kids = IF k = u THEN Family(f, k) \cup left ELSE Family(f, k)
      BY <1>3, <1>9, <2>2
    <3>2. Family(g, k) = IF k = u THEN Family(f, k) \cup {a} ELSE Family(f, k)
      BY <1>8, <2>2
    <3>3. {a} \cup (left \ {a}) = left
      BY <1>2
    <3> QED
      BY <3>1, <3>2, <3>3
  <2> QED
    BY <1>9, <2>1, <2>2
<1>11. Awaited(g, u, left \ {a})
    BY <1>3, <1>7, <1>8, <1>9, <1>10 DEF Awaited
<1>12. d.messages = g /\ Ids(d) = Ids(h) \cup {a} /\ d.current = a
    BY <1>3, <1>5, <1>9 DEF Ids
<1>13. Fresh(d, u, left \ {a}, F)
  <2>1. ASSUME NEW b \in (left \ {a}) \cap Ids(d) PROVE d.messages[b].parent = u /\ d.messages[b].kids = {}
    <3>1. b \in Ids(h) /\ f[b].parent = u /\ f[b].kids = {}
        BY <1>1, <1>12 DEF Fresh, f
    <3> QED
        BY <1>3, <1>9, <1>12, <3>1
  <2> QED
    BY <1>1, <2>1 DEF Fresh
<1>14. Filling(d, Tail(todo), F)
    BY <1>2, <1>11, <1>12, <1>13 DEF Filling
<1> QED
    BY <1>4, <1>12, <1>14 DEF Leaves, Stage, Current

\* Every write of a request that is alone moves the tree one stage on.
LEMMA CommitStage ==
    ASSUME NEW h, NEW todo, NEW F, Stage(h, todo, F), Current(h), Ids(h) \cap F = {},
           todo # <<>>, Head(todo).op # "link",
           NEW d \in Results(Head(todo), h)
    PROVE  Leaves(d, Tail(todo), F)
<1>1. CASE Single(h, todo, F)
    BY <1>1, CommitSingle
<1>2. CASE Sending(h, todo, F)
    BY <1>2, CommitSending
<1>3. CASE Hung(h, todo, F)
    BY <1>3, CommitHung
<1>4. CASE Listing(h, todo, F)
    BY <1>4, CommitListing
<1>5. CASE Filling(h, todo, F)
    BY <1>5, CommitFilling
<1>6. ~Hooked(h, todo, F)
  <2>1. ASSUME NEW u, NEW p PROVE Head(todo) # Link(p, {u}, FALSE)
    <3>1. Link(p, {u}, FALSE).op = "link"
        BY DEF Link
    <3> QED
        BY <3>1, Zenon
  <2> QED
    BY <2>1 DEF Hooked
<1> QED
    BY <1>1, <1>2, <1>3, <1>4, <1>5, <1>6 DEF Stage, Ended

\* The steps that do not grow the tree are taken on a forest, and can be left out.
LEMMA SpareStage ==
    ASSUME NEW h, NEW todo, NEW F, Stage(h, todo, F), todo # <<>>, ~Grows(Head(todo))
    PROVE  Forest(h.messages) /\ Stage(h, Tail(todo), F)
<1>1. ASSUME NEW m, NEW kids, NEW always PROVE Head(todo) # Link(m, kids, always)
  <2>1. Link(m, kids, always).op = "link"
    BY DEF Link
  <2> QED
    BY <2>1, Zenon DEF Grows
<1>2. ASSUME NEW m, NEW data, data.sets # "text" PROVE Head(todo) # Upsert(m, data)
  <2>1. Upsert(m, data).op = "upsert" /\ Upsert(m, data).data = data
    BY DEF Upsert
  <2> QED
    BY <1>2, <2>1, Zenon DEF Grows
<1>3. ASSUME NEW kids PROVE Kids(kids).sets # "text"
    BY DEF Kids
<1>4. ASSUME NEW q, NEW kids, NEW text PROVE Whole(q, kids, text).sets # "text"
    BY DEF Whole
<1>5. ~Hung(h, todo, F) /\ ~Hooked(h, todo, F) /\ ~Listing(h, todo, F)
    BY <1>1, <1>2, <1>3, Zenon DEF Hung, Hooked, Listing
<1>6. ~Filling(h, todo, F)
  <2> SUFFICES ASSUME NEW u, NEW left, Answering(todo, u, left) PROVE FALSE
    BY DEF Filling
  <2>1. PICK a \in left : Head(todo) = Upsert(a, Placeholder(u))
    BY AnsweringNext
  <2>2. Placeholder(u).sets # "text"
    BY DEF Placeholder, Whole
  <2> QED
    BY <1>2, <2>1, <2>2, Zenon
<1>7. CASE Single(h, todo, F)
    BY <1>7 DEF Single, Stage, Ended
<1>8. CASE Sending(h, todo, F)
  <2>1. PICK u, data, left :
        /\ Forest(h.messages)
        /\ Fresh(h, u, left, F)
        /\ New(h, u, data, left, F) \/ Again(h, u, data, left)
        /\ \/ Placing(todo, u, data, left)
           \/ Todos(todo) /\ Head(todo) = Fields /\ Placing(Tail(todo), u, data, left)
    BY <1>8 DEF Sending
  <2>2. data.sets # "text"
    BY <1>4, <2>1, Zenon DEF New, Again
  <2>3. ~Placing(todo, u, data, left)
    BY <1>2, <2>2, Zenon DEF Placing
  <2>4. Sending(h, Tail(todo), F)
    BY <2>1, <2>3 DEF Sending
  <2> QED
    BY <2>1, <2>4 DEF Stage
<1> QED
    BY <1>5, <1>6, <1>7, <1>8 DEF Stage, Ended

LEMMA EndedForest ==
    ASSUME NEW h, NEW F, Stage(h, <<>>, F)
    PROVE  Forest(h.messages)
<1>1. /\ ~Single(h, <<>>, F) /\ ~Sending(h, <<>>, F)
      /\ ~Hung(h, <<>>, F) /\ ~Hooked(h, <<>>, F) /\ ~Listing(h, <<>>, F)
    BY DEF Single, Sending, Placing, Hung, Hooked, Listing, Todos
<1>2. CASE Filling(h, <<>>, F)
  <2>1. PICK u, left : /\ Awaited(h.messages, u, left)
                       /\ Fresh(h, u, left, F)
                       /\ Answering(<<>>, u, left)
    BY <1>2 DEF Filling
  <2>2. left = {}
    BY <2>1, AnsweringSeq
  <2> QED
    BY <2>1, <2>2 DEF Awaited, Forest
<1>3. CASE Ended(h, <<>>, F)
    BY <1>3 DEF Ended
<1> QED
    BY <1>1, <1>2, <1>3 DEF Stage

\* A look at the document before a link drops it, or puts the upsert of the
\* longer list of children in its place.
LEMMA LookAhead ==
    ASSUME NEW h, NEW todo, NEW F, Stage(h, todo, F), todo # <<>>, Head(todo).op = "link"
    PROVE  LET link == Head(todo)
               kids == h.messages[link.id].kids
           IN  /\ link.id \in Ids(h)
               /\ IsSeq(Tail(todo))
               /\ IF link.always \/ ~(link.kids \subseteq kids)
                  THEN Stage(h, <<Upsert(link.id, Kids(kids \cup link.kids))>> \o Tail(todo), F)
                  ELSE Stage(h, Tail(todo), F)
<1> DEFINE link == Head(todo)
           kids == h.messages[link.id].kids
           next == <<Upsert(link.id, Kids(kids \cup link.kids))>> \o Tail(todo)
<1>1. ~Single(h, todo, F)
    BY DEF Single, Fields, Upsert, Delete, Save
<1>2. ~Sending(h, todo, F)
    BY DEF Sending, Placing, Fields, Upsert
<1>3. ~Filling(h, todo, F)
  <2> SUFFICES ASSUME NEW u, NEW left, Answering(todo, u, left) PROVE FALSE
    BY DEF Filling
  <2>1. PICK a \in left : Head(todo) = Upsert(a, Placeholder(u))
    BY AnsweringNext
  <2> QED
    BY <2>1 DEF Upsert
<1>4. CASE Hung(h, todo, F)
  <2>1. PICK u, p, left :
        /\ Unlisted(h.messages, u, p, left)
        /\ Fresh(h, u, left, F)
        /\ Todos(todo) /\ Linking(Tail(todo), u, left)
        /\ \/ Head(todo) = Link(p, {u}, FALSE)
           \/ Head(todo) = Upsert(p, Kids(h.messages[p].kids \cup {u}))
    BY <1>4 DEF Hung
  <2>2. link = Link(p, {u}, FALSE)
    <3>1. Upsert(p, Kids(h.messages[p].kids \cup {u})).op # "link"
        BY DEF Upsert
    <3> QED
        BY <2>1, <3>1, Zenon
  <2>3. link.id = p /\ link.kids = {u}
    BY <2>2 DEF Link
  <2>4. p \in Ids(h) /\ u \notin kids /\ ~(link.kids \subseteq kids)
    BY <2>1, <2>3 DEF Unlisted, Ids
  <2>5. next = <<Upsert(p, Kids(h.messages[p].kids \cup {u}))>> \o Tail(todo)
    BY <2>3
  <2>6. /\ Todos(next) /\ Head(next) = Upsert(p, Kids(h.messages[p].kids \cup {u}))
        /\ Tail(next) = Tail(todo)
    <3>1. IsSeq(Tail(todo))
        BY <2>1 DEF Linking, Todos
    <3> QED
        BY <2>5, <3>1, FirstThen, Zenon DEF Todos
  <2>8. IsSeq(Tail(todo))
    BY <2>1 DEF Linking, Todos
  <2> HIDE DEF next
  <2>7. Hung(h, next, F)
    BY <2>1, <2>6 DEF Hung
  <2> QED
    BY <2>3, <2>4, <2>7, <2>8 DEF Stage, next
<1>5. CASE Listing(h, todo, F)
  <2>1. PICK u, left :
        /\ Awaited(h.messages, u, left)
        /\ Fresh(h, u, left, F)
        /\ Todos(todo) /\ Answering(Tail(todo), u, left)
        /\ \/ Head(todo) = Link(u, left, TRUE)
           \/ Head(todo) = Upsert(u, Kids(h.messages[u].kids \cup left))
    BY <1>5 DEF Listing
  <2>2. link = Link(u, left, TRUE)
    <3>1. Upsert(u, Kids(h.messages[u].kids \cup left)).op # "link"
        BY DEF Upsert
    <3> QED
        BY <2>1, <3>1, Zenon
  <2>3. link.id = u /\ link.kids = left /\ link.always = TRUE
    BY <2>2 DEF Link
  <2>5. next = <<Upsert(u, Kids(h.messages[u].kids \cup left))>> \o Tail(todo)
    BY <2>3
  <2>6. /\ Todos(next) /\ Head(next) = Upsert(u, Kids(h.messages[u].kids \cup left))
        /\ Tail(next) = Tail(todo)
    <3>1. IsSeq(Tail(todo))
        BY <2>1, AnsweringSeq
    <3> QED
        BY <2>5, <3>1, FirstThen, Zenon DEF Todos
  <2>8. IsSeq(Tail(todo))
    BY <2>1, AnsweringSeq
  <2>9. u \in Ids(h)
    BY <2>1 DEF Awaited, Ids
  <2> HIDE DEF next
  <2>7. Listing(h, next, F)
    BY <2>1, <2>6 DEF Listing
  <2> QED
    BY <2>3, <2>7, <2>8, <2>9 DEF Stage, next
<1>6. CASE Hooked(h, todo, F)
  <2>1. PICK u, p, left :
        /\ Awaited(h.messages, u, left)
        /\ p \in Ids(h) /\ u \in h.messages[p].kids
        /\ Fresh(h, u, left, F)
        /\ Todos(todo) /\ Linking(Tail(todo), u, left)
        /\ link = Link(p, {u}, FALSE)
    BY <1>6 DEF Hooked
  <2>2. link.id = p /\ link.kids = {u} /\ link.always = FALSE
    BY <2>1 DEF Link
  <2>3. ~link.always /\ link.kids \subseteq kids
    BY <2>1, <2>2
  <2>4. Listing(h, Tail(todo), F)
    BY <2>1 DEF Listing, Linking
  <2>5. IsSeq(Tail(todo))
    BY <2>1 DEF Linking, Todos
  <2>6. Stage(h, Tail(todo), F)
    BY <2>4 DEF Stage
  <2>7. link.id \in Ids(h)
    BY <2>1, <2>2
  <2> HIDE DEF next, kids
  <2>8. IF link.always \/ ~(link.kids \subseteq kids) THEN Stage(h, next, F) ELSE Stage(h, Tail(todo), F)
    BY <2>3, <2>6
  <2> QED
    BY <2>5, <2>7, <2>8 DEF next, kids
<1> QED
    BY <1>1, <1>2, <1>3, <1>4, <1>5, <1>6 DEF Stage, Ended

\* What a turn is.
LEMMA TurnOf ==
    ASSUME NEW t \in Turns \cup {First}
    PROVE  /\ t.user \in Id /\ t.answers \in Seq(Id) /\ IsInjective(t.answers)
           /\ ToSet(t.answers) \subseteq Assistant
           /\ t.user \notin ToSet(t.answers)
           /\ Own(t) \in SUBSET Id
           /\ \A s \in Turns \ {t} : Own(s) \cap Own(t) = {}
<1>1. /\ t.user \in User
      /\ t.answers \in Seq(Assistant) /\ IsInjective(t.answers)
      /\ t.user \notin ToSet(t.answers)
      /\ \A s \in (Turns \cup {First}) \ {t} : Own(s) \cap Own(t) = {}
    BY TurnAssumption
<1>2. ToSet(t.answers) \subseteq Assistant
    BY <1>1 DEF ToSet
<1>3. t.answers \in Seq(Id)
    BY <1>1 DEF Id
<1> QED
    BY <1>1, <1>2, <1>3 DEF Own, Id

\* The steps of a turn.
LEMMA TurnPlaces ==
    ASSUME NEW u, NEW data, NEW answers \in Seq(Id), IsInjective(answers)
    PROVE  LET todo == TurnSteps(u, data, answers)
           IN  /\ Todos(todo) /\ Head(todo) = Fields
               /\ Placing(Tail(todo), u, data, ToSet(answers))
<1> DEFINE p == data.parent
           left == ToSet(answers)
           place == Upsert(u, data)
           hang == Link(p, {u}, FALSE)
           list == Link(u, left, TRUE)
           middle == IF p = Null THEN <<>> ELSE <<hang>>
           fill == [i \in 1..Len(answers) |-> Upsert(answers[i], Placeholder(u))]
           S == {Fields, place, hang, list} \cup {Upsert(m, Placeholder(u)) : m \in Id}
<1>1. TurnSteps(u, data, answers) = ((<<Fields, place>> \o middle) \o <<list>>) \o fill
    BY DEF TurnSteps
<1>2. Answering(fill, u, left)
    BY DEF Answering
<1>3. /\ fill \in Seq(S) /\ middle \in Seq(S) /\ <<list>> \in Seq(S) /\ <<hang>> \in Seq(S)
      /\ <<place>> \in Seq(S) /\ <<Fields>> \in Seq(S)
  <2>1. fill \in Seq(S)
    <3>1. \A i \in 1..Len(answers) : answers[i] \in Id
        OBVIOUS
    <3>2. \A i \in 1..Len(answers) : Upsert(answers[i], Placeholder(u)) \in S
        BY <3>1
    <3> HIDE DEF S
    <3> QED
        BY <3>2
  <2> HIDE DEF fill
  <2>2. Fields \in S /\ place \in S /\ hang \in S /\ list \in S
    OBVIOUS
  <2> HIDE DEF S, place, hang, list
  <2> QED
    BY <2>1, <2>2
<1>4. <<Fields, place>> = <<Fields>> \o <<place>>
    OBVIOUS
<1> HIDE DEF fill, list, hang, place, left, middle, S, p
<1> DEFINE linking == <<list>> \o fill
           placing == <<place>> \o (middle \o linking)
           todo == <<Fields>> \o placing
<1>5. ((<<Fields, place>> \o middle) \o <<list>>) \o fill = todo
  <2>1. <<Fields>> \o <<place>> \in Seq(S) /\ (<<Fields>> \o <<place>>) \o middle \in Seq(S)
        /\ linking \in Seq(S) /\ middle \o linking \in Seq(S)
    BY <1>3, ConcatProperties, Zenon
  <2>2. ((<<Fields, place>> \o middle) \o <<list>>) \o fill = (<<Fields, place>> \o middle) \o linking
    BY <1>3, <1>4, <2>1, ConcatAssociative
  <2>3. (<<Fields, place>> \o middle) \o linking = <<Fields, place>> \o (middle \o linking)
    BY <1>3, <1>4, <2>1, ConcatAssociative
  <2>4. <<Fields, place>> \o (middle \o linking) = todo
    BY <1>3, <1>4, <2>1, ConcatAssociative
  <2> QED
    BY <2>2, <2>3, <2>4
<1>6. Todos(linking) /\ Linking(linking, u, left)
  <2>1. IsSeq(fill)
    BY <1>2, AnsweringSeq
  <2>2. Todos(linking) /\ Head(linking) = list /\ Tail(linking) = fill
    BY <2>1, FirstThen, Zenon DEF Todos
  <2> QED
    BY <1>2, <2>2 DEF Linking, list
<1>7. Todos(middle \o linking) /\ Hanging(middle \o linking, u, p, left)
  <2>1. CASE p = Null
    <3>1. linking \in Seq(S)
        BY <1>3, ConcatProperties, Zenon
    <3>2. middle \o linking = linking
        BY <2>1, <3>1, ConcatEmptySeq DEF middle
    <3> HIDE DEF linking
    <3> QED
        BY <1>6, <2>1, <3>2 DEF Hanging
  <2>2. CASE p # Null
    <3>1. middle \o linking = <<hang>> \o linking
        BY <2>2 DEF middle
    <3>2. IsSeq(linking)
        BY <1>6 DEF Todos
    <3> HIDE DEF linking
    <3>3. /\ Todos(middle \o linking) /\ Head(middle \o linking) = hang
          /\ Tail(middle \o linking) = linking
        BY <3>1, <3>2, FirstThen, Zenon DEF Todos
    <3> QED
        BY <1>6, <2>2, <3>3 DEF Hanging, hang
  <2> QED
    BY <2>1, <2>2
<1>8. Todos(placing) /\ Placing(placing, u, data, left)
  <2> DEFINE rest == middle \o linking
  <2>1. IsSeq(rest)
    BY <1>7 DEF Todos
  <2> HIDE DEF rest
  <2>2. Todos(placing) /\ Head(placing) = place /\ Tail(placing) = rest
    BY <2>1, FirstThen, Zenon DEF Todos, rest
  <2> QED
    BY <1>7, <2>2 DEF Placing, place, rest, p
<1>9. Todos(todo) /\ Head(todo) = Fields /\ Tail(todo) = placing
  <2>1. IsSeq(placing)
    BY <1>8 DEF Todos
  <2> HIDE DEF placing
  <2> QED
    BY <2>1, FirstThen, Zenon DEF Todos
<1>10. TurnSteps(u, data, answers) = todo
  <2> HIDE DEF todo
  <2> QED
    BY <1>1, <1>5, Zenon
<1> HIDE DEF todo, placing
<1>11. Todos(todo) /\ Head(todo) = Fields /\ Placing(Tail(todo), u, data, left)
    BY <1>8, <1>9
<1> QED
    BY <1>10, <1>11 DEF left

-----------------------------------------------------------------------------
(* The tree between requests.                                              *)

\* The messages of the turns not yet sent.
Unsent == UNION {Own(t) : t \in turns}

Types ==
    /\ job = [k \in Job |-> job[k]]
    /\ turns \subseteq Turns
    /\ disturbed \in BOOLEAN /\ deleted \in BOOLEAN
    /\ failures \in Nat
    /\ rows = [m \in DOMAIN rows |-> rows[m]]

\* A request that has the chat for itself: what it will do next, it does on a
\* document that is at that stage.
Position(x, h, F) ==
    /\ x.pc \in {"next", "commit", "rows", "walked"}
    /\ x.todo # <<>>
    /\ x.pc \in {"next", "commit"} => Stage(h, x.todo, F)
    /\ x.pc = "commit" => x.snap = h /\ Head(x.todo).op # "link"
    /\ x.pc \in {"rows", "walked"} => Stage(h, Tail(x.todo), F)
    /\ x.pc = "walked" => x.todo = <<Fields>>

Alone == \A j, k \in Job : Active(j) /\ Active(k) => j = k

\* As long as nothing disturbed the tree.
Tree ==
    /\ Alone
    /\ Quiet => Forest(history.messages)
    /\ \A j \in Job : Active(j) => Position(job[j], history, Unsent)
    /\ Current(history) /\ Ids(history) \cap Unsent = {}
    /\ Forest(tab.messages) /\ Ids(tab) \cap Unsent = {}

TreeInv == Types /\ (~disturbed => Tree)

LEMMA TypesInit == Init => Types
<1> SUFFICES ASSUME Init PROVE Types
    OBVIOUS
<1>1. job = [k \in Job |-> job[k]] /\ turns \subseteq Turns /\ disturbed \in BOOLEAN /\ deleted \in BOOLEAN
    BY DEF Init
<1>2. failures \in Nat
  <2>1. PICK kept : failures = IF kept = Ids(history) THEN 0 ELSE MaxFailures
    BY DEF Init
  <2> QED
    BY <2>1, BoundAssumption
<1>3. rows = [m \in DOMAIN rows |-> rows[m]]
  <2>1. PICK kept : rows = RowsOf(Without(history.messages, Id \ kept))
    BY DEF Init
  <2> QED
    BY <2>1 DEF RowsOf
<1> QED
    BY <1>1, <1>2, <1>3 DEF Types

\* A request's arrival changes neither of the two copies.
LEMMA Asked ==
    ASSUME NEW j, NEW todo, NEW stale, Request(j, todo, stale)
    PROVE  /\ disturbed => disturbed'
           /\ failures' = failures /\ rows' = rows /\ history' = history
<1>1. disturbed' = (disturbed \/ stale \/ \E k \in Job : Active(k))
    BY DEF Request
<1>2. failures' = failures /\ rows' = rows /\ history' = history
    BY DEF Request
<1> QED
    BY <1>1, <1>2

\* What has been disturbed, deleted or failed stays so, a step puts one row or
\* deletes some, and only a commit changes the document.
LEMMA Onward ==
    [Next]_vars =>
        /\ disturbed => disturbed'
        /\ deleted => deleted'
        /\ failures' \in {failures, failures + 1}
        /\ rows' = rows \/ (\E m, value : rows' = Put(rows, m, value)) \/ \E S : rows' = Without(rows, S)
        /\ history' = history \/ \E j \in Job : Commit(j)
<1> DEFINE Goal ==
        /\ disturbed => disturbed'
        /\ deleted => deleted'
        /\ failures' \in {failures, failures + 1}
        /\ rows' = rows \/ (\E m, value : rows' = Put(rows, m, value)) \/ \E S : rows' = Without(rows, S)
        /\ history' = history \/ \E j \in Job : Commit(j)
<1> SUFFICES ASSUME [Next]_vars PROVE Goal
    OBVIOUS
<1>0. (disturbed => disturbed') /\ (deleted => deleted') /\ failures' = failures /\ rows' = rows /\ history' = history => Goal
    OBVIOUS
<1> HIDE DEF Goal
<1>1. CASE UNCHANGED vars
  <2>1. disturbed' = disturbed /\ deleted' = deleted /\ failures' = failures /\ rows' = rows /\ history' = history
    BY <1>1 DEF vars
  <2> QED
    BY <1>0, <2>1, Zenon
<1>2. CASE Load
  <2>1. disturbed' = disturbed /\ deleted' = deleted /\ failures' = failures /\ rows' = rows /\ history' = history
    BY <1>2 DEF Load, counters
  <2> QED
    BY <1>0, <2>1, Zenon
<1>3. ASSUME NEW j \in Job, Arrive(j) \/ Step(j) \/ PutFails(j) \/ CallFails(j) PROVE Goal
  <2>1. ASSUME NEW t \in Turns, Send(j, t) PROVE Goal
    <3>1. PICK todo, stale : Request(j, todo, stale) /\ UNCHANGED deleted
        BY <2>1, Zenon DEF Send
    <3> QED
        BY <1>0, <3>1, Asked
  <2>2. ASSUME NEW t \in Turns, Regenerate(j, t) PROVE Goal
    <3>1. PICK todo, stale : Request(j, todo, stale) /\ UNCHANGED deleted
        BY <2>2, Zenon DEF Regenerate
    <3> QED
        BY <1>0, <3>1, Asked
  <2>3. CASE Write(j)
    <3>1. PICK todo, stale : Request(j, todo, stale) /\ UNCHANGED deleted
        BY <2>3, Zenon DEF Write
    <3> QED
        BY <1>0, <3>1, Asked
  <2>4. CASE RequestDelete(j)
    <3>1. PICK todo, stale : Request(j, todo, stale) /\ deleted'
        BY <2>4, Zenon DEF RequestDelete
    <3> QED
        BY <1>0, <3>1, Asked
  <2>5. CASE RequestSave(j)
    <3>1. PICK todo, stale : Request(j, todo, stale) /\ UNCHANGED deleted
        BY <2>5, Zenon DEF RequestSave
    <3> QED
        BY <1>0, <3>1, Asked
  <2>6. CASE Resume(j)
    <3>1. PICK todo, stale : Request(j, todo, stale) /\ UNCHANGED deleted
        BY <2>6, Zenon DEF Resume
    <3> QED
        BY <1>0, <3>1, Asked
  <2>7. CASE Look(j)
    <3>1. disturbed' = disturbed /\ deleted' = deleted /\ failures' = failures /\ rows' = rows /\ history' = history
        BY <2>7 DEF Look, settled, counters
    <3> QED
        BY <1>0, <3>1, Zenon
  <2>8. CASE Read(j)
    <3>1. disturbed' = disturbed /\ deleted' = deleted /\ failures' = failures /\ rows' = rows /\ history' = history
        BY <2>8 DEF Read, settled, counters
    <3> QED
        BY <1>0, <3>1, Zenon
  <2>9. CASE Commit(j)
    <3>1. disturbed' = disturbed /\ deleted' = deleted /\ failures' = failures /\ rows' = rows
        BY <2>9 DEF Commit, settled, counters
    <3> QED
        BY <2>9, <3>1 DEF Goal
  <2>10. CASE PutRow(j)
    <3>1. disturbed' = disturbed /\ deleted' = deleted /\ failures' = failures /\ history' = history
        BY <2>10 DEF PutRow, settled, counters
    <3>2. rows' = Put(rows, Upcoming(j), job[j].put[Upcoming(j)])
        BY <2>10 DEF PutRow
    <3> QED
        BY <3>1, <3>2 DEF Goal
  <2>11. CASE DropRows(j)
    <3>1. disturbed' = disturbed /\ deleted' = deleted /\ history' = history
        BY <2>11 DEF DropRows, settled, counters
    <3>2. \/ rows' = Without(rows, job[j].drop) /\ failures' = failures
          \/ failures' = failures + 1 /\ rows' = rows
        BY <2>11 DEF DropRows
    <3> QED
        BY <3>1, <3>2 DEF Goal
  <2>12. CASE Walk(j)
    <3>1. disturbed' = (disturbed \/ \E k \in Job : Active(k))
        BY <2>12 DEF Walk
    <3>2. deleted' = deleted /\ failures' = failures /\ rows' = rows /\ history' = history
        BY <2>12 DEF Walk
    <3> QED
        BY <1>0, <3>1, <3>2
  <2>13. CASE Fill(j)
    <3>1. disturbed' = disturbed /\ deleted' = deleted /\ failures' = failures /\ rows' = rows /\ history' = history
        BY <2>13 DEF Fill, settled, counters
    <3> QED
        BY <1>0, <3>1, Zenon
  <2>14. CASE PutFails(j)
    <3>1. disturbed' = disturbed /\ deleted' = deleted /\ rows' = rows /\ history' = history
        BY <2>14 DEF PutFails, settled, counters
    <3>2. failures' = failures + 1
        BY <2>14 DEF PutFails
    <3> QED
        BY <3>1, <3>2 DEF Goal
  <2>15. CASE CallFails(j)
    <3>1. disturbed' = (disturbed \/ (job[j].pc # "walked" /\ Grows(Todo(j))))
        BY <2>15 DEF CallFails
    <3>2. deleted' = deleted /\ rows' = rows /\ history' = history /\ failures' = failures + 1
        BY <2>15 DEF CallFails
    <3> QED
        BY <3>1, <3>2 DEF Goal
  <2> QED
    BY <1>3, <2>1, <2>2, <2>3, <2>4, <2>5, <2>6, <2>7, <2>8, <2>9, <2>10, <2>11, <2>12, <2>13, <2>14, <2>15 DEF Arrive, Step
<1>4. Goal
    BY <1>1, <1>2, <1>3 DEF Next
<1> QED
    BY <1>4 DEF Goal

LEMMA TypesStep == Types /\ [Next]_vars => Types'
<1> SUFFICES ASSUME Types, [Next]_vars PROVE Types'
    OBVIOUS
<1>1. job' = [k \in Job |-> job'[k]] /\ disturbed' \in BOOLEAN /\ deleted' \in BOOLEAN /\ turns' \subseteq Turns
  <2>1. CASE UNCHANGED vars
    BY <2>1 DEF vars, Types
  <2>2. CASE Load
    BY <2>2 DEF Load, counters, Types
  <2>3. ASSUME NEW j \in Job, Arrive(j) \/ Step(j) \/ PutFails(j) \/ CallFails(j)
        PROVE  job' = [k \in Job |-> job'[k]] /\ disturbed' \in BOOLEAN /\ deleted' \in BOOLEAN /\ turns' \subseteq Turns
    <3>1. ASSUME NEW t \in Turns, Send(j, t)
          PROVE  job' = [k \in Job |-> job'[k]] /\ disturbed' \in BOOLEAN /\ deleted' \in BOOLEAN /\ turns' \subseteq Turns
        BY <3>1 DEF Send, Request, Types
    <3>2. CASE Write(j)
        BY <3>2 DEF Write, Request, Types
    <3>3. CASE RequestDelete(j)
        BY <3>3 DEF RequestDelete, Request, Types
    <3>4. CASE RequestSave(j)
        BY <3>4 DEF RequestSave, Request, Types
    <3>5. CASE Look(j)
        BY <3>5 DEF Look, settled, counters, Types
    <3>6. CASE Read(j)
        BY <3>6 DEF Read, settled, counters, Types
    <3>7. CASE Commit(j)
        BY <3>7 DEF Commit, Rowing, settled, counters, Types
    <3>8. CASE PutRow(j)
        BY <3>8 DEF PutRow, Rowing, settled, counters, Types
    <3>9. CASE DropRows(j)
        BY <3>9 DEF DropRows, settled, counters, Types
    <3>10. CASE Walk(j)
        BY <3>10 DEF Walk, Types
    <3>11. CASE Fill(j)
        BY <3>11 DEF Fill, Rowing, settled, counters, Types
    <3>12. CASE PutFails(j)
        BY <3>12 DEF PutFails, Rowing, settled, counters, Types
    <3>13. ASSUME NEW t \in Turns, Regenerate(j, t)
           PROVE  job' = [k \in Job |-> job'[k]] /\ disturbed' \in BOOLEAN /\ deleted' \in BOOLEAN /\ turns' \subseteq Turns
        BY <3>13 DEF Regenerate, Request, Types
    <3>14. CASE Resume(j)
        BY <3>14 DEF Resume, Request, Types
    <3>15. CASE CallFails(j)
        BY <3>15 DEF CallFails, Rowing, Types
    <3> QED
        BY <2>3, <3>1, <3>2, <3>3, <3>4, <3>5, <3>6, <3>7, <3>8, <3>9, <3>10, <3>11, <3>12, <3>13, <3>14, <3>15 DEF Arrive, Step
  <2> QED
    BY <2>1, <2>2, <2>3 DEF Next
<1>2. failures' \in {failures, failures + 1}
    BY Onward
<1>3. rows' = rows \/ (\E m, value : rows' = Put(rows, m, value)) \/ \E S : rows' = Without(rows, S)
    BY Onward
<1>4. rows' = [m \in DOMAIN rows' |-> rows'[m]]
    BY <1>3 DEF Put, Without, Types
<1> QED
    BY <1>1, <1>2, <1>4 DEF Types

LEMMA TreeInit == Init => Tree
<1> SUFFICES ASSUME Init PROVE Tree
    OBVIOUS
<1> DEFINE u == First.user
           left == ToSet(First.answers)
           f == history.messages
<1>1. /\ u \in Id /\ left \in SUBSET Id /\ u \notin left /\ Own(First) = {u} \cup left
      /\ First.answers \in Seq(Id)
      /\ \A s \in Turns \ {First} : Own(s) \cap Own(First) = {}
    BY TurnOf DEF Own
<1>2. /\ history.current = First.answers[1]
      /\ f = [m \in Own(First) |-> IF m = u THEN [parent |-> Null, kids |-> left, text |-> ""]
                                   ELSE [parent |-> u, kids |-> {}, text |-> ""]]
    BY DEF Init
<1>3. Null \notin Id
    BY IdAssumption
<1>4. First.answers[1] \in left
  <2>1. First.answers # <<>>
    BY TurnAssumption
  <2> QED
    BY <1>1, <2>1 DEF ToSet
<1> HIDE DEF u, left, f
<1>5. /\ DOMAIN f = {u} \cup left
      /\ f[u].parent = Null /\ f[u].kids = left /\ f[u] \in Message
      /\ \A m \in left : f[m].parent = u /\ f[m].kids = {} /\ f[m] \in Message
  <2>1. DOMAIN f = {u} \cup left
    BY <1>1, <1>2
  <2> DEFINE root == [parent |-> Null, kids |-> left, text |-> ""]
             answer == [parent |-> u, kids |-> {}, text |-> ""]
  <2>2. f[u] = root /\ \A m \in left : f[m] = answer
    BY <1>1, <1>2
  <2>3. u \in Id /\ left \in SUBSET Id
    BY <1>1
  <2>4. root.parent = Null /\ root.kids = left /\ root \in Message
    BY <2>3 DEF Message, Text
  <2>5. answer.parent = u /\ answer.kids = {} /\ answer \in Message
    BY <2>3 DEF Message, Text
  <2> HIDE DEF root, answer
  <2> QED
    BY <2>1, <2>2, <2>4, <2>5
<1>6. Typed(f)
  <2>1. \A m \in DOMAIN f : f[m] \in Message
    BY <1>5
  <2>2. f = [m \in DOMAIN f |-> f[m]]
    BY <1>2
  <2> QED
    BY <1>1, <1>5, <2>1, <2>2 DEF Typed
<1>7. Rooted(f)
  <2>1. ASSUME NEW S \in SUBSET DOMAIN f, S # {} PROVE \E m \in S : f[m].parent \notin S
    <3>1. CASE u \in S
        BY <1>1, <1>3, <1>5, <3>1
    <3>2. CASE u \notin S
        BY <1>5, <2>1, <3>2
    <3> QED
        BY <3>1, <3>2
  <2> QED
    BY <1>5, <2>1 DEF Rooted
<1>8. \A m \in DOMAIN f : f[m].kids = Family(f, m)
    BY <1>1, <1>3, <1>5 DEF Family
<1>9. Forest(f)
    BY <1>6, <1>7, <1>8 DEF Forest
<1>10. Ids(history) = Own(First) /\ Current(history)
    BY <1>1, <1>2, <1>4, <1>5 DEF Ids, Current, f
<1>11. Ids(history) \cap Unsent = {}
  <2>1. turns = Turns /\ First \notin Turns
    BY TurnAssumption DEF Init
  <2> QED
    BY <1>1, <1>10, <2>1 DEF Unsent
<1>12. Alone /\ \A j \in Job : ~Active(j)
    BY DEF Init, Alone, Active, Idle
<1>13. tab = history
    BY DEF Init
<1> QED
    BY <1>9, <1>10, <1>11, <1>12, <1>13 DEF Tree, f

Place(x, h, F) == IF x.pc = "idle" THEN Forest(h.messages) ELSE Position(x, h, F)

LEMMA IdlingPlace ==
    ASSUME NEW h, NEW F, NEW todo, Stage(h, todo, F)
    PROVE  Place(Idling(todo), h, F)
<1>1. CASE todo = <<>>
  <2>1. Idling(todo).pc = "idle"
    BY <1>1 DEF Idling, Idle
  <2> QED
    BY <1>1, <2>1, EndedForest DEF Place
<1>2. CASE todo # <<>>
  <2>1. Idling(todo).pc = "next" /\ Idling(todo).todo = todo
    BY <1>2 DEF Idling
  <2> QED
    BY <1>2, <2>1 DEF Place, Position
<1> QED
    BY <1>1, <1>2

LEMMA RowingPlace ==
    ASSUME Types, NEW j \in Job, NEW h, NEW F, NEW put, NEW drop, Rowing(j, put, drop),
           job[j].todo # <<>>, Stage(h, Tail(job[j].todo), F)
    PROVE  \E x : job' = [job EXCEPT ![j] = x] /\ Place(x, h, F)
<1>1. CASE DOMAIN put \cup drop = {}
  <2>1. job' = [job EXCEPT ![j] = Idling(Tail(job[j].todo))]
    BY <1>1 DEF Rowing, Continue
  <2> QED
    BY <2>1, IdlingPlace
<1>2. CASE DOMAIN put \cup drop # {}
  <2> DEFINE x == [pc |-> "rows", todo |-> job[j].todo, put |-> put, drop |-> drop]
  <2>1. job' = [job EXCEPT ![j] = x]
    BY <1>2 DEF Rowing
  <2>2. Place(x, h, F)
    BY DEF Place, Position
  <2> QED
    BY <2>1, <2>2
<1> QED
    BY <1>1, <1>2

\* A step of the only request in flight, or of a first one.
LEMMA Moved ==
    ASSUME Types, Tree, NEW j \in Job, \A k \in Job \ {j} : ~Active(k),
           NEW x, job' = [job EXCEPT ![j] = x], Place(x, history', Unsent'),
           Current(history'), Ids(history') \cap Unsent' = {},
           tab' = tab, Unsent' \subseteq Unsent
    PROVE  Tree'
<1>1. job'[j] = x /\ \A k \in Job \ {j} : job'[k] = job[k]
    BY DEF Types
<1>2. \A k \in Job \ {j} : ~Active(k)'
    BY <1>1 DEF Active
<1>3. Alone'
    BY <1>2 DEF Alone
<1>4. CASE x.pc = "idle"
  <2>1. Forest(history'.messages)
    BY <1>4 DEF Place
  <2>2. ~Active(j)'
    BY <1>1, <1>4 DEF Active
  <2> QED
    BY <1>2, <1>3, <2>1, <2>2 DEF Tree
<1>5. CASE x.pc # "idle"
  <2>1. Position(x, history', Unsent')
    BY <1>5 DEF Place
  <2>2. Active(j)'
    BY <1>1, <1>5 DEF Active
  <2>3. \A k \in Job : Active(k)' => Position(job'[k], history', Unsent')
    BY <1>1, <1>2, <2>1, Zenon
  <2>4. ~Quiet'
    BY <2>2 DEF Quiet
  <2> QED
    BY <1>3, <2>3, <2>4 DEF Tree
<1> QED
    BY <1>4, <1>5

LEMMA UnsentStays ==
    ASSUME turns' = turns
    PROVE  Unsent' = Unsent
BY DEF Unsent

\* The step of a request that leaves the document alone.
LEMMA Kept ==
    ASSUME Types, Tree, NEW j \in Job, \A k \in Job \ {j} : ~Active(k),
           NEW x, job' = [job EXCEPT ![j] = x], Place(x, history, Unsent),
           UNCHANGED <<history, tab, turns>>
    PROVE  Tree'
<1>1. Unsent' = Unsent
    BY UnsentStays
<1>2. Place(x, history', Unsent') /\ Current(history') /\ Ids(history') \cap Unsent' = {}
    BY <1>1 DEF Tree
<1> QED
    BY <1>1, <1>2, Moved

\* An active request is alone, and somewhere.
LEMMA At ==
    ASSUME Tree, NEW j \in Job, Active(j)
    PROVE  /\ \A k \in Job \ {j} : ~Active(k)
           /\ Position(job[j], history, Unsent)
BY DEF Tree, Alone

\* A request is accepted while no other is in flight.
LEMMA Accepted ==
    ASSUME Types, Tree, NEW j \in Job, NEW todo, NEW stale, Request(j, todo, stale),
           ~disturbed', Unsent' \subseteq Unsent, Stage(history, todo, Unsent')
    PROVE  Tree'
<1>1. \A k \in Job : ~Active(k)
    BY DEF Request
<1>2. job' = [job EXCEPT ![j] = Idling(todo)] /\ UNCHANGED <<history, tab>>
    BY DEF Request
<1>3. Place(Idling(todo), history', Unsent')
    BY <1>2, IdlingPlace
<1>4. Current(history') /\ Ids(history') \cap Unsent' = {}
    BY <1>2 DEF Tree
<1> QED
    BY <1>1, <1>2, <1>3, <1>4, Moved

\* A turn's messages are not those of the turns left when it is sent.
LEMMA TurnTaken ==
    ASSUME Types, NEW t \in turns, turns' = turns \ {t}
    PROVE  /\ t \in Turns
           /\ Unsent' \subseteq Unsent /\ Own(t) \subseteq Unsent
           /\ Own(t) \cap Unsent' = {}
<1>1. t \in Turns
    BY DEF Types
<1>2. Unsent' \subseteq Unsent /\ Own(t) \subseteq Unsent
    BY DEF Unsent
<1>3. ASSUME NEW s \in turns \ {t} PROVE Own(s) \cap Own(t) = {}
  <2>1. s \in Turns \ {t}
    BY DEF Types
  <2> QED
    BY <1>1, <2>1, TurnOf
<1> QED
    BY <1>1, <1>2, <1>3 DEF Unsent

LEMMA TreeSend ==
    ASSUME Types, Tree, NEW j \in Job, NEW t \in Turns, Send(j, t), ~disturbed'
    PROVE  Tree'
<1> DEFINE u == t.user
           left == ToSet(t.answers)
<1>1. PICK p \in (Ids(tab) \cap Assistant) \cup {Null} :
        /\ t \in turns
        /\ turns' = turns \ {t}
        /\ Request(j, TurnSteps(u, Whole(p, left, ""), t.answers), p \notin Ids(history) \cup {Null})
    BY DEF Send
<1> DEFINE data == Whole(p, left, "")
           todo == TurnSteps(u, data, t.answers)
<1>2. p \in Ids(history) \cup {Null} /\ Quiet
    BY <1>1 DEF Request, Quiet
<1>3. Unsent' \subseteq Unsent /\ Own(t) \subseteq Unsent /\ Own(t) \cap Unsent' = {}
    BY <1>1, TurnTaken
<1>4. Forest(history.messages) /\ Ids(history) \cap Unsent = {}
    BY <1>2 DEF Tree
<1>5. /\ u \in Id /\ t.answers \in Seq(Id) /\ IsInjective(t.answers) /\ u \notin left
      /\ Own(t) = {u} \cup left /\ Own(t) \in SUBSET Id
    BY TurnOf DEF Own
<1>6. Fresh(history, u, left, Unsent')
    BY <1>3, <1>4, <1>5 DEF Fresh
<1>7. New(history, u, data, left, Unsent')
  <2>1. u \in Id \ (Ids(history) \cup Unsent') /\ u \notin left
    BY <1>3, <1>4, <1>5
  <2>2. "" \in Text
    BY DEF Text
  <2> QED
    BY <1>2, <2>1, <2>2, Zenon DEF New
<1>8. Todos(todo) /\ Head(todo) = Fields /\ Placing(Tail(todo), u, data, left)
    BY <1>5, TurnPlaces
<1>9. Request(j, todo, p \notin Ids(history) \cup {Null})
    BY <1>1
<1> HIDE DEF todo, data, u, left
<1>10. Sending(history, todo, Unsent')
    BY <1>4, <1>6, <1>7, <1>8 DEF Sending
<1> QED
    BY <1>3, <1>9, <1>10, Accepted DEF Stage

\* A user message is sent again, with the links the document has for it.
LEMMA TreeAgain ==
    ASSUME Types, Tree, NEW j \in Job, ~disturbed', Unsent' \subseteq Unsent,
           NEW u \in Ids(tab) \cap Ids(history), NEW answers \in Seq(Id), IsInjective(answers),
           history.messages[u].parent = tab.messages[u].parent,
           history.messages[u].kids = tab.messages[u].kids,
           Fresh(history, u, ToSet(answers), Unsent'),
           NEW kids, kids = tab.messages[u].kids \cup ToSet(answers),
           NEW stale,
           Request(j, TurnSteps(u, Whole(tab.messages[u].parent, kids, tab.messages[u].text), answers), stale)
    PROVE  Tree'
<1> DEFINE data == Whole(tab.messages[u].parent, kids, tab.messages[u].text)
           todo == TurnSteps(u, data, answers)
           left == ToSet(answers)
<1>1. Quiet
    BY DEF Request, Quiet
<1>2. Forest(history.messages) /\ Forest(tab.messages)
    BY <1>1 DEF Tree
<1>3. tab.messages[u].text \in Text
    BY <1>2 DEF Forest, Typed, Ids, Message
<1>4. Again(history, u, data, left)
    BY <1>3 DEF Again
<1>5. Todos(todo) /\ Head(todo) = Fields /\ Placing(Tail(todo), u, data, left)
    BY TurnPlaces
<1>6. Request(j, todo, stale) /\ Fresh(history, u, left, Unsent')
    OBVIOUS
<1> HIDE DEF todo, data, left
<1>7. Sending(history, todo, Unsent')
    BY <1>2, <1>4, <1>5, <1>6 DEF Sending
<1> QED
    BY <1>6, <1>7, Accepted DEF Stage

LEMMA TreeRegenerate ==
    ASSUME Types, Tree, NEW j \in Job, NEW t \in Turns, Regenerate(j, t), ~disturbed'
    PROVE  Tree'
<1> DEFINE left == ToSet(t.answers)
<1>1. PICK u \in Ids(tab) \cap User :
        /\ t \in turns
        /\ turns' = turns \ {t}
        /\ Request(j, TurnSteps(u, Whole(tab.messages[u].parent, tab.messages[u].kids \cup left,
                                         tab.messages[u].text), t.answers), Stale({u}))
    BY DEF Regenerate
<1>2. ~Stale({u}) /\ Quiet
    BY <1>1 DEF Request, Quiet
<1>3. /\ u \in Ids(history)
      /\ history.messages[u].parent = tab.messages[u].parent
      /\ history.messages[u].kids = tab.messages[u].kids
    BY <1>2 DEF Stale
<1>4. Unsent' \subseteq Unsent /\ Own(t) \subseteq Unsent /\ Own(t) \cap Unsent' = {}
    BY <1>1, TurnTaken
<1>5. t.answers \in Seq(Id) /\ IsInjective(t.answers) /\ left \subseteq Own(t) /\ Own(t) \in SUBSET Id
    BY TurnOf DEF Own
<1>6. Ids(history) \cap Unsent = {}
    BY DEF Tree
<1>7. Fresh(history, u, left, Unsent')
    BY <1>4, <1>5, <1>6 DEF Fresh
<1> HIDE DEF left
<1>8. \E kids, stale :
        /\ kids = tab.messages[u].kids \cup left
        /\ Request(j, TurnSteps(u, Whole(tab.messages[u].parent, kids, tab.messages[u].text), t.answers), stale)
    BY <1>1
<1> QED
    BY <1>1, <1>3, <1>4, <1>5, <1>7, <1>8, TreeAgain DEF left

LEMMA TreeResume ==
    ASSUME Types, Tree, NEW j \in Job, Resume(j), ~disturbed'
    PROVE  Tree'
<1>1. PICK a \in Ids(tab) \cap Assistant :
        LET u == tab.messages[a].parent
            shown == tab.messages[u]
        IN  /\ tab.messages[a].kids = {}
            /\ u \in Ids(tab) \cap User
            /\ Request(j, TurnSteps(u, Whole(shown.parent, shown.kids, shown.text), <<a>>), Stale({u, a}))
    BY DEF Resume
<1> DEFINE u == tab.messages[a].parent
<1>2. u \in Ids(tab) /\ tab.messages[a].kids = {} /\ ~Stale({u, a}) /\ Quiet
    BY <1>1 DEF Request, Quiet
<1>3. turns' = turns
    BY DEF Resume
<1>4. Unsent' = Unsent
    BY <1>3, UnsentStays
<1>5. Forest(history.messages) /\ Forest(tab.messages) /\ Ids(history) \cap Unsent = {}
    BY <1>2 DEF Tree
<1>6. /\ u \in Ids(history) /\ a \in Ids(history)
      /\ history.messages[u].parent = tab.messages[u].parent
      /\ history.messages[u].kids = tab.messages[u].kids
      /\ history.messages[a].parent = u
      /\ history.messages[a].kids = {}
    BY <1>2 DEF Stale
<1>7. <<a>> \in Seq(Id) /\ IsInjective(<<a>>) /\ ToSet(<<a>>) = {a}
  <2>1. a \in Id
    BY DEF Id
  <2> QED
    BY <2>1 DEF IsInjective, ToSet
<1>8. Fresh(history, u, ToSet(<<a>>), Unsent')
    BY <1>4, <1>5, <1>6, <1>7 DEF Fresh, Id
<1>9. tab.messages[u].kids = tab.messages[u].kids \cup ToSet(<<a>>)
  <2>1. a \in Family(tab.messages, u) /\ u \in DOMAIN tab.messages
    BY <1>2 DEF Family, Ids
  <2>2. a \in tab.messages[u].kids
    BY <1>5, <2>1 DEF Forest
  <2> QED
    BY <1>7, <2>2
<1>10. \E kids, stale :
        /\ kids = tab.messages[u].kids \cup ToSet(<<a>>)
        /\ Request(j, TurnSteps(u, Whole(tab.messages[u].parent, kids, tab.messages[u].text), <<a>>), stale)
    BY <1>1, <1>9
<1> HIDE DEF u
<1> QED
    BY <1>2, <1>4, <1>6, <1>7, <1>8, <1>10, TreeAgain

LEMMA OneStep ==
    ASSUME NEW x
    PROVE  Todos(<<x>>) /\ Head(<<x>>) = x /\ Tail(<<x>>) = <<>>
<1>1. <<x>> \in Seq({x})
    OBVIOUS
<1>2. IsSeq(<<x>>)
    BY <1>1, Zenon DEF IsSeq
<1>3. <<x>> # <<>> /\ Head(<<x>>) = x /\ Tail(<<x>>) = <<>>
    OBVIOUS
<1> QED
    BY <1>2, <1>3 DEF Todos

LEMMA TreeAsk ==
    ASSUME Types, Tree, NEW j \in Job, Write(j) \/ RequestDelete(j) \/ RequestSave(j), ~disturbed'
    PROVE  Tree'
<1>1. turns' = turns
    BY DEF Write, RequestDelete, RequestSave
<1>2. Unsent' = Unsent
    BY <1>1, UnsentStays
<1>3. Quiet
    BY DEF Write, RequestDelete, RequestSave, Request, Quiet
<1>4. Forest(history.messages) /\ Forest(tab.messages) /\ Ids(tab) \cap Unsent = {}
    BY <1>3 DEF Tree
<1>5. CASE Write(j)
  <2>1. PICK m : Request(j, <<Upsert(m, Written)>>, m \notin Ids(history))
    BY <1>5 DEF Write
  <2>2. m \in Ids(history)
    BY <2>1 DEF Request
  <2>3. Single(history, <<Upsert(m, Written)>>, Unsent)
    BY <1>4, <2>2, OneStep DEF Single
  <2> QED
    BY <1>2, <2>1, <2>3, Accepted DEF Stage
<1>6. CASE RequestDelete(j)
  <2>1. PICK m : Request(j, <<Delete(m)>>, FALSE)
    BY <1>6 DEF RequestDelete
  <2>2. Single(history, <<Delete(m)>>, Unsent)
    BY <1>4, OneStep DEF Single
  <2> QED
    BY <1>2, <2>1, <2>2, Accepted DEF Stage
<1>7. CASE RequestSave(j)
  <2>1. PICK c \in Ids(tab) \cap Assistant : Request(j, <<Save([tab EXCEPT !.current = c])>>, FALSE)
    BY <1>7 DEF RequestSave
  <2> DEFINE t == [tab EXCEPT !.current = c]
  <2>2. t.messages = tab.messages /\ Ids(t) = Ids(tab)
    BY DEF Ids
  <2>3. t.current = c
    BY <2>1
  <2> HIDE DEF t
  <2>4. Single(history, <<Save(t)>>, Unsent)
    BY <1>4, <2>1, <2>2, <2>3, OneStep DEF Single
  <2> QED
    BY <1>2, <2>1, <2>4, Accepted DEF Stage, t
<1> QED
    BY <1>5, <1>6, <1>7

LEMMA TreeLook ==
    ASSUME Types, Tree, NEW j \in Job, Look(j)
    PROVE  Tree'
<1> DEFINE todo == job[j].todo
           link == Head(todo)
           kids == history.messages[link.id].kids
           due == link.always \/ ~(link.kids \subseteq kids)
           next == <<Upsert(link.id, Kids(kids \cup link.kids))>> \o Tail(todo)
<1>1. Active(j) /\ job[j].pc = "next" /\ link.op = "link"
    BY DEF Look, Doing, Active, Todo
<1>2. (\A k \in Job \ {j} : ~Active(k)) /\ todo # <<>> /\ Stage(history, todo, Unsent)
    BY <1>1, At DEF Position
<1>3. /\ link.id \in Ids(history)
      /\ IsSeq(Tail(todo))
      /\ IF due THEN Stage(history, next, Unsent) ELSE Stage(history, Tail(todo), Unsent)
    BY <1>1, <1>2, LookAhead
<1>4. UNCHANGED <<history, tab, turns>>
    BY DEF Look, settled
<1>5. CASE due
  <2> DEFINE x == [pc |-> "next", todo |-> next]
  <2>1. job' = [job EXCEPT ![j] = x]
    BY <1>3, <1>5 DEF Look, Todo
  <2>2. next # <<>>
    BY <1>3, FirstThen
  <2>3. Place(x, history, Unsent)
    <3>1. x.pc = "next" /\ x.todo = next /\ Stage(history, next, Unsent)
        BY <1>3, <1>5
    <3> HIDE DEF x, next
    <3> QED
        BY <2>2, <3>1 DEF Place, Position
  <2> HIDE DEF x
  <2> QED
    BY <1>2, <1>4, <2>1, <2>3, Kept
<1>6. CASE ~due
  <2>1. job' = [job EXCEPT ![j] = Idling(Tail(todo))]
    BY <1>3, <1>6 DEF Look, Todo, Continue
  <2>2. Place(Idling(Tail(todo)), history, Unsent)
    BY <1>3, <1>6, IdlingPlace
  <2> QED
    BY <1>2, <1>4, <2>1, <2>2, Kept
<1> QED
    BY <1>5, <1>6

LEMMA TreeRead ==
    ASSUME Types, Tree, NEW j \in Job, Read(j)
    PROVE  Tree'
<1>1. Active(j) /\ job[j].pc = "next" /\ Head(job[j].todo).op # "link"
    BY DEF Read, Active, Todo
<1>2. /\ \A k \in Job \ {j} : ~Active(k)
      /\ job[j].todo # <<>> /\ Stage(history, job[j].todo, Unsent)
    BY <1>1, At DEF Position
<1> DEFINE x == [pc |-> "commit", todo |-> job[j].todo, snap |-> history]
<1>3. job' = [job EXCEPT ![j] = x] /\ UNCHANGED <<history, tab, turns>>
    BY DEF Read, settled
<1>4. x.pc = "commit" /\ x.todo = job[j].todo /\ x.snap = history
    OBVIOUS
<1> HIDE DEF x
<1>5. Place(x, history, Unsent)
    BY <1>1, <1>2, <1>4 DEF Place, Position
<1> QED
    BY <1>2, <1>3, <1>5, Kept

LEMMA TreeCommit ==
    ASSUME Types, Tree, NEW j \in Job, Commit(j)
    PROVE  Tree'
<1> DEFINE todo == job[j].todo
<1>1. Active(j) /\ job[j].pc = "commit"
    BY DEF Commit, Active
<1>2. /\ \A k \in Job \ {j} : ~Active(k)
      /\ todo # <<>> /\ Stage(history, todo, Unsent)
      /\ job[j].snap = history /\ Head(todo).op # "link"
    BY <1>1, At DEF Position
<1>3. PICK h \in Outcomes(j) : history' = h /\ Rowing(j, Puts(j, h.messages), Drops(j))
    BY DEF Commit
<1>4. Outcomes(j) = Results(Head(todo), history)
    BY <1>2 DEF Outcomes, Results, Todo
<1>5. UNCHANGED <<tab, turns>>
    BY DEF Commit, settled
<1>6. Unsent' = Unsent
    BY <1>5, UnsentStays
<1>7. Current(history) /\ Ids(history) \cap Unsent = {}
    BY DEF Tree
<1>8. h \in Results(Head(todo), history)
    BY <1>3, <1>4
<1>9. Leaves(h, Tail(todo), Unsent)
    BY <1>2, <1>7, <1>8, CommitStage
<1>10. \E x : job' = [job EXCEPT ![j] = x] /\ Place(x, h, Unsent)
    BY <1>2, <1>3, <1>9, RowingPlace DEF Leaves
<1>11. PICK x : job' = [job EXCEPT ![j] = x] /\ Place(x, h, Unsent)
    BY <1>10
<1>12. Place(x, history', Unsent') /\ Current(history') /\ Ids(history') \cap Unsent' = {}
    BY <1>3, <1>6, <1>9, <1>11 DEF Leaves
<1> QED
    BY <1>2, <1>5, <1>6, <1>11, <1>12, Moved

LEMMA TreeRowing ==
    ASSUME Types, Tree, NEW j \in Job, job[j].pc \in {"rows", "walked"},
           NEW put, NEW drop, Rowing(j, put, drop),
           UNCHANGED <<history, tab, turns>>
    PROVE  Tree'
<1>1. Active(j)
    BY DEF Active
<1>2. /\ \A k \in Job \ {j} : ~Active(k)
      /\ job[j].todo # <<>> /\ Stage(history, Tail(job[j].todo), Unsent)
    BY <1>1, At DEF Position
<1>3. PICK x : job' = [job EXCEPT ![j] = x] /\ Place(x, history, Unsent)
    BY <1>2, RowingPlace
<1> QED
    BY <1>2, <1>3, Kept

LEMMA TreeDropRows ==
    ASSUME Types, Tree, NEW j \in Job, DropRows(j)
    PROVE  Tree'
<1>1. Active(j) /\ job[j].pc = "rows"
    BY DEF DropRows, Active
<1>2. (\A k \in Job \ {j} : ~Active(k)) /\ Stage(history, Tail(job[j].todo), Unsent)
    BY <1>1, At DEF Position
<1>3. Place(Idling(Tail(job[j].todo)), history, Unsent)
    BY <1>2, IdlingPlace
<1>4. job' = [job EXCEPT ![j] = Idling(Tail(job[j].todo))] /\ UNCHANGED <<history, tab, turns>>
    BY DEF DropRows, Continue, settled
<1> QED
    BY <1>2, <1>3, <1>4, Kept

\* A call fails that is not one by which a turn grows the tree.
LEMMA TreeCallFails ==
    ASSUME Types, Tree, NEW j \in Job, CallFails(j), ~disturbed'
    PROVE  Tree'
<1> DEFINE todo == job[j].todo
<1>1. Active(j) /\ job[j].pc \in {"next", "commit", "walked"} /\ UNCHANGED <<history, tab, turns>>
    BY DEF CallFails, Active
<1>2. (\A k \in Job \ {j} : ~Active(k)) /\ Position(job[j], history, Unsent)
    BY <1>1, At
<1>3. todo # <<>> /\ Forest(history.messages) /\ Stage(history, Tail(todo), Unsent)
  <2>1. CASE job[j].pc = "walked"
    <3>1. todo = <<Fields>> /\ Stage(history, Tail(todo), Unsent)
        BY <1>2, <2>1 DEF Position
    <3>2. todo # <<>> /\ Tail(todo) = <<>>
        BY <3>1, OneStep DEF Todos
    <3> QED
        BY <3>1, <3>2, EndedForest
  <2>2. CASE job[j].pc # "walked"
    <3>1. ~Grows(Head(todo))
        BY <2>2 DEF CallFails, Todo
    <3>2. Stage(history, todo, Unsent) /\ todo # <<>>
        BY <1>1, <1>2, <2>2 DEF Position
    <3> QED
        BY <3>1, <3>2, SpareStage
  <2> QED
    BY <2>1, <2>2
<1>4. Place(Idling(Tail(todo)), history, Unsent)
    BY <1>3, IdlingPlace
<1>5. Place(Idle, history, Unsent)
    BY <1>3 DEF Place, Idle
<1>6. \E x : job' = [job EXCEPT ![j] = x] /\ Place(x, history, Unsent)
  <2>1. CASE \E after \in {Continue(j), Idle} : job' = [job EXCEPT ![j] = after]
    BY <1>4, <1>5, <2>1 DEF Continue
  <2>2. ASSUME NEW put, Rowing(j, put, {}) PROVE \E x : job' = [job EXCEPT ![j] = x] /\ Place(x, history, Unsent)
    BY <1>3, <2>2, RowingPlace
  <2> QED
    BY <2>1, <2>2 DEF CallFails
<1> QED
    BY <1>1, <1>2, <1>6, Kept

LEMMA TreeWalk ==
    ASSUME Types, Tree, NEW j \in Job, Walk(j), ~disturbed'
    PROVE  Tree'
<1>1. PICK wanted : job' = [job EXCEPT ![j] = [pc |-> "walked", todo |-> <<Fields>>, wanted |-> wanted]]
    BY DEF Walk
<1> DEFINE x == [pc |-> "walked", todo |-> <<Fields>>, wanted |-> wanted]
<1>2. \A k \in Job : ~Active(k)
    BY DEF Walk
<1>3. Forest(history.messages)
    BY <1>2 DEF Tree, Quiet
<1>4. Place(x, history, Unsent)
  <2>1. x.pc = "walked" /\ x.todo = <<Fields>>
    OBVIOUS
  <2>2. <<Fields>> # <<>> /\ Tail(<<Fields>>) = <<>>
    BY OneStep DEF Todos
  <2>3. Stage(history, <<>>, Unsent)
    BY <1>3 DEF Stage, Ended
  <2> HIDE DEF x
  <2> QED
    BY <2>1, <2>2, <2>3 DEF Place, Position
<1>5. job' = [job EXCEPT ![j] = x] /\ UNCHANGED <<history, tab, turns>>
    BY <1>1 DEF Walk
<1> HIDE DEF x
<1> QED
    BY <1>2, <1>4, <1>5, Kept

LEMMA TreeStay ==
    ASSUME Tree, UNCHANGED <<history, turns, job>>, tab' \in {tab, history}, tab' = tab \/ Quiet
    PROVE  Tree'
<1>1. Unsent' = Unsent
    BY UnsentStays
<1>2. Alone' /\ (Quiet' <=> Quiet) /\ \A j \in Job : Active(j)' <=> Active(j)
    BY DEF Tree, Alone, Quiet, Active
<1>3. \A j \in Job : Active(j)' => Position(job'[j], history', Unsent')
    BY <1>1, <1>2 DEF Tree
<1>4. Forest(tab'.messages) /\ Ids(tab') \cap Unsent' = {}
    BY <1>1 DEF Tree
<1> QED
    BY <1>1, <1>2, <1>3, <1>4 DEF Tree

LEMMA TreeStep == TreeInv /\ [Next]_vars => TreeInv'
<1> SUFFICES ASSUME TreeInv, [Next]_vars, ~disturbed' PROVE Tree'
    BY TypesStep DEF TreeInv
<1>1. ~disturbed /\ Types /\ Tree
  <2>1. disturbed => disturbed'
    BY Onward
  <2> QED
    BY <2>1 DEF TreeInv
<1>2. CASE UNCHANGED vars
    BY <1>1, <1>2, TreeStay DEF vars
<1>3. CASE Load
  <2>1. Quiet
    BY <1>3 DEF Load, Quiet
  <2> QED
    BY <1>1, <1>3, <2>1, TreeStay DEF Load
<1>4. ASSUME NEW j \in Job, Arrive(j) PROVE Tree'
    BY <1>1, <1>4, TreeSend, TreeRegenerate, TreeResume, TreeAsk DEF Arrive
<1>5. ASSUME NEW j \in Job, Step(j) \/ PutFails(j) \/ CallFails(j) PROVE Tree'
  <2>1. CASE Look(j)
    BY <1>1, <2>1, TreeLook
  <2>2. CASE Read(j)
    BY <1>1, <2>2, TreeRead
  <2>3. CASE Commit(j)
    BY <1>1, <2>3, TreeCommit
  <2>4. CASE PutRow(j) \/ PutFails(j)
    <3>1. job[j].pc = "rows" /\ UNCHANGED <<history, tab, turns>>
        BY <2>4 DEF PutRow, PutFails, settled
    <3>2. \E put, drop : Rowing(j, put, drop)
        BY <2>4 DEF PutRow, PutFails
    <3> QED
        BY <1>1, <3>1, <3>2, TreeRowing
  <2>5. CASE DropRows(j)
    BY <1>1, <2>5, TreeDropRows
  <2>6. CASE Walk(j)
    BY <1>1, <2>6, TreeWalk
  <2>7. CASE Fill(j)
    <3>1. job[j].pc = "walked" /\ UNCHANGED <<history, tab, turns>>
        BY <2>7 DEF Fill, settled
    <3>2. \E put, drop : Rowing(j, put, drop)
        BY <2>7 DEF Fill
    <3> QED
        BY <1>1, <3>1, <3>2, TreeRowing
  <2>8. CASE CallFails(j)
    BY <1>1, <2>8, TreeCallFails
  <2> QED
    BY <1>5, <2>1, <2>2, <2>3, <2>4, <2>5, <2>6, <2>7, <2>8 DEF Step
<1> QED
    BY <1>2, <1>3, <1>4, <1>5 DEF Next

\* Between requests that do not overlap, with no user message resent with stale
\* links and no call failed by which a turn grows the tree, the document is a
\* forest: every parent exists, the lists of children are the inverse of the
\* parents, no message is its own ancestor, and the current message exists.  A
\* message may be sent, regenerated or continued (main.py; models/chats.py:
\* merge_history, delete_message_from_history, upsert_message_to_history and
\* the requests built from them).
THEOREM TreeIsSound == Spec => []TreeSound
<1>1. Init => TreeInv
    BY TypesInit, TreeInit DEF TreeInv
<1>2. TreeInv /\ [Next]_vars => TreeInv'
    BY TreeStep
<1>3. TreeInv => TreeSound
  <2> SUFFICES ASSUME TreeInv, Quiet, ~disturbed PROVE
        /\ \A m \in Ids(history) :
              /\ history.messages[m].parent \in Ids(history) \cup {Null}
              /\ history.messages[m].kids = {k \in Ids(history) : history.messages[k].parent = m}
        /\ Acyclic(history)
        /\ history.current \in Ids(history) \/ history = [messages |-> None, current |-> Null]
    BY DEF TreeSound
  <2>1. Forest(history.messages) /\ Current(history)
    BY DEF TreeInv, Tree
  <2> QED
    BY <2>1 DEF Forest, Rooted, Family, Acyclic, Ids, Current, Empty
<1> QED
    BY <1>1, <1>2, <1>3, PTL DEF Spec

-----------------------------------------------------------------------------
(* The rows of a request that is alone.                                    *)

\* Rows that mirror a document once put and drop are applied to them.
Mirror(put, drop, h, r) ==
    /\ Ids(h) = (DOMAIN put \cup DOMAIN r) \ drop
    /\ \A m \in Ids(h) : RowOf(h.messages[m]) = IF m \in DOMAIN put THEN put[m] ELSE r[m]

\* If moreover no call failed.
Rows ==
    /\ \A j \in Job : job[j].pc = "rows" => Mirror(job[j].put, job[j].drop, history, rows)
    /\ (\A j \in Job : job[j].pc # "rows") => Mirror(None, {}, history, rows)

RowsInv == TreeInv /\ (~disturbed /\ failures = 0 => Rows)

LEMMA NoneEmpty == DOMAIN None = {}
BY DEF None

\* A new chat whose rows all followed.
LEMMA RowsInit == Init => (failures = 0 => Rows)
<1> SUFFICES ASSUME Init, failures = 0 PROVE Rows
    OBVIOUS
<1>1. PICK kept \in {{}, {First.user}, Ids(history)} :
          /\ rows = RowsOf(Without(history.messages, Id \ kept))
          /\ failures = IF kept = Ids(history) THEN 0 ELSE MaxFailures
    BY DEF Init
<1>2. kept = Ids(history)
    BY <1>1, BoundAssumption
<1>3. Ids(history) \subseteq Id
    BY TreeInit DEF Tree, Quiet, Init, Active, Idle, Forest, Typed, Ids
<1>4. DOMAIN rows = Ids(history) /\ \A m \in Ids(history) : rows[m] = RowOf(history.messages[m])
    BY <1>1, <1>2, <1>3 DEF RowsOf, Without, Ids
<1>5. Mirror(None, {}, history, rows)
    BY <1>4, NoneEmpty DEF Mirror
<1>6. \A j \in Job : job[j].pc # "rows"
    BY DEF Init, Idle
<1> QED
    BY <1>5, <1>6 DEF Rows

\* A step of the only request in flight that does not end in rows to be written.
LEMMA RowsKept ==
    ASSUME Types, NEW j \in Job, \A k \in Job \ {j} : ~Active(k),
           NEW x, job' = [job EXCEPT ![j] = x], x.pc # "rows",
           Mirror(None, {}, history', rows')
    PROVE  Rows'
<1>1. \A k \in Job : job'[k].pc # "rows"
    BY DEF Types, Active
<1> QED
    BY <1>1 DEF Rows

LEMMA RowsRowing ==
    ASSUME Types, NEW j \in Job, \A k \in Job \ {j} : ~Active(k),
           NEW put, NEW drop, Rowing(j, put, drop), Mirror(put, drop, history', rows')
    PROVE  Rows'
<1>1. CASE DOMAIN put \cup drop = {}
  <2>1. job' = [job EXCEPT ![j] = Continue(j)]
    BY <1>1 DEF Rowing
  <2>2. Continue(j).pc # "rows"
    BY DEF Continue, Idling, Idle
  <2>3. Mirror(None, {}, history', rows')
    BY <1>1, NoneEmpty DEF Mirror
  <2> QED
    BY <2>1, <2>2, <2>3, RowsKept
<1>2. CASE DOMAIN put \cup drop # {}
  <2> DEFINE x == [pc |-> "rows", todo |-> job[j].todo, put |-> put, drop |-> drop]
  <2>1. job' = [job EXCEPT ![j] = x]
    BY <1>2 DEF Rowing
  <2>2. x.pc = "rows" /\ x.put = put /\ x.drop = drop
    OBVIOUS
  <2> HIDE DEF x
  <2>3. job'[j] = x /\ \A k \in Job \ {j} : job'[k] = job[k]
    BY <2>1 DEF Types
  <2>4. \A k \in Job \ {j} : job'[k].pc # "rows"
    BY <2>3 DEF Active
  <2>5. job'[j].pc = "rows" /\ job'[j].put = put /\ job'[j].drop = drop
    BY <2>2, <2>3
  <2> QED
    BY <2>4, <2>5 DEF Rows
<1> QED
    BY <1>1, <1>2

LEMMA StepsOf ==
    ASSUME NEW h, NEW todo, NEW F, Stage(h, todo, F), todo # <<>>, Head(todo).op # "link"
    PROVE  \/ Head(todo) = Fields
           \/ \E m, data : Head(todo) = Upsert(m, data)
           \/ \E m : Head(todo) = Delete(m)
           \/ \E t : Head(todo) = Save(t)
<1>6. ~Hooked(h, todo, F)
  <2>1. ASSUME NEW u, NEW p PROVE Head(todo) # Link(p, {u}, FALSE)
    <3>1. Link(p, {u}, FALSE).op = "link"
        BY DEF Link
    <3> QED
        BY <3>1, Zenon
  <2> QED
    BY <2>1 DEF Hooked
<1>1. CASE Filling(h, todo, F)
  <2>1. PICK u, left : Answering(todo, u, left)
    BY <1>1 DEF Filling
  <2>2. PICK a \in left : Head(todo) = Upsert(a, Placeholder(u))
    BY <2>1, AnsweringNext
  <2> QED
    BY <2>2
<1>2. CASE Hung(h, todo, F)
  <2>1. PICK u, p : \/ Head(todo) = Link(p, {u}, FALSE)
                    \/ Head(todo) = Upsert(p, Kids(h.messages[p].kids \cup {u}))
    BY <1>2 DEF Hung
  <2>2. Link(p, {u}, FALSE).op = "link"
    BY DEF Link
  <2> QED
    BY <2>1, <2>2, Zenon
<1>3. CASE Listing(h, todo, F)
  <2>1. PICK u, left : \/ Head(todo) = Link(u, left, TRUE)
                       \/ Head(todo) = Upsert(u, Kids(h.messages[u].kids \cup left))
    BY <1>3 DEF Listing
  <2>2. Link(u, left, TRUE).op = "link"
    BY DEF Link
  <2> QED
    BY <2>1, <2>2, Zenon
<1>4. CASE Single(h, todo, F)
    BY <1>4 DEF Single
<1>5. CASE Sending(h, todo, F)
    BY <1>5 DEF Sending, Placing
<1> QED
    BY <1>1, <1>2, <1>3, <1>4, <1>5, <1>6 DEF Stage, Ended

\* The rows a request writes after a commit are those the commit changed.
LEMMA RowsCommit ==
    ASSUME Types, Tree, Rows, NEW j \in Job, Commit(j)
    PROVE  Rows'
<1> DEFINE todo == job[j].todo
           step == Head(todo)
<1>1. Active(j) /\ job[j].pc = "commit"
    BY DEF Commit, Active
<1>2. /\ \A k \in Job \ {j} : ~Active(k)
      /\ todo # <<>> /\ Stage(history, todo, Unsent)
      /\ job[j].snap = history /\ step.op # "link"
    BY <1>1, At DEF Position
<1>3. PICK h \in Outcomes(j) : history' = h /\ Rowing(j, Puts(j, h.messages), Drops(j))
    BY DEF Commit
<1>4. h \in Results(step, history)
    BY <1>2, <1>3 DEF Outcomes, Results, Todo
<1>5. rows' = rows /\ Todo(j) = step
    BY DEF Commit, Todo
<1>6. Mirror(None, {}, history, rows)
    BY <1>1, <1>2 DEF Rows, Active
<1>7. DOMAIN rows = Ids(history) /\ \A m \in Ids(history) : RowOf(history.messages[m]) = rows[m]
    BY <1>6, NoneEmpty DEF Mirror
<1> SUFFICES Mirror(Puts(j, h.messages), Drops(j), h, rows)
    BY <1>2, <1>3, <1>5, RowsRowing
<1>8. CASE step = Fields
  <2>1. h = history
    BY <1>4, <1>8, ResultsOf
  <2>2. Puts(j, h.messages) = None /\ Drops(j) = {}
    BY <1>5, <1>8 DEF Puts, Drops, Fields
  <2> QED
    BY <1>6, <2>1, <2>2
<1>9. ASSUME NEW m, NEW data, step = Upsert(m, data)
      PROVE  Mirror(Puts(j, h.messages), Drops(j), h, rows)
  <2>1. h = Upserted(history, m, data)
    BY <1>4, <1>9, ResultsOf
  <2>2. Puts(j, h.messages) = Put(None, m, RowOf(h.messages[m])) /\ Drops(j) = {}
    BY <1>5, <1>9 DEF Puts, Drops, Upsert
  <2>3. \E value : h.messages = Put(history.messages, m, value)
    BY <2>1 DEF Upserted
  <2>4. /\ Ids(h) = Ids(history) \cup {m}
        /\ \A k \in Ids(history) \ {m} : h.messages[k] = history.messages[k]
    BY <2>3 DEF Put, Ids
  <2>5. DOMAIN Put(None, m, RowOf(h.messages[m])) = {m} /\ Put(None, m, RowOf(h.messages[m]))[m] = RowOf(h.messages[m])
    BY NoneEmpty DEF Put
  <2> QED
    BY <1>7, <2>2, <2>4, <2>5 DEF Mirror
<1>10. ASSUME NEW m, step = Delete(m)
       PROVE  Mirror(Puts(j, h.messages), Drops(j), h, rows)
  <2>1. h \in Deletions(history, m)
    BY <1>4, <1>10, ResultsOf
  <2>2. /\ Puts(j, h.messages) = IF m \in Ids(history) THEN RowsOf(h.messages) ELSE None
        /\ Drops(j) = Doomed(history, m)
    BY <1>2, <1>5, <1>10 DEF Puts, Drops, Delete
  <2>3. CASE m \in Ids(history)
    <3>1. h.messages = Left(history, m)
      <4>1. PICK current : h = [messages |-> Left(history, m), current |-> current]
        BY <2>1, <2>3 DEF Deletions
      <4> QED
        BY <4>1
    <3>2. Ids(h) = Ids(history) \ Doomed(history, m)
        BY <3>1 DEF Left, Ids
    <3>3. DOMAIN RowsOf(h.messages) = Ids(h) /\ \A k \in Ids(h) : RowsOf(h.messages)[k] = RowOf(h.messages[k])
        BY DEF RowsOf, Ids
    <3> QED
        BY <1>7, <2>2, <2>3, <3>2, <3>3 DEF Mirror
  <2>4. CASE m \notin Ids(history)
    <3>1. h = history /\ Doomed(history, m) = {}
        BY <2>1, <2>4 DEF Deletions, Doomed
    <3> QED
        BY <1>6, <2>2, <2>4, <3>1
  <2> QED
    BY <2>3, <2>4
<1>11. ASSUME NEW t, step = Save(t)
       PROVE  Mirror(Puts(j, h.messages), Drops(j), h, rows)
  <2>1. h = Merged(history, t)
    BY <1>4, <1>11, ResultsOf
  <2>2. Puts(j, h.messages) = RowsOf(h.messages) /\ Drops(j) = {}
    BY <1>5, <1>11 DEF Puts, Drops, Save
  <2>3. Ids(history) \subseteq Ids(h)
    BY <2>1 DEF Merged, Relinked, Over, Ids
  <2>4. DOMAIN RowsOf(h.messages) = Ids(h) /\ \A k \in Ids(h) : RowsOf(h.messages)[k] = RowOf(h.messages[k])
    BY DEF RowsOf, Ids
  <2> QED
    BY <1>7, <2>2, <2>3, <2>4 DEF Mirror
<1> QED
    BY <1>2, <1>8, <1>9, <1>10, <1>11, StepsOf

LEMMA RowsPut ==
    ASSUME Types, Tree, Rows, NEW j \in Job, PutRow(j)
    PROVE  Rows'
<1> DEFINE put == job[j].put
           drop == job[j].drop
           m == Upcoming(j)
           left == Without(put, {m})
<1>1. Active(j) /\ job[j].pc = "rows"
    BY DEF PutRow, Active
<1>2. \A k \in Job \ {j} : ~Active(k)
    BY <1>1, At
<1>3. m \in DOMAIN put
    BY DEF PutRow, Upcoming
<1>4. rows' = Put(rows, m, put[m]) /\ Rowing(j, left, drop) /\ history' = history
    BY DEF PutRow
<1>5. Mirror(put, drop, history, rows)
    BY <1>1 DEF Rows
<1> HIDE DEF put, drop, m
<1>6. DOMAIN left = DOMAIN put \ {m} /\ \A k \in DOMAIN left : left[k] = put[k]
    BY DEF Without
<1>7. DOMAIN rows' = DOMAIN rows \cup {m} /\ rows'[m] = put[m] /\ \A k \in DOMAIN rows \ {m} : rows'[k] = rows[k]
    BY <1>4 DEF Put
<1> HIDE DEF left
<1>8. Mirror(left, drop, history', rows')
    BY <1>3, <1>4, <1>5, <1>6, <1>7 DEF Mirror
<1> QED
    BY <1>2, <1>4, <1>8, RowsRowing

LEMMA RowsDrop ==
    ASSUME Types, Tree, Rows, NEW j \in Job, DropRows(j), failures' = failures
    PROVE  Rows'
<1> DEFINE drop == job[j].drop
<1>1. Active(j) /\ job[j].pc = "rows" /\ DOMAIN job[j].put = {}
    BY DEF DropRows, Active
<1>2. \A k \in Job \ {j} : ~Active(k)
    BY <1>1, At
<1>3. rows' = Without(rows, drop) /\ history' = history /\ job' = [job EXCEPT ![j] = Continue(j)]
    BY DEF DropRows, Types
<1>4. Mirror(job[j].put, drop, history, rows)
    BY <1>1 DEF Rows
<1>5. DOMAIN rows' = DOMAIN rows \ drop /\ \A k \in DOMAIN rows' : rows'[k] = rows[k]
    BY <1>3 DEF Without
<1>6. Mirror(None, {}, history', rows')
    BY <1>1, <1>3, <1>4, <1>5, NoneEmpty DEF Mirror
<1>7. Continue(j).pc # "rows"
    BY DEF Continue, Idling, Idle
<1> QED
    BY <1>2, <1>3, <1>6, <1>7, RowsKept

LEMMA RowsFill ==
    ASSUME Types, Tree, Rows, NEW j \in Job, Fill(j)
    PROVE  Rows'
<1> DEFINE f == Without(history.messages, Id \ job[j].wanted)
<1>1. Active(j) /\ job[j].pc = "walked"
    BY DEF Fill, Active
<1>2. \A k \in Job \ {j} : ~Active(k)
    BY <1>1, At
<1>3. Rowing(j, RowsOf(f), {}) /\ UNCHANGED <<history, rows>>
    BY DEF Fill
<1>4. Mirror(None, {}, history, rows)
    BY <1>1, <1>2 DEF Rows, Active
<1>5. DOMAIN f \subseteq Ids(history) /\ \A m \in DOMAIN f : f[m] = history.messages[m]
    BY DEF Without, Ids
<1>6. DOMAIN RowsOf(f) = DOMAIN f /\ \A m \in DOMAIN f : RowsOf(f)[m] = RowOf(f[m])
    BY DEF RowsOf
<1> HIDE DEF f
<1>7. Mirror(RowsOf(f), {}, history', rows')
    BY <1>3, <1>4, <1>5, <1>6, NoneEmpty DEF Mirror
<1> QED
    BY <1>2, <1>3, <1>7, RowsRowing

\* Steps that touch neither the document nor the rows.
LEMMA RowsStay ==
    ASSUME Types, Rows, UNCHANGED <<history, rows>>,
           \/ job' = job
           \/ \E j \in Job : job[j].pc # "rows" /\ \E x : job' = [job EXCEPT ![j] = x] /\ x.pc # "rows"
    PROVE  Rows'
<1>1. CASE job' = job
    BY <1>1 DEF Rows
<1>2. ASSUME NEW j \in Job, NEW x, job[j].pc # "rows", job' = [job EXCEPT ![j] = x], x.pc # "rows"
      PROVE  Rows'
  <2>1. job'[j] = x /\ \A k \in Job \ {j} : job'[k] = job[k]
    BY <1>2 DEF Types
  <2>2. \A k \in Job : job'[k].pc = "rows" => job[k].pc = "rows" /\ job'[k] = job[k]
    BY <1>2, <2>1
  <2>3. (\A k \in Job : job'[k].pc # "rows") => \A k \in Job : job[k].pc # "rows"
    BY <1>2, <2>1
  <2> QED
    BY <2>2, <2>3 DEF Rows
<1> QED
    BY <1>1, <1>2

LEMMA RowsStep == RowsInv /\ [Next]_vars => RowsInv'
<1> SUFFICES ASSUME RowsInv, [Next]_vars, ~disturbed', failures' = 0 PROVE Rows'
    BY TreeStep DEF RowsInv
<1>1. ~disturbed /\ Types /\ Tree
  <2>1. disturbed => disturbed'
    BY Onward
  <2> QED
    BY <2>1 DEF RowsInv, TreeInv
<1>2. failures' \in {failures, failures + 1}
    BY Onward
<1>3. failures = 0 /\ failures' = failures /\ Rows
    BY <1>1, <1>2 DEF RowsInv, Types
<1>4. CASE UNCHANGED vars \/ Load
    BY <1>1, <1>3, <1>4, RowsStay DEF vars, Load
<1>5. ASSUME NEW j \in Job, NEW todo, NEW stale, Request(j, todo, stale) PROVE Rows'
  <2>1. job[j].pc = "idle" /\ job' = [job EXCEPT ![j] = Idling(todo)] /\ UNCHANGED <<history, rows>>
    BY <1>5 DEF Request, Active
  <2>2. Idling(todo).pc # "rows"
    BY DEF Idling, Idle
  <2> QED
    BY <1>1, <1>3, <2>1, <2>2, RowsStay
<1>6. ASSUME NEW j \in Job, Arrive(j) PROVE Rows'
  <2>1. \E todo, stale : Request(j, todo, stale)
    BY <1>6 DEF Arrive, Send, Regenerate, Resume, Write, RequestDelete, RequestSave
  <2> QED
    BY <1>5, <2>1
<1>7. ASSUME NEW j \in Job, Look(j) \/ Read(j) \/ Walk(j) PROVE Rows'
  <2>1. UNCHANGED <<history, rows>> /\ job[j].pc # "rows"
    BY <1>7 DEF Look, Read, Walk, Doing, Active
  <2>2. \E x : job' = [job EXCEPT ![j] = x] /\ x.pc # "rows"
    <3>1. CASE Look(j)
      <4>1. Continue(j).pc # "rows"
        BY DEF Continue, Idling, Idle
      <4>2. \A todo : [pc |-> "next", todo |-> todo].pc # "rows"
        OBVIOUS
      <4> QED
        BY <3>1, <4>1, <4>2 DEF Look
    <3>2. CASE Read(j)
      <4> DEFINE x == [pc |-> "commit", todo |-> job[j].todo, snap |-> history]
      <4>1. job' = [job EXCEPT ![j] = x] /\ x.pc # "rows"
        BY <3>2 DEF Read
      <4> QED
        BY <4>1
    <3>3. CASE Walk(j)
      <4>1. PICK wanted : job' = [job EXCEPT ![j] = [pc |-> "walked", todo |-> <<Fields>>, wanted |-> wanted]]
        BY <3>3 DEF Walk
      <4>2. [pc |-> "walked", todo |-> <<Fields>>, wanted |-> wanted].pc # "rows"
        OBVIOUS
      <4> QED
        BY <4>1, <4>2
    <3> QED
        BY <1>7, <3>1, <3>2, <3>3
  <2> QED
    BY <1>1, <1>3, <2>1, <2>2, RowsStay
<1>8. ASSUME NEW j \in Job, Step(j) \/ PutFails(j) \/ CallFails(j) PROVE Rows'
  <2>1. ~PutFails(j) /\ ~CallFails(j)
    BY <1>3 DEF PutFails, CallFails
  <2> QED
    BY <1>1, <1>3, <1>7, <1>8, <2>1, RowsCommit, RowsPut, RowsDrop, RowsFill DEF Step
<1> QED
    BY <1>4, <1>6, <1>8 DEF Next

LEMMA RowsMirror ==
    ASSUME RowsInv
    PROVE  RowsFollow
<1> SUFFICES ASSUME Quiet, ~disturbed, failures = 0 PROVE rows = RowsOf(history.messages)
    BY DEF RowsFollow
<1>1. Mirror(None, {}, history, rows)
    BY DEF RowsInv, Rows, Quiet, Active
<1>2. DOMAIN rows = Ids(history) /\ \A m \in Ids(history) : rows[m] = RowOf(history.messages[m])
    BY <1>1, NoneEmpty DEF Mirror
<1>3. rows = [m \in DOMAIN rows |-> rows[m]]
    BY DEF RowsInv, TreeInv, Types
<1> QED
    BY <1>2, <1>3 DEF RowsOf, Ids

-----------------------------------------------------------------------------
(* What no overlapping requests lose.                                      *)

Keepers == {"fields", "upsert", "link", "save"}

\* Steps none of which deletes.
Sparing(todo) == \E S : todo \in Seq(S) /\ \A s \in S : s.op \in Keepers

\* Messages that are in a row, or in one that a request is about to write.
Stored(m) == m \in DOMAIN rows \/ \E j \in Job : job[j].pc = "rows" /\ m \in DOMAIN job[j].put

\* Messages of the document, as it is or as a request will overwrite it.
Held(m) == m \in Ids(history) \/ \E j \in Job : job[j].pc = "commit" /\ m \in Ids(job[j].snap)

Keep ==
    /\ \A j \in Job : Active(j) => job[j].todo # <<>> /\ Sparing(job[j].todo)
    /\ \A j \in Job : job[j].pc = "commit" => Head(job[j].todo).op # "link"
    /\ \A j \in Job : job[j].pc = "rows" => job[j].drop = {}
    /\ \A m : m \in sent \/ Held(m) => Stored(m)

KeepInv == Types /\ (~deleted /\ failures = 0 => Keep)

LEMMA SparingRest ==
    ASSUME NEW todo, todo # <<>>, Sparing(todo)
    PROVE  Head(todo).op \in Keepers /\ Sparing(Tail(todo))
<1>1. PICK S : todo \in Seq(S) /\ \A s \in S : s.op \in Keepers
    BY DEF Sparing
<1>2. Head(todo) \in S /\ Tail(todo) \in Seq(S)
    BY <1>1
<1> QED
    BY <1>1, <1>2 DEF Sparing

LEMMA SparingFirst ==
    ASSUME NEW x, x.op \in Keepers, NEW todo, Sparing(todo)
    PROVE  <<x>> \o todo # <<>> /\ Sparing(<<x>> \o todo)
<1>1. PICK S : todo \in Seq(S) /\ \A s \in S : s.op \in Keepers
    BY DEF Sparing
<1>2. todo \in Seq(S \cup {x}) /\ <<x>> \in Seq(S \cup {x}) /\ Len(<<x>>) = 1
    BY <1>1
<1>3. <<x>> \o todo \in Seq(S \cup {x}) /\ Len(<<x>> \o todo) = Len(<<x>>) + Len(todo)
    BY <1>2, ConcatProperties
<1>4. <<x>> \o todo # <<>>
    BY <1>2, <1>3
<1>5. \A s \in S \cup {x} : s.op \in Keepers
    BY <1>1
<1> QED
    BY <1>3, <1>4, <1>5 DEF Sparing

LEMMA SparingOne ==
    ASSUME NEW x, x.op \in Keepers
    PROVE  Sparing(<<x>>)
<1> DEFINE S == {x}
<1>1. <<x>> \in Seq(S) /\ \A s \in S : s.op \in Keepers
    OBVIOUS
<1> HIDE DEF S
<1> QED
    BY <1>1 DEF Sparing

\* The steps of a turn that is sent.
LEMMA SparingTurn ==
    ASSUME NEW u, NEW data, NEW A, NEW answers \in Seq(A)
    PROVE  Sparing(TurnSteps(u, data, answers))
<1> DEFINE p == data.parent
           place == Upsert(u, data)
           hang == Link(p, {u}, FALSE)
           list == Link(u, ToSet(answers), TRUE)
           middle == IF p = Null THEN <<>> ELSE <<hang>>
           fill == [i \in 1..Len(answers) |-> Upsert(answers[i], Placeholder(u))]
           S == {Fields, place, hang, list} \cup {Upsert(m, Placeholder(u)) : m \in A}
<1>1. \A s \in S : s.op \in Keepers
  <2>1. Fields.op \in Keepers /\ place.op \in Keepers /\ hang.op \in Keepers /\ list.op \in Keepers
    BY DEF Keepers, Fields, Upsert, Link
  <2>2. \A m : Upsert(m, Placeholder(u)).op \in Keepers
    BY DEF Keepers, Upsert
  <2> HIDE DEF place, hang, list
  <2> QED
    BY <2>1, <2>2
<1>2. fill \in Seq(S)
  <2>1. ASSUME NEW i \in 1..Len(answers) PROVE Upsert(answers[i], Placeholder(u)) \in S
    <3>1. answers[i] \in A
        BY <2>1
    <3> QED
        BY <3>1
  <2> HIDE DEF S
  <2> QED
    BY <2>1
<1>3. Fields \in S /\ place \in S /\ hang \in S /\ list \in S
    OBVIOUS
<1>8. TurnSteps(u, data, answers) = ((<<Fields, place>> \o middle) \o <<list>>) \o fill
    BY DEF TurnSteps
<1> HIDE DEF S, place, hang, list, fill, p
<1>4. <<Fields, place>> \in Seq(S) /\ middle \in Seq(S) /\ <<list>> \in Seq(S)
    BY <1>3
<1> HIDE DEF middle
<1>5. <<Fields, place>> \o middle \in Seq(S)
    BY <1>4, ConcatProperties
<1>6. (<<Fields, place>> \o middle) \o <<list>> \in Seq(S)
    BY <1>4, <1>5, ConcatProperties
<1>7. ((<<Fields, place>> \o middle) \o <<list>>) \o fill \in Seq(S)
    BY <1>2, <1>6, ConcatProperties
<1> QED
    BY <1>1, <1>7, <1>8 DEF Sparing

LEMMA KeepInit == Init => (failures = 0 => Keep)
<1> SUFFICES ASSUME Init, failures = 0 PROVE Keep
    OBVIOUS
<1>1. Mirror(None, {}, history, rows)
    BY RowsInit DEF Rows, Init, Idle
<1>2. DOMAIN rows = Ids(history)
    BY <1>1, NoneEmpty DEF Mirror
<1>3. sent = Ids(history) /\ \A j \in Job : job[j].pc = "idle"
    BY DEF Init, Idle
<1> QED
    BY <1>2, <1>3 DEF Keep, Stored, Held, Active

\* Every step changes at most one request; what it owes of Keep.
LEMMA KeepMoved ==
    ASSUME Types, Keep, NEW j \in Job, NEW x, job' = [job EXCEPT ![j] = x],
           x.pc # "idle" => x.todo # <<>> /\ Sparing(x.todo),
           x.pc = "commit" => Head(x.todo).op # "link",
           x.pc = "rows" => x.drop = {},
           \A m : Stored(m) => Stored(m)',
           \A m \in sent' \ sent : Stored(m)',
           \A m \in Ids(history') : Held(m) \/ Stored(m)',
           x.pc = "commit" => Ids(x.snap) \subseteq Ids(history)
    PROVE  Keep'
<1>1. job'[j] = x /\ \A k \in Job \ {j} : job'[k] = job[k]
    BY DEF Types
<1>2. \A k \in Job : Active(k)' => job'[k].todo # <<>> /\ Sparing(job'[k].todo)
    BY <1>1 DEF Keep, Active
<1>3. \A k \in Job : /\ job'[k].pc = "commit" => Head(job'[k].todo).op # "link"
                     /\ job'[k].pc = "rows" => job'[k].drop = {}
    BY <1>1 DEF Keep
<1>4. ASSUME NEW m, m \in sent' \/ Held(m)' PROVE Stored(m)'
  <2>1. CASE m \in sent'
    BY <2>1 DEF Keep
  <2>2. CASE m \in Ids(history')
    BY <2>2 DEF Keep
  <2>3. ASSUME NEW k \in Job, job'[k].pc = "commit", m \in Ids(job'[k].snap) PROVE Stored(m)'
    <3>1. Held(m)
        BY <1>1, <2>3 DEF Held
    <3> QED
        BY <3>1 DEF Keep
  <2> QED
    BY <1>4, <2>1, <2>2, <2>3 DEF Held
<1> QED
    BY <1>2, <1>3, <1>4 DEF Keep

LEMMA StoredGrows ==
    ASSUME Types, NEW j \in Job, job[j].pc # "rows", NEW x, job' = [job EXCEPT ![j] = x],
           rows' = rows
    PROVE  /\ \A m : Stored(m) => Stored(m)'
           /\ x.pc = "rows" => \A m \in DOMAIN x.put : Stored(m)'
<1>1. job'[j] = x /\ \A k \in Job \ {j} : job'[k] = job[k]
    BY DEF Types
<1> QED
    BY <1>1 DEF Stored

LEMMA IdlingKeeps ==
    ASSUME NEW todo, Sparing(todo)
    PROVE  /\ Idling(todo).pc \in {"idle", "next"}
           /\ Idling(todo).pc # "idle" => Idling(todo).todo # <<>> /\ Sparing(Idling(todo).todo)
BY DEF Idling, Idle

\* What Rowing makes of a request.
LEMMA RowingKeeps ==
    ASSUME NEW j \in Job, job[j].todo # <<>>, Sparing(job[j].todo),
           NEW put, Rowing(j, put, {})
    PROVE  \E x : /\ job' = [job EXCEPT ![j] = x]
                  /\ x.pc \in {"idle", "next", "rows"}
                  /\ x.pc # "idle" => x.todo # <<>> /\ Sparing(x.todo)
                  /\ x.pc = "rows" => x.drop = {} /\ x.put = put
                  /\ DOMAIN put # {} => x.pc = "rows"
<1>1. CASE DOMAIN put = {}
  <2>1. job' = [job EXCEPT ![j] = Idling(Tail(job[j].todo))]
    BY <1>1 DEF Rowing, Continue
  <2>2. Sparing(Tail(job[j].todo))
    BY SparingRest
  <2> QED
    BY <1>1, <2>1, <2>2, IdlingKeeps
<1>2. CASE DOMAIN put # {}
  <2> DEFINE x == [pc |-> "rows", todo |-> job[j].todo, put |-> put, drop |-> {}]
  <2>1. job' = [job EXCEPT ![j] = x]
    BY <1>2 DEF Rowing
  <2>2. x.pc = "rows" /\ x.todo = job[j].todo /\ x.drop = {} /\ x.put = put
    OBVIOUS
  <2> HIDE DEF x
  <2> QED
    BY <2>1, <2>2
<1> QED
    BY <1>1, <1>2

LEMMA KeepRequest ==
    ASSUME Types, Keep, NEW j \in Job, NEW todo, NEW stale, Request(j, todo, stale), Sparing(todo)
    PROVE  Keep'
<1> DEFINE x == Idling(todo)
<1>1. /\ job[j].pc # "rows" /\ job' = [job EXCEPT ![j] = x]
      /\ UNCHANGED <<history, rows, sent>>
    BY DEF Request, Active
<1>2. /\ x.pc \in {"idle", "next"}
      /\ x.pc # "idle" => x.todo # <<>> /\ Sparing(x.todo)
    BY IdlingKeeps
<1> HIDE DEF x
<1>3. \A m : Stored(m) => Stored(m)'
    BY <1>1, StoredGrows
<1>4. \A m \in Ids(history') : Held(m)
    BY <1>1 DEF Held
<1> QED
    BY <1>1, <1>2, <1>3, <1>4, KeepMoved

LEMMA KeepArrive ==
    ASSUME Types, Keep, NEW j \in Job, Arrive(j), ~deleted'
    PROVE  Keep'
<1>1. ASSUME NEW t \in Turns, Send(j, t) \/ Regenerate(j, t) PROVE Keep'
  <2>1. PICK u, data, stale : Request(j, TurnSteps(u, data, t.answers), stale)
    BY <1>1 DEF Send, Regenerate
  <2>2. t.answers \in Seq(Id)
    BY TurnOf
  <2> QED
    BY <2>1, <2>2, KeepRequest, SparingTurn
<1>5. CASE Resume(j)
  <2>1. PICK a, u, data, stale : Request(j, TurnSteps(u, data, <<a>>), stale)
    BY <1>5 DEF Resume
  <2>2. <<a>> \in Seq({a})
    OBVIOUS
  <2> QED
    BY <2>1, <2>2, KeepRequest, SparingTurn
<1>2. CASE Write(j)
  <2>1. PICK m : Request(j, <<Upsert(m, Written)>>, m \notin Ids(history))
    BY <1>2 DEF Write
  <2>2. Upsert(m, Written).op \in Keepers
    BY DEF Upsert, Keepers
  <2> QED
    BY <2>1, <2>2, KeepRequest, SparingOne
<1>3. CASE RequestSave(j)
  <2>1. PICK h : Request(j, <<Save(h)>>, FALSE)
    BY <1>3 DEF RequestSave
  <2>2. Save(h).op \in Keepers
    BY DEF Save, Keepers
  <2> QED
    BY <2>1, <2>2, KeepRequest, SparingOne
<1>4. ~RequestDelete(j)
    BY DEF RequestDelete
<1> QED
    BY <1>1, <1>2, <1>3, <1>4, <1>5 DEF Arrive

LEMMA KeepLook ==
    ASSUME Types, Keep, NEW j \in Job, Look(j)
    PROVE  Keep'
<1> DEFINE todo == job[j].todo
<1>1. job[j].pc = "next" /\ UNCHANGED <<history, rows, sent>>
    BY DEF Look, Doing
<1>2. todo # <<>> /\ Sparing(todo)
    BY <1>1 DEF Keep, Active
<1>3. Sparing(Tail(todo))
    BY <1>2, SparingRest
<1>4. PICK rest : job' = [job EXCEPT ![j] = Idling(rest)] /\ Sparing(rest)
  <2> DEFINE link == Head(todo)
             kids == history.messages[link.id].kids
             up == Upsert(link.id, Kids(kids \cup link.kids))
             next == <<up>> \o Tail(todo)
  <2>1. up.op \in Keepers
    BY DEF Upsert, Keepers
  <2>2. next # <<>> /\ Sparing(next)
    <3> HIDE DEF up
    <3> QED
        BY <1>3, <2>1, SparingFirst
  <2>3. job' = [job EXCEPT ![j] = [pc |-> "next", todo |-> next]] \/ job' = [job EXCEPT ![j] = Idling(Tail(todo))]
    BY DEF Look, Todo, Continue
  <2>4. Idling(next) = [pc |-> "next", todo |-> next]
    <3> HIDE DEF next
    <3> QED
        BY <2>2 DEF Idling
  <2> HIDE DEF next
  <2>5. job' = [job EXCEPT ![j] = Idling(next)] \/ job' = [job EXCEPT ![j] = Idling(Tail(todo))]
    BY <2>3, <2>4, Zenon
  <2> QED
    BY <1>3, <2>2, <2>5
<1> DEFINE x == Idling(rest)
<1>5. /\ x.pc \in {"idle", "next"}
      /\ x.pc # "idle" => x.todo # <<>> /\ Sparing(x.todo)
    BY <1>4, IdlingKeeps
<1>6. job' = [job EXCEPT ![j] = x]
    BY <1>4
<1> HIDE DEF x
<1>7. \A m : Stored(m) => Stored(m)'
    BY <1>1, <1>6, StoredGrows
<1>8. \A m \in Ids(history') : Held(m)
    BY <1>1 DEF Held
<1> QED
    BY <1>1, <1>5, <1>6, <1>7, <1>8, KeepMoved

LEMMA KeepRead ==
    ASSUME Types, Keep, NEW j \in Job, Read(j)
    PROVE  Keep'
<1> DEFINE x == [pc |-> "commit", todo |-> job[j].todo, snap |-> history]
<1>1. /\ job[j].pc = "next" /\ UNCHANGED <<history, rows, sent>>
      /\ Head(job[j].todo).op # "link"
      /\ job' = [job EXCEPT ![j] = x]
    BY DEF Read, Todo
<1>2. job[j].todo # <<>> /\ Sparing(job[j].todo)
    BY <1>1 DEF Keep, Active
<1>3. x.pc = "commit" /\ x.todo = job[j].todo /\ x.snap = history
    OBVIOUS
<1> HIDE DEF x
<1>4. \A m : Stored(m) => Stored(m)'
    BY <1>1, StoredGrows
<1>5. \A m \in Ids(history') : Held(m)
    BY <1>1 DEF Held
<1> QED
    BY <1>1, <1>2, <1>3, <1>4, <1>5, KeepMoved

\* A commit writes what it read, and messages whose rows follow.
LEMMA KeepCommit ==
    ASSUME Types, Keep, NEW j \in Job, Commit(j)
    PROVE  Keep'
<1> DEFINE todo == job[j].todo
           step == Head(todo)
           snap == job[j].snap
<1>1. job[j].pc = "commit"
    BY DEF Commit
<1>2. todo # <<>> /\ Sparing(todo) /\ step.op \in Keepers /\ step.op # "link"
    BY <1>1, SparingRest DEF Keep, Active
<1>3. PICK h \in Outcomes(j) : history' = h /\ Rowing(j, Puts(j, h.messages), Drops(j))
    BY DEF Commit
<1>4. Todo(j) = step /\ rows' = rows /\ sent' = IF step.op = "upsert" THEN sent \cup {step.id} ELSE sent
    BY DEF Commit, Todo
<1> DEFINE put == Puts(j, h.messages)
<1> HIDE DEF step, snap
<1>5. Drops(j) = {}
    BY <1>2, <1>4 DEF Drops, Keepers
<1>6. /\ \A m \in Ids(h) : m \in Ids(snap) \/ m \in DOMAIN put
      /\ \A m \in sent' \ sent : m \in DOMAIN put
  <2>1. CASE step.op = "fields"
    <3>1. h = snap
        BY <1>3, <1>4, <2>1 DEF Outcomes, snap
    <3> QED
        BY <1>4, <2>1, <3>1
  <2>2. CASE step.op = "upsert"
    <3>1. h = Upserted(snap, step.id, step.data)
        BY <1>3, <1>4, <2>2 DEF Outcomes, snap
    <3>2. \E value : h.messages = Put(snap.messages, step.id, value)
        BY <3>1 DEF Upserted
    <3>3. Ids(h) = Ids(snap) \cup {step.id}
        BY <3>2 DEF Put, Ids
    <3>4. put = Put(None, step.id, RowOf(h.messages[step.id]))
        BY <1>4, <2>2 DEF Puts
    <3>5. DOMAIN put = {step.id}
        BY <3>4, NoneEmpty DEF Put
    <3> QED
        BY <1>4, <2>2, <3>3, <3>5
  <2>3. CASE step.op = "save"
    <3>1. put = RowsOf(h.messages)
        BY <1>4, <2>3 DEF Puts
    <3>2. DOMAIN put = Ids(h)
        BY <3>1 DEF RowsOf, Ids
    <3> QED
        BY <1>4, <2>3, <3>2
  <2> QED
    BY <1>2, <2>1, <2>2, <2>3 DEF Keepers
<1> HIDE DEF put
<1>7. Rowing(j, put, {})
    BY <1>3, <1>5 DEF put
<1>8. PICK x : /\ job' = [job EXCEPT ![j] = x]
               /\ x.pc \in {"idle", "next", "rows"}
               /\ x.pc # "idle" => x.todo # <<>> /\ Sparing(x.todo)
               /\ x.pc = "rows" => x.drop = {} /\ x.put = put
               /\ DOMAIN put # {} => x.pc = "rows"
  <2> HIDE DEF todo
  <2>1. job[j].todo # <<>> /\ Sparing(job[j].todo)
    BY <1>2 DEF todo
  <2> QED
    BY <1>7, <2>1, RowingKeeps
<1>9. /\ \A m : Stored(m) => Stored(m)'
      /\ x.pc = "rows" => \A m \in DOMAIN x.put : Stored(m)'
    BY <1>1, <1>4, <1>8, StoredGrows
<1>10. \A m \in DOMAIN put : Stored(m)'
    BY <1>8, <1>9
<1>11. \A m \in Ids(snap) : Held(m)
    BY <1>1 DEF Held, snap
<1>12. \A m \in Ids(history') : Held(m) \/ Stored(m)'
    BY <1>3, <1>6, <1>10, <1>11
<1>13. \A m \in sent' \ sent : Stored(m)'
    BY <1>6, <1>10
<1> QED
    BY <1>8, <1>9, <1>12, <1>13, KeepMoved

LEMMA KeepPut ==
    ASSUME Types, Keep, NEW j \in Job, PutRow(j)
    PROVE  Keep'
<1> DEFINE put == job[j].put
           m == Upcoming(j)
           left == Without(put, {m})
<1>1. job[j].pc = "rows" /\ job[j].drop = {} /\ UNCHANGED <<history, sent>>
    BY DEF PutRow, Keep
<1>2. job[j].todo # <<>> /\ Sparing(job[j].todo)
    BY <1>1 DEF Keep, Active
<1>3. m \in DOMAIN put /\ rows' = Put(rows, m, put[m]) /\ Rowing(j, left, {})
    BY <1>1 DEF PutRow, Upcoming
<1>9. DOMAIN left = DOMAIN put \ {m} /\ DOMAIN rows' = DOMAIN rows \cup {m}
    BY <1>3 DEF Without, Put
<1> HIDE DEF left
<1>4. PICK x : /\ job' = [job EXCEPT ![j] = x]
               /\ x.pc \in {"idle", "next", "rows"}
               /\ x.pc # "idle" => x.todo # <<>> /\ Sparing(x.todo)
               /\ x.pc = "rows" => x.drop = {} /\ x.put = left
               /\ DOMAIN left # {} => x.pc = "rows"
  <2> HIDE DEF put
  <2>1. Rowing(j, left, {})
    BY <1>3
  <2> QED
    BY <1>2, <2>1, RowingKeeps
<1>6. job'[j] = x /\ \A k \in Job \ {j} : job'[k] = job[k]
    BY <1>4 DEF Types
<1>7. ASSUME NEW n, Stored(n) PROVE Stored(n)'
  <2>1. CASE n \in DOMAIN rows
    BY <1>9, <2>1 DEF Stored
  <2>2. ASSUME NEW k \in Job \ {j}, job[k].pc = "rows", n \in DOMAIN job[k].put PROVE Stored(n)'
    BY <1>6, <2>2 DEF Stored
  <2>3. CASE n \in DOMAIN put
    <3>1. CASE n = m
        BY <1>9, <3>1 DEF Stored
    <3>2. CASE n # m
      <4>1. n \in DOMAIN left
        BY <1>9, <2>3, <3>2
      <4>2. job'[j].pc = "rows" /\ job'[j].put = left
        BY <1>4, <1>6, <4>1
      <4> QED
        BY <4>1, <4>2 DEF Stored
    <3> QED
        BY <3>1, <3>2
  <2> QED
    BY <1>7, <2>1, <2>2, <2>3 DEF Stored
<1> HIDE DEF put, m
<1>8. \A n \in Ids(history') : Held(n)
    BY <1>1 DEF Held
<1> QED
    BY <1>1, <1>4, <1>7, <1>8, KeepMoved

LEMMA KeepDrop ==
    ASSUME Types, Keep, NEW j \in Job, DropRows(j), failures' = failures
    PROVE  Keep'
<1>1. /\ job[j].pc = "rows" /\ job[j].drop = {} /\ DOMAIN job[j].put = {}
      /\ UNCHANGED <<history, sent>>
    BY DEF DropRows, Keep
<1>2. job[j].todo # <<>> /\ Sparing(job[j].todo)
    BY <1>1 DEF Keep, Active
<1>3. DOMAIN rows' = DOMAIN rows
  <2>1. rows' = Without(rows, {})
    BY <1>1 DEF DropRows, Types
  <2> QED
    BY <2>1 DEF Without
<1> DEFINE x == Idling(Tail(job[j].todo))
<1>4. job' = [job EXCEPT ![j] = x]
    BY DEF DropRows, Continue
<1>5. /\ x.pc \in {"idle", "next"}
      /\ x.pc # "idle" => x.todo # <<>> /\ Sparing(x.todo)
    BY <1>2, SparingRest, IdlingKeeps
<1> HIDE DEF x
<1>6. \A k \in Job \ {j} : job'[k] = job[k]
    BY <1>4 DEF Types
<1>7. \A m : Stored(m) => Stored(m)'
    BY <1>1, <1>3, <1>6 DEF Stored
<1>8. \A m \in Ids(history') : Held(m)
    BY <1>1 DEF Held
<1> QED
    BY <1>1, <1>4, <1>5, <1>7, <1>8, KeepMoved

LEMMA KeepWalk ==
    ASSUME Types, Keep, NEW j \in Job, Walk(j)
    PROVE  Keep'
<1>1. PICK wanted : job' = [job EXCEPT ![j] = [pc |-> "walked", todo |-> <<Fields>>, wanted |-> wanted]]
    BY DEF Walk
<1> DEFINE x == [pc |-> "walked", todo |-> <<Fields>>, wanted |-> wanted]
<1>2. /\ job[j].pc # "rows" /\ UNCHANGED <<history, rows, sent>> /\ job' = [job EXCEPT ![j] = x]
    BY <1>1 DEF Walk, Active
<1>3. x.pc = "walked" /\ x.todo = <<Fields>>
    OBVIOUS
<1>4. Sparing(<<Fields>>) /\ <<Fields>> # <<>>
  <2>1. Fields.op \in Keepers
    BY DEF Fields, Keepers
  <2> QED
    BY <2>1, SparingOne
<1> HIDE DEF x
<1>5. \A m : Stored(m) => Stored(m)'
    BY <1>2, StoredGrows
<1>6. \A m \in Ids(history') : Held(m)
    BY <1>2 DEF Held
<1> QED
    BY <1>2, <1>3, <1>4, <1>5, <1>6, KeepMoved

LEMMA KeepFill ==
    ASSUME Types, Keep, NEW j \in Job, Fill(j)
    PROVE  Keep'
<1>1. job[j].pc = "walked" /\ UNCHANGED <<history, rows, sent>>
    BY DEF Fill
<1>2. job[j].todo # <<>> /\ Sparing(job[j].todo)
    BY <1>1 DEF Keep, Active
<1>3. PICK put : Rowing(j, put, {})
    BY DEF Fill
<1>4. PICK x : /\ job' = [job EXCEPT ![j] = x]
               /\ x.pc \in {"idle", "next", "rows"}
               /\ x.pc # "idle" => x.todo # <<>> /\ Sparing(x.todo)
               /\ x.pc = "rows" => x.drop = {} /\ x.put = put
               /\ DOMAIN put # {} => x.pc = "rows"
    BY <1>2, <1>3, RowingKeeps
<1>5. \A m : Stored(m) => Stored(m)'
    BY <1>1, <1>4, StoredGrows
<1>6. \A m \in Ids(history') : Held(m)
    BY <1>1 DEF Held
<1> QED
    BY <1>1, <1>4, <1>5, <1>6, KeepMoved

LEMMA KeepStep == KeepInv /\ [Next]_vars => KeepInv'
<1> SUFFICES ASSUME KeepInv, [Next]_vars, ~deleted', failures' = 0 PROVE Keep'
    BY TypesStep DEF KeepInv
<1>1. deleted => deleted'
    BY Onward
<1>2. failures' \in {failures, failures + 1}
    BY Onward
<1>3. Types /\ Keep /\ failures' = failures
    BY <1>1, <1>2 DEF KeepInv, Types
<1>4. CASE UNCHANGED vars \/ Load
  <2>1. UNCHANGED <<history, rows, job, sent>>
    BY <1>4 DEF vars, Load
  <2> QED
    BY <1>3, <2>1 DEF Keep, Stored, Held, Active
<1>5. ASSUME NEW j \in Job, Arrive(j) PROVE Keep'
    BY <1>3, <1>5, KeepArrive
<1>6. ASSUME NEW j \in Job, Step(j) \/ PutFails(j) \/ CallFails(j) PROVE Keep'
  <2>1. ~PutFails(j) /\ ~CallFails(j)
    BY <1>3 DEF PutFails, CallFails, Types
  <2> QED
    BY <1>3, <1>6, <2>1, KeepLook, KeepRead, KeepCommit, KeepPut, KeepDrop, KeepWalk, KeepFill DEF Step
<1> QED
    BY <1>4, <1>5, <1>6 DEF Next

\* Without overlaps, stale links and failing calls the chat_message table mirrors the
\* document between requests; with overlaps, but without deletions, it keeps
\* every message a request stored (ChatMessages.upsert_message after each
\* commit of the document).
THEOREM RowsAreSound == Spec => []RowsSound
<1>1. Init => RowsInv /\ KeepInv
    BY TypesInit, TreeInit, RowsInit, KeepInit DEF RowsInv, TreeInv, KeepInv
<1>2. RowsInv /\ KeepInv /\ [Next]_vars => RowsInv' /\ KeepInv'
    BY RowsStep, KeepStep
<1>3. RowsInv /\ KeepInv => RowsSound
  <2>1. KeepInv => RowsKeepAll
    BY DEF KeepInv, Keep, RowsKeepAll, Quiet, Active, Stored, Held
  <2> QED
    BY <2>1, RowsMirror DEF RowsSound
<1> QED
    BY <1>1, <1>2, <1>3, PTL DEF Spec

\* A deletion is a request of its own.
LEMMA DeletingForest ==
    ASSUME NEW h, NEW todo, NEW F, Stage(h, todo, F), todo # <<>>, Head(todo).op = "delete"
    PROVE  Forest(h.messages)
<1>1. ASSUME NEW m, NEW data PROVE Head(todo) # Upsert(m, data)
    BY DEF Upsert
<1>2. ASSUME NEW m, NEW kids, NEW always PROVE Head(todo) # Link(m, kids, always)
    BY DEF Link
<1>3. ~Hung(h, todo, F) /\ ~Hooked(h, todo, F) /\ ~Listing(h, todo, F)
    BY <1>1, <1>2, Zenon DEF Hung, Hooked, Listing
<1>4. ~Filling(h, todo, F)
  <2> SUFFICES ASSUME NEW u, NEW left, Answering(todo, u, left) PROVE FALSE
    BY DEF Filling
  <2>1. PICK a \in left : Head(todo) = Upsert(a, Placeholder(u))
    BY AnsweringNext
  <2> QED
    BY <1>1, <2>1
<1> QED
    BY <1>3, <1>4 DEF Stage, Ended, Single, Sending

\* While nothing has disturbed the tree (the same three cases),
\* delete_message_from_history takes away the message and its direct children,
\* and nothing else out of the path above any message it leaves.
THEOREM DeletionsSpare == Spec => DeletionSpares
<1> DEFINE Spared ==
        \A j \in Job :
          job[j].pc = "commit" /\ Todo(j).op = "delete" /\ history' # history /\ ~disturbed =>
            LET doomed == Doomed(history, Todo(j).id)
            IN  /\ Ids(history)' = Ids(history) \ doomed
                /\ \A m \in Ids(history)' :
                      Ancestors(history', m) = Ancestors(history, m) \ doomed
<1>1. TreeInv /\ [Next]_vars => [Spared]_vars
  <2> SUFFICES ASSUME TreeInv, Next,
                      NEW j \in Job, job[j].pc = "commit", Todo(j).op = "delete",
                      history' # history, ~disturbed
               PROVE  LET doomed == Doomed(history, Todo(j).id)
                      IN  /\ Ids(history)' = Ids(history) \ doomed
                          /\ \A m \in Ids(history)' :
                                Ancestors(history', m) = Ancestors(history, m) \ doomed
    OBVIOUS
  <2>1. Types /\ Tree
    BY DEF TreeInv
  <2>2. (\A k \in Job \ {j} : ~Active(k)) /\ Position(job[j], history, Unsent)
    BY <2>1, At DEF Active
  <2>3. Commit(j)
    <3>1. PICK k \in Job : Commit(k)
        BY Onward
    <3> QED
        BY <2>2, <3>1 DEF Commit, Active
  <2> DEFINE n == Todo(j).id
             F == Unsent
  <2>4. job[j].snap = history /\ job[j].todo # <<>> /\ Stage(history, job[j].todo, F)
        /\ Head(job[j].todo).op = "delete"
    BY <2>2 DEF Position, Todo
  <2>5. Forest(history.messages)
    BY <2>4, DeletingForest
  <2>6. history' \in Deletions(history, n)
    BY <2>3, <2>4 DEF Commit, Outcomes, Todo
  <2>7. n \in Ids(history)
    BY <2>6 DEF Deletions
  <2>8. Current(history)
    BY <2>1 DEF Tree
  <2>9. Ids(history') = Ids(history) \ Doomed(history, n) /\ history'.messages = Left(history, n)
    BY <2>5, <2>6, <2>7, <2>8, DeletionsSound
  <2>10. ASSUME NEW m \in Ids(history') PROVE Ancestors(history', m) = Ancestors(history, m) \ Doomed(history, n)
    BY <2>5, <2>7, <2>9, <2>10, AncestorsSpared
  <2> HIDE DEF n
  <2> QED
    BY <2>9, <2>10 DEF n
<1>2. Spec => []TreeInv
    BY TypesInit, TreeInit, TreeStep, PTL DEF TreeInv, Spec
<1> QED
    BY <1>1, <1>2, PTL DEF Spec, DeletionSpares
=============================================================================
