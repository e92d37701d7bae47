----------------------------- MODULE TurnProofs -----------------------------
(***************************************************************************)
(* Safety of what a turn of the assistant consists of on the server: the   *)
(* completion, and the OAuth sessions whose token it is given.             *)
(*                                                                         *)
(* The completion, for any tool calls, any limit of rounds and retries,    *)
(* any streams, stops and failures, and whatever an interrupted run left   *)
(* in the message: a message ends as done or with an error, one that is    *)
(* done has every tool result the browser saw, no call is executed twice,  *)
(* and each has its one result when the model goes on.                     *)
(* The results are in the list of items or, while a continuation streams,  *)
(* in the items before it.  They stay there because only texts and code    *)
(* are ever taken off a list; that the Responses API overwrites items is   *)
(* harmless because its lists never bring the code interpreter back in     *)
(* once there are results (NoCode).                                        *)
(*                                                                         *)
(* A call is executed once because the calls of a round differ and none    *)
(* has a result: a stream's calls are either new, which nothing in the     *)
(* state has seen (Unmade), or those of its list without a result in the   *)
(* list or before it (Streaming).  What was executed has its result in the *)
(* list or is in the round (Running), and after the round all calls are    *)
(* served (Asking), which the code interpreter keeps (Coding).             *)
(*                                                                         *)
(* The sessions, for any number of browsers, requests and sessions and any *)
(* failures: a back-channel logout is final; a refresh neither spoils a    *)
(* session nor deletes a good one unless a call failed or, with refresh    *)
(* tokens good for one use, two requests refreshed it at once; a user's    *)
(* sessions stay bounded; and requests find the token there is.            *)
(***************************************************************************)
EXTENDS Completion, OAuthSessions, SequenceTheorems, FiniteSetTheorems, WellFoundedInduction, TLAPS

-----------------------------------------------------------------------------
(* Sequences                                                               *)

\* Pick keeps the elements that are in the set, each once.
LEMMA Picked ==
    ASSUME NEW T, NEW s \in Seq(T), NEW S
    PROVE  /\ Pick(s, S) \in Seq(T)
           /\ \E at \in [1..Len(Pick(s, S)) -> 1..Len(s)] :
                 /\ \A n \in 1..Len(Pick(s, S)) : s[at[n]] \in S /\ Pick(s, S)[n] = s[at[n]]
                 /\ \A m, n \in 1..Len(Pick(s, S)) : at[m] = at[n] => m = n
                 /\ \A i \in 1..Len(s) : s[i] \in S => \E n \in 1..Len(Pick(s, S)) : at[n] = i
<1> DEFINE at == {i \in 1..Len(s) : s[i] \in S}
           upto(i) == {j \in at : j <= i}
           size == Cardinality(at)
           rank == [i \in at |-> Cardinality(upto(i))]
           place == [n \in 1..size |-> CHOOSE i \in at : Cardinality(upto(i)) = n]
<1>1. Len(s) \in Nat /\ IsFiniteSet(1..Len(s))
    BY FS_Interval
<1>2. IsFiniteSet(at) /\ size \in Nat
    <2>1. at \subseteq 1..Len(s)
        OBVIOUS
    <2> QED
        BY <1>1, <2>1, FS_Subset, FS_CardinalityType
<1>3. ASSUME NEW i \in at
      PROVE  IsFiniteSet(upto(i)) /\ Cardinality(upto(i)) \in 1..size
    <2>1. upto(i) \subseteq at /\ i \in upto(i)
        OBVIOUS
    <2>2. IsFiniteSet(upto(i)) /\ Cardinality(upto(i)) <= size /\ Cardinality(upto(i)) \in Nat
        BY <1>2, <2>1, FS_Subset, FS_CardinalityType
    <2>3. Cardinality(upto(i)) # 0
        BY <2>1, <2>2, FS_EmptySet
    <2> QED
        BY <1>2, <2>2, <2>3
<1>4. ASSUME NEW i \in at, NEW j \in at, i < j
      PROVE  Cardinality(upto(i)) < Cardinality(upto(j))
    <2>1. upto(i) \subseteq upto(j) /\ j \in upto(j) /\ j \notin upto(i)
        BY <1>1, <1>4
    <2> HIDE DEF upto, at, size
    <2>2. IsFiniteSet(upto(j)) /\ Cardinality(upto(i)) \in Nat /\ Cardinality(upto(j)) \in Nat
        BY <1>2, <1>3
    <2>3. upto(i) # upto(j)
        BY <2>1
    <2> QED
        BY <2>1, <2>2, <2>3, FS_Subset
<1> HIDE DEF upto
<1>5. rank \in Injection(at, 1..size)
    <2>1. rank \in [at -> 1..size]
        BY <1>3
    <2>2. ASSUME NEW i \in at, NEW j \in at, rank[i] = rank[j]
          PROVE  i = j
        <3>0. i \in Nat /\ j \in Nat
            OBVIOUS
        <3>1. Cardinality(upto(i)) \in Nat /\ Cardinality(upto(j)) \in Nat
            BY <1>2, <1>3
        <3>2. Cardinality(upto(i)) = Cardinality(upto(j))
            BY <2>2
        <3> HIDE DEF at, rank
        <3>3. ~(i < j) /\ ~(j < i)
            BY <1>4, <3>1, <3>2
        <3> QED
            BY <3>0, <3>3
    <2> HIDE DEF at, rank, size
    <2> QED
        BY <2>1, <2>2 DEF Injection, IsInjective
<1>6. rank \in Surjection(at, 1..size)
    <2>1. IsFiniteSet(1..size) /\ Cardinality(1..size) = size
        BY <1>2, FS_Interval
    <2> QED
        BY <1>5, <2>1, FS_Injection
<1>7. ASSUME NEW n \in 1..size
      PROVE  place[n] \in at /\ rank[place[n]] = n
    <2>1. \E i \in at : Cardinality(upto(i)) = n
        BY <1>6 DEF Surjection
    <2> HIDE DEF at, size
    <2>2. place[n] \in at /\ Cardinality(upto(place[n])) = n
        BY <2>1
    <2> QED
        BY <2>2
<1>8. Pick(s, S) = [n \in 1..size |-> s[place[n]]]
    BY DEF Pick, upto
<1>9. Pick(s, S) \in Seq(T) /\ Len(Pick(s, S)) = size
    <2>1. \A n \in 1..size : place[n] \in 1..Len(s)
        BY <1>7
    <2> HIDE DEF place, size
    <2> QED
        BY <1>2, <1>8, <2>1
<1>10. place \in [1..size -> 1..Len(s)]
    BY <1>7
<1>11. \A n \in 1..size : s[place[n]] \in S /\ Pick(s, S)[n] = s[place[n]]
    <2>1. \A n \in 1..size : s[place[n]] \in S
        BY <1>7
    <2> HIDE DEF place, size
    <2> QED
        BY <1>8, <2>1
<1>12. \A m, n \in 1..size : place[m] = place[n] => m = n
    <2> HIDE DEF place, rank
    <2> QED
        BY <1>7
<1>13. \A i \in 1..Len(s) : s[i] \in S => \E n \in 1..size : place[n] = i
    <2> SUFFICES ASSUME NEW i \in at PROVE place[rank[i]] = i /\ rank[i] \in 1..size
        OBVIOUS
    <2>1. rank[i] \in 1..size
        BY <1>5 DEF Injection
    <2>2. rank[place[rank[i]]] = rank[i] /\ place[rank[i]] \in at
        BY <1>7, <2>1
    <2> HIDE DEF place, rank, at, size
    <2> QED
        BY <1>5, <2>1, <2>2 DEF Injection, IsInjective
<1> HIDE DEF place, size
<1> QED
    BY <1>9, <1>10, <1>11, <1>12, <1>13

\* The identifiers of the items of a kind.
LEMMA IdsOfKind ==
    ASSUME NEW s \in Seq(Item), NEW kind, NEW id
    PROVE  id \in IdsOf(s, kind) <=> \E i \in 1..Len(s) : s[i].kind = kind /\ s[i].id = id
<1>1. DOMAIN s = 1..Len(s)
    OBVIOUS
<1> QED
    BY <1>1 DEF IdsOf, ToSet

\* All but the last element, and the last one.
LEMMA FrontLast ==
    ASSUME NEW T, NEW s \in Seq(T), s # <<>>
    PROVE  /\ Len(s) \in Nat /\ Len(s) > 0
           /\ Front(s) \in Seq(T) /\ Len(Front(s)) = Len(s) - 1
           /\ \A i \in 1..Len(s) - 1 : Front(s)[i] = s[i]
           /\ Last(s) = s[Len(s)] /\ Last(s) \in T
<1>1. Len(s) \in Nat /\ Len(s) > 0
    OBVIOUS
<1>2. \A i \in 1..Len(s) - 1 : i \in 1..Len(s)
    BY <1>1
<1>3. /\ Front(s) \in Seq(T) /\ Len(Front(s)) = Len(s) - 1
      /\ \A i \in 1..Len(s) - 1 : Front(s)[i] = s[i]
    <2>1. Front(s) = [i \in 1..Len(s) - 1 |-> s[i]]
        BY <1>1, <1>2 DEF Front
    <2>2. Len(s) - 1 \in Nat /\ \A i \in 1..Len(s) - 1 : s[i] \in T
        BY <1>1, <1>2
    <2> QED
        BY <2>1, <2>2
<1> QED
    BY <1>1, <1>3 DEF Last

\* Taking off what was just put at the end.
LEMMA FrontConcat ==
    ASSUME NEW T, NEW s \in Seq(T), NEW x \in T
    PROVE  s \o <<x>> # <<>> /\ Front(s \o <<x>>) = s /\ Last(s \o <<x>>) = x
<1> DEFINE t == s \o <<x>>
<1>1. t \in Seq(T) /\ Len(t) = Len(s) + 1 /\ Len(s) \in Nat /\ t[Len(s) + 1] = x
    OBVIOUS
<1>2. \A i \in 1..Len(s) : t[i] = s[i]
    OBVIOUS
<1> HIDE DEF t
<1>3. t # <<>>
    BY <1>1
<1>4. Front(t) \in Seq(T) /\ Len(Front(t)) = Len(s) /\ Last(t) = x
    BY <1>1, <1>3, FrontLast
<1>5. \A i \in 1..Len(s) : Front(t)[i] = s[i]
    BY <1>1, <1>2, <1>3, FrontLast
<1>6. Front(t) = s
    BY <1>1, <1>4, <1>5
<1> QED
    BY <1>3, <1>4, <1>6 DEF t

Message == [output: Seq(Item), done: BOOLEAN, error: BOOLEAN]

\* The fixed items are items.
LEMMA Items ==
    /\ {Text, Blank, Code, Ran} \subseteq Item
    /\ \A c \in Call : CallItem(c) \in Item /\ Result(c) \in Item
    BY DEF Text, Blank, Code, Ran, CallItem, Result, Item

\* Trim, WithText, Ending and WithCalls make lists of items.
LEMMA TrimType ==
    ASSUME NEW s \in Seq(Item)
    PROVE  Trim(s) \in Seq(Item)
    BY FrontLast DEF Trim

\* Text that is added leaves a list of items.
LEMMA WithTextType ==
    ASSUME NEW s \in Seq(Item)
    PROVE  WithText(s) \in Seq(Item)
    BY FrontLast, Items DEF WithText, EndsWith

\* So does the end of a stream,
LEMMA EndingType ==
    ASSUME NEW s \in Seq(Item), NEW closing \in Closings(s)
    PROVE  closing \in Seq(Item) /\ Ending(closing) \in Seq(Item)
<1>1. closing \in Seq(Item)
    <2>1. CASE closing = s
        BY <2>1
    <2>2. CASE closing # s
        <3>1. PICK code \in {s, Front(s)}, rest \in {Blank, Text} :
                 s # <<>> /\ closing = Append(code, rest)
            BY <2>2 DEF Closings
        <3>2. code \in Seq(Item) /\ rest \in Item
            BY <3>1, FrontLast, Items
        <3> QED
            BY <3>1, <3>2
    <2> QED
        BY <2>1, <2>2
<1>2. Trim(closing) \in Seq(Item)
    BY <1>1, TrimType
<1>3. <<Blank>> \in Seq(Item)
    BY Items
<1> QED
    BY <1>1, <1>2, <1>3 DEF Ending

\* and the start of a round.
LEMMA WithCallsType ==
    ASSUME NEW out \in Seq(Item), NEW calls \in Seq(Call)
    PROVE  WithCalls(out, calls) \in Seq(Item)
<1> DEFINE new == Pick(calls, Call \ IdsOf(out, "call"))
<1>1. new \in Seq(Call)
    BY Picked
<1> HIDE DEF new
<1>2. [i \in 1..Len(new) |-> CallItem(new[i])] \in Seq(Item)
    BY <1>1, Items
<1>3. WithCalls(out, calls) = out \o [i \in 1..Len(new) |-> CallItem(new[i])]
    BY DEF WithCalls, new
<1> QED
    BY <1>2, <1>3

\* The batches after a stream are batches of calls, and none that is added is empty.
LEMMA BatchesType ==
    ASSUME TypeOK, NEW out \in Seq(Item)
    PROVE  /\ Batches(out) \in Seq(Seq(Call))
           /\ (\A i \in 1..Len(pending) : pending[i] # <<>>)
                 => (\A i \in 1..Len(Batches(out)) : Batches(out)[i] # <<>>)
<1> DEFINE u == Unhandled(out)
           ids == [i \in 1..Len(u) |-> u[i].id]
           found == IF asked # <<>> THEN asked ELSE ids
<1>1. u \in Seq(Item) /\ \A i \in 1..Len(u) : u[i] \in {CallItem(c) : c \in Call}
    <2> DEFINE open == {CallItem(c) : c \in Call \ IdsOf(prior \o out, "result")}
    <2>1. u = Pick(out, open)
        BY DEF Unhandled
    <2>2. open \subseteq {CallItem(c) : c \in Call}
        OBVIOUS
    <2> HIDE DEF open, u
    <2> QED
        BY <2>1, <2>2, Picked
<1> HIDE DEF u
<1>2. ids \in Seq(Call)
    BY <1>1 DEF CallItem
<1>3. asked \in Seq(Call) /\ pending \in Seq(Seq(Call))
    BY DEF TypeOK
<1>4. found \in Seq(Call)
    BY <1>2, <1>3
<1>5. Batches(out) = IF found = <<>> THEN pending ELSE Append(pending, found)
    BY DEF Batches, u
<1> HIDE DEF found
<1> QED
    BY <1>3, <1>4, <1>5

\* A write stores the message, or is counted as a failure.
LEMMA Writes ==
    ASSUME NEW message, Upsert(message)
    PROVE  \/ stored' = message /\ UNCHANGED <<unsaved, failures>>
           \/ stored' = stored /\ unsaved' = TRUE /\ failures < MaxFailures /\ failures' = failures + 1
    BY DEF Upsert

\* Where the loops lead.
LEMMA AfterToolsPlace ==
    ASSUME NEW out
    PROVE  /\ AfterTools(out) \in {"code", "save"}
           /\ AfterTools(out) = "code" => EndsWith(out, "code") /\ retries < MaxRetries /\ mode.detect
    BY DEF AfterTools

\* A round starts, or its list and batches are kept for what comes after.
LEMMA Proceeds ==
    ASSUME TypeOK, NEW out \in Seq(Item), NEW calls \in Seq(Seq(Call)), Proceed(out, calls)
    PROVE  /\ got' = {}
           /\ \/ /\ pc' = "run" /\ calls # <<>> /\ rounds < MaxRounds
                 /\ batch' = Head(calls) /\ pending' = Tail(calls) /\ rounds' = rounds + 1
                 /\ output' = WithCalls(out, Head(calls))
                 /\ short' = short
              \/ /\ pc' = "limit" /\ calls # <<>> /\ short' = "limit"
                 /\ pending' = calls /\ output' = out /\ UNCHANGED <<batch, rounds>>
              \/ /\ pc' = AfterTools(out) /\ calls = <<>> /\ short' = short
                 /\ pending' = calls /\ output' = out /\ UNCHANGED <<batch, rounds>>
<1>1. pc' = NextRound(out, calls)
    BY DEF Proceed
<1>2. CASE calls = <<>>
    BY <1>1, <1>2, AfterToolsPlace DEF Proceed, NextRound
<1>3. CASE calls # <<>> /\ rounds < MaxRounds
    BY <1>1, <1>3 DEF Proceed, NextRound
<1>4. CASE calls # <<>> /\ ~(rounds < MaxRounds)
    BY <1>1, <1>4 DEF Proceed, NextRound
<1> QED
    BY <1>2, <1>3, <1>4

-----------------------------------------------------------------------------
(* Types                                                                   *)

\* Code runs only when it is the last item and a retry is left.
CodeReady == pc = "code" => EndsWith(output, "code") /\ retries < MaxRetries

Typed == TypeOK /\ CodeReady

\* The first states have the types: an interrupted run left items.
LEMMA TypedInit == Init => Typed
<1> SUFFICES ASSUME Init PROVE Typed
    OBVIOUS
<1>1. mode.left \in Seq(Item)
    BY LeftAssumption DEF Init
<1>2. <<>> \in Seq(Item) /\ <<>> \in Seq(Call) /\ <<>> \in Seq(Seq(Call))
    OBVIOUS
<1>3. 0 \in 0..MaxRounds /\ 0 \in 0..MaxRetries /\ 0 \in 0..MaxStops /\ 0 \in 0..MaxFailures
    BY BoundAssumption
<1>4. stored \in [output: Seq(Item), done: BOOLEAN, error: BOOLEAN]
    BY <1>1 DEF Init
<1> QED
    BY <1>1, <1>2, <1>3, <1>4 DEF Init, Typed, TypeOK, CodeReady, Place

\* A write keeps the types, whether it is done or fails.
LEMMA WriteType ==
    ASSUME TypeOK, NEW message \in Message, Upsert(message)
    PROVE  stored' \in Message /\ unsaved' \in BOOLEAN /\ failures' \in 0..MaxFailures
<1>1. stored \in Message /\ unsaved \in BOOLEAN /\ failures \in 0..MaxFailures
    BY DEF TypeOK, Message
<1>2. failures < MaxFailures => failures + 1 \in 0..MaxFailures
    BY <1>1, BoundAssumption
<1> QED
    BY <1>1, <1>2, Writes

\* The updates of the message make messages.
LEMMA Messages ==
    ASSUME NEW m \in Message
    PROVE  /\ [m EXCEPT !.error = TRUE] \in Message
           /\ \A out \in Seq(Item) : [m EXCEPT !.output = out] \in Message
           /\ \A out \in Seq(Item) : [m EXCEPT !.done = TRUE, !.output = out] \in Message
    BY DEF Message

\* What the last save writes is a message.
LEMMA FinalType ==
    ASSUME TypeOK
    PROVE  Final \in Message
<1>1. stored \in Message /\ output \in Seq(Item)
    BY DEF TypeOK, Message
<1>2. CASE mode.realtime
    BY <1>1, <1>2, Messages DEF Final, Message
<1>3. CASE ~mode.realtime
    BY <1>1, <1>3, Messages DEF Final
<1> QED
    BY <1>2, <1>3

\* The results of calls are items.
LEMMA ResultsType ==
    ASSUME NEW calls \in Seq(Call)
    PROVE  /\ [i \in 1..Len(calls) |-> Result(calls[i])] \in Seq(Item)
           /\ ToSet(calls) \subseteq Call
    BY Items DEF ToSet

\* Counting an execution.
LEMMA ExecuteType ==
    ASSUME NEW f \in [Call -> Nat], NEW c \in Call
    PROVE  [f EXCEPT ![c] = @ + 1] \in [Call -> Nat]
    OBVIOUS

\* The other writes keep the types, too.
LEMMA FilterType ==
    ASSUME TypeOK, Filter
    PROVE  stored' \in Message /\ unsaved' \in BOOLEAN /\ failures' \in 0..MaxFailures
<1>1. stored \in Message /\ unsaved \in BOOLEAN /\ failures \in 0..MaxFailures
    BY DEF TypeOK, Message
<1>2. CASE UNCHANGED <<stored, unsaved, failures>>
    BY <1>1, <1>2
<1>3. CASE Upsert(stored)
    BY <1>1, <1>3, WriteType
<1> QED
    BY <1>2, <1>3 DEF Filter

\* A save while the answer streams keeps the types.
LEMMA RealtimeType ==
    ASSUME TypeOK, NEW out \in Seq(Item), RealtimeSave(out)
    PROVE  stored' \in Message /\ unsaved' \in BOOLEAN /\ failures' \in 0..MaxFailures
<1>1. stored \in Message /\ unsaved \in BOOLEAN /\ failures \in 0..MaxFailures
    BY DEF TypeOK, Message
<1>2. CASE mode.realtime
    <2>1. prior \o out \in Seq(Item)
        BY DEF TypeOK
    <2>2. [stored EXCEPT !.output = prior \o out] \in Message
        BY <1>1, <2>1, Messages
    <2> QED
        BY <1>2, <2>2, WriteType DEF RealtimeSave
<1>3. CASE ~mode.realtime
    BY <1>1, <1>3 DEF RealtimeSave
<1> QED
    BY <1>2, <1>3

\* output_item.added and output_item.done make a list of items.
LEMMA Appends ==
    ASSUME NEW s \in Seq(Item), NEW item \in Item, NEW i \in Nat
    PROVE  [Append(s, item) EXCEPT ![i] = item] \in Seq(Item)
<1> DEFINE a == Append(s, item)
<1>1. a \in Seq(Item)
    OBVIOUS
<1> HIDE DEF a
<1>2. [a EXCEPT ![i] = item] = [k \in 1..Len(a) |-> IF k = i THEN item ELSE a[k]]
    BY <1>1
<1>3. [k \in 1..Len(a) |-> IF k = i THEN item ELSE a[k]] \in Seq(Item)
    BY <1>1
<1> QED
    BY <1>2, <1>3 DEF a

\* What the end of a stream hands on, by the loop that reads it.
Handed(out) ==
    \/ loop = "first" /\ Proceed(out, Batches(out)) /\ UNCHANGED prior
    \/ loop = "tool" /\ Proceed(prior \o out, Batches(out)) /\ prior' = <<>>
    \/ /\ loop = "code" /\ output' = out /\ pending' = Batches(out)
       /\ pc' = AfterTools(out) /\ UNCHANGED <<prior, batch, got, rounds, short>>

\* The types after a round has started or the loop was left.
LEMMA ProceedType ==
    ASSUME Typed, NEW out \in Seq(Item), NEW calls \in Seq(Seq(Call)), Proceed(out, calls),
           retries' = retries
    PROVE  /\ output' \in Seq(Item) /\ pending' \in Seq(Seq(Call)) /\ batch' \in Seq(Call)
           /\ rounds' \in 0..MaxRounds /\ pc' \in Place /\ got' \in SUBSET Nat
           /\ short' \in {"no", "raised", "refused", "limit"} /\ CodeReady'
<1>1. rounds \in 0..MaxRounds /\ batch \in Seq(Call) /\ short \in {"no", "raised", "refused", "limit"}
    BY DEF Typed, TypeOK
<1>2. TypeOK
    BY DEF Typed
<1>3. CASE /\ pc' = "run" /\ calls # <<>> /\ rounds < MaxRounds
           /\ batch' = Head(calls) /\ pending' = Tail(calls) /\ rounds' = rounds + 1
           /\ output' = WithCalls(out, Head(calls))
           /\ short' = short
    <2>1. Head(calls) \in Seq(Call) /\ Tail(calls) \in Seq(Seq(Call))
        BY <1>3
    <2>2. WithCalls(out, Head(calls)) \in Seq(Item)
        BY <2>1, WithCallsType
    <2>3. rounds + 1 \in 0..MaxRounds
        BY <1>1, <1>3, BoundAssumption
    <2> QED
        BY <1>1, <1>2, <1>3, <2>1, <2>2, <2>3, Proceeds DEF CodeReady, Place, Handling
<1>4. CASE pc' = "limit" \/ pc' = AfterTools(out)
    <2>1. got' = {} /\ pc' \in Place /\ pc' # "run"
        BY <1>2, <1>4, Proceeds, AfterToolsPlace DEF Place, Handling
    <2>2. pending' = calls /\ output' = out /\ batch' = batch /\ rounds' = rounds
        BY <1>2, <2>1, Proceeds
    <2>3. short' \in {"no", "raised", "refused", "limit"}
        BY <1>1, <1>2, <2>1, Proceeds
    <2>4. CodeReady'
        BY <1>2, <1>4, <2>2, AfterToolsPlace DEF CodeReady, EndsWith
    <2> QED
        BY <1>1, <2>1, <2>2, <2>3, <2>4
<1>5. got' = {}
    BY <1>2, Proceeds
<1> QED
    BY <1>2, <1>3, <1>4, Proceeds

\* Every step keeps the types.
LEMMA TypedStep ==
    ASSUME Typed, [Next]_vars
    PROVE  Typed'
<1> USE CallAssumption, BoundAssumption
    DEF Typed, TypeOK, CodeReady, Place, Handling, vars, stream, tools, ghosts, ends, faults
<1>a. stored \in Message
    BY DEF Message
<1>1. CASE Prepared
    BY <1>1, SMTT(30) DEF Prepared
<1>2. CASE PrepareRaises
    BY <1>2, SMTT(30) DEF PrepareRaises, Fail
<1>3. CASE Error
    <2>8. stored' \in Message /\ unsaved' \in BOOLEAN /\ failures' \in 0..MaxFailures
        BY <1>3, <1>a, Messages, WriteType DEF Error
    <2> QED
        BY <1>3, <2>8 DEF Error, Message
<1>4. CASE PlainError
    <2>8. stored' \in Message /\ unsaved' \in BOOLEAN /\ failures' \in 0..MaxFailures
        BY <1>4, <1>a, Messages, WriteType DEF PlainError
    <2> QED
        BY <1>4, <2>8 DEF PlainError, Message
<1>5. CASE PlainAnswer
    <2>1. <<Text>> \in Seq(Item)
        BY Items
    <2>2. [stored EXCEPT !.done = TRUE, !.output = <<Text>>] \in Message
        BY <1>a, <2>1, Messages
    <2>3. stored' \in Message /\ unsaved' \in BOOLEAN /\ failures' \in 0..MaxFailures
        BY <1>5, <2>2, WriteType DEF PlainAnswer
    <2> QED
        BY <1>5, <2>3 DEF PlainAnswer, Message
<1>6. CASE PlainOutlet
    <2>8. stored' \in Message /\ unsaved' \in BOOLEAN /\ failures' \in 0..MaxFailures
        BY <1>6, FilterType DEF PlainOutlet
    <2> QED
        BY <1>6, <2>8 DEF PlainOutlet, Message
<1>7. CASE PlainSilent
    BY <1>7, SMTT(30) DEF PlainSilent
<1>8. CASE Load
    BY <1>8, SMTT(30) DEF Load
<1>9. CASE StreamRaises
    BY <1>9, SMTT(30) DEF StreamRaises, Fail
<1>10. CASE Results
    <2>0. batch \in Seq(Call) /\ shown \in SUBSET Call /\ output \in Seq(Item)
        OBVIOUS
    <2>1. [i \in 1..Len(batch) |-> Result(batch[i])] \in Seq(Item) /\ <<Blank>> \in Seq(Item)
        BY <2>0, Items, ResultsType
    <2>2. output' \in Seq(Item)
        BY <1>10, <2>1, SMTT(30) DEF Results
    <2>3. shown' \in SUBSET Call
        BY <1>10, <2>0, ResultsType DEF Results
    <2> QED
        BY <1>10, <2>2, <2>3, SMTT(30) DEF Results
<1>11. CASE ResultsRaise
    BY <1>11, SMTT(30) DEF ResultsRaise, Fail
<1>12. CASE Ask
    BY <1>12, TrimType, SMTT(30) DEF Ask
<1>13. CASE AskRefused
    <2>1. pc' \in Place /\ CodeReady'
        BY <1>13, AfterToolsPlace DEF AskRefused, EndsWith
    <2>2. failures' \in 0..MaxFailures
        BY <1>13, SMTT(30) DEF AskRefused, Fail
    <2> QED
        BY <1>13, <2>1, <2>2, SMTT(30) DEF AskRefused
<1>14. CASE AskRaises
    BY <1>14, SMTT(30) DEF AskRaises, Fail
<1>15. CASE Say
    <2>1. pc' \in Place /\ CodeReady'
        BY <1>15, AfterToolsPlace DEF Say
    <2>8. stored' \in Message /\ unsaved' \in BOOLEAN /\ failures' \in 0..MaxFailures
        BY <1>15, <1>a, Messages, WriteType DEF Say
    <2> QED
        BY <1>15, <2>8, <2>1 DEF Say, Message
<1>16. CASE SayLimit
    <2>1. pc' \in Place /\ CodeReady'
        BY <1>16, AfterToolsPlace DEF SayLimit
    <2>8. stored' \in Message /\ unsaved' \in BOOLEAN /\ failures' \in 0..MaxFailures
        BY <1>16, <1>a, Messages, WriteType DEF SayLimit
    <2> QED
        BY <1>16, <2>8, <2>1 DEF SayLimit, Message
<1>17. CASE RunCode
    <2>1. output # <<>> /\ retries < MaxRetries
        BY <1>17 DEF RunCode, EndsWith
    <2>2. Front(output) \in Seq(Item)
        BY <2>1, FrontLast
    <2>3. Append(Front(output), Ran) \o <<Blank>> \in Seq(Item)
        BY <2>2, Items
    <2> QED
        BY <1>17, <2>1, <2>3, SMTT(30) DEF RunCode
<1>18. CASE AskCode
    BY <1>18, SMTT(30) DEF AskCode
<1>19. CASE Save
    <2>8. stored' \in Message /\ unsaved' \in BOOLEAN /\ failures' \in 0..MaxFailures
        BY <1>19, FinalType, WriteType DEF Save
    <2> QED
        BY <1>19, <2>8 DEF Save, Message
<1>20. CASE Finish
    BY <1>20 DEF Finish
<1>21. CASE Outlet
    <2>8. stored' \in Message /\ unsaved' \in BOOLEAN /\ failures' \in 0..MaxFailures
        BY <1>21, FilterType DEF Outlet
    <2> QED
        BY <1>21, <2>8 DEF Outlet, Message
<1>22. CASE Background
    BY <1>22 DEF Background
<1>23. CASE LateRaises
    BY <1>23, SMTT(30) DEF LateRaises, Fail
<1>24. CASE Close
    BY <1>24 DEF Close
<1>25. CASE SaveCancelled
    <2>8. stored' \in Message /\ unsaved' \in BOOLEAN /\ failures' \in 0..MaxFailures
        BY <1>25, FinalType, WriteType DEF SaveCancelled
    <2> QED
        BY <1>25, <2>8 DEF SaveCancelled, Message
<1>26. CASE ChatText
    <2>1. Text \in Item /\ WithText(output) \in Seq(Item)
        BY Items, WithTextType, TrimType
    <2>2. stored' \in Message /\ unsaved' \in BOOLEAN /\ failures' \in 0..MaxFailures
        BY <1>26, <2>1, RealtimeType DEF ChatText
    <2>3. output' \in Seq(Item) /\ sent' \in Seq(Item)
        BY <1>26, <2>1 DEF ChatText, Deliver
    <2> QED
        BY <1>26, <2>2, <2>3 DEF ChatText, Deliver, Message
<1>27. CASE ChatCode
    <2>1. Code \in Item /\ Append(Trim(output), Code) \in Seq(Item)
        BY Items, WithTextType, TrimType
    <2>2. stored' \in Message /\ unsaved' \in BOOLEAN /\ failures' \in 0..MaxFailures
        BY <1>27, <2>1, RealtimeType DEF ChatCode
    <2>3. output' \in Seq(Item) /\ sent' \in Seq(Item)
        BY <1>27, <2>1 DEF ChatCode, Deliver
    <2> QED
        BY <1>27, <2>2, <2>3 DEF ChatCode, Deliver, Message
<1>28. CASE ChatCall
    <2>1. asked' \in Seq(Call) /\ made' \in Nat
        BY <1>28 DEF ChatCall
    <2> QED
        BY <1>28, <2>1, SMTT(30) DEF ChatCall
<1>29. CASE ResponseText
    <2>1. Text \in Item
        BY <1>29, Items DEF ResponseText
    <2>2. sent' \in Seq(Item) /\ output' \in Seq(Item)
        BY <1>29, <2>1, Appends DEF ResponseText, ResponseItem, Deliver
    <2> QED
        BY <1>29, <2>2, SMTT(30) DEF ResponseText, ResponseItem, Deliver
<1>30. CASE ResponseCall
    <2>1. CallItem(made + 1) \in Item
        BY <1>30, Items DEF ResponseCall
    <2>2. sent' \in Seq(Item) /\ output' \in Seq(Item)
        BY <1>30, <2>1, Appends DEF ResponseCall, ResponseItem, Deliver
    <2>3. made' \in Nat
        BY <1>30 DEF ResponseCall
    <2> QED
        <3>1. UNCHANGED <<mode, pc, loop, prior, tools, retries, shield, ends, stops, asked, stored, unsaved,
                          failures, runs, shown>>
            BY <1>30 DEF ResponseCall, ResponseItem, Deliver
        <3>2. pc = "stream"
            BY <1>30 DEF ResponseCall, ResponseItem, Deliver
        <3>3. CodeReady'
            BY <3>1, <3>2
        <3>4. TypeOK'
            BY <2>2, <2>3, <3>1, SMTT(30)
        <3> QED
            BY <3>3, <3>4
<1>31. CASE ResponseCompleted
    BY <1>31, SMTT(30) DEF ResponseCompleted
<1>32. CASE ErrorChunk
    <2>8. stored' \in Message /\ unsaved' \in BOOLEAN /\ failures' \in 0..MaxFailures
        BY <1>32, <1>a, Messages, WriteType DEF ErrorChunk
    <2> QED
        BY <1>32, <2>8 DEF ErrorChunk, Message
<1>33. CASE Stop
    <2>1. pc' \in Place /\ pc' # "code"
        BY <1>33 DEF Stop
    <2>2. stops' \in 0..MaxStops /\ shield' \in BOOLEAN /\ silent' \in BOOLEAN
        BY <1>33, SMTT(30) DEF Stop
    <2> QED
        BY <1>33, <2>1, <2>2, SMTT(30) DEF Stop
<1>34. CASE Ended
    BY <1>34, SMTT(30) DEF Ended
<1>35. CASE StreamEnds
    <2>0. retries' = retries
        BY <1>35 DEF StreamEnds
    <2>1. PICK closing \in Closings(output) : Handed(Ending(closing))
        BY <1>35 DEF StreamEnds, Handed
    <2> DEFINE out == Ending(closing)
    <2>2. out \in Seq(Item) /\ prior \o out \in Seq(Item)
        BY <2>1, EndingType
    <2> HIDE DEF out
    <2>3. Batches(out) \in Seq(Seq(Call))
        BY <2>2, BatchesType
    <2>4. /\ output' \in Seq(Item) /\ pending' \in Seq(Seq(Call)) /\ batch' \in Seq(Call)
          /\ rounds' \in 0..MaxRounds /\ pc' \in Place /\ got' \in SUBSET Nat
          /\ short' \in {"no", "raised", "refused", "limit"} /\ prior' \in Seq(Item)
          /\ CodeReady'
        <3>1. CASE loop = "first" /\ Proceed(out, Batches(out)) /\ UNCHANGED prior
            BY <2>0, <2>2, <2>3, <3>1, ProceedType
        <3>2. CASE loop = "tool" /\ Proceed(prior \o out, Batches(out)) /\ prior' = <<>>
            <4>1. <<>> \in Seq(Item)
                OBVIOUS
            <4>2. Proceed(prior \o out, Batches(out)) /\ prior' = <<>>
                BY <3>2
            <4> QED
                BY <2>0, <2>2, <2>3, <4>1, <4>2, ProceedType
        <3>3. CASE /\ loop = "code" /\ output' = out /\ pending' = Batches(out)
                   /\ pc' = AfterTools(out) /\ UNCHANGED <<prior, batch, got, rounds, short>>
            BY <1>35, <2>2, <2>3, <3>3, AfterToolsPlace DEF StreamEnds
        <3> QED
            BY <2>1, <3>1, <3>2, <3>3 DEF Handed, out
    <2> QED
        <3>1. sent' \in Seq(Item) /\ asked' \in Seq(Call)
            BY <1>35 DEF StreamEnds
        <3>2. UNCHANGED <<mode, loop, retries, stored, shield, made, runs, shown, silent, unsaved,
                          stops, failures>>
            BY <1>35 DEF StreamEnds
        <3> HIDE CallAssumption, BoundAssumption
            DEF CodeReady, Place, Handling, vars, stream, tools, ghosts, ends, faults
        <3> QED
            BY <2>4, <3>1, <3>2, SMTT(30)
<1>36. CASE \E i \in 1..Len(batch) : Execute(i)
    <2>1. PICK i \in 1..Len(batch) : Execute(i)
        BY <1>36
    <2>2. batch[i] \in Call /\ i \in Nat
        BY SMTT(30)
    <2>3. runs' \in [Call -> Nat]
        BY <2>1, <2>2, ExecuteType DEF Execute
    <2>4. got' \in SUBSET Nat
        BY <2>1, <2>2 DEF Execute
    <2> QED
        BY <2>1, <2>3, <2>4, SMTT(30) DEF Execute
<1>37. CASE UNCHANGED vars
    BY <1>37, SMTT(30)
<1> QED
    BY <1>1, <1>2, <1>3, <1>4, <1>5, <1>6, <1>7, <1>8, <1>9, <1>10, <1>11, <1>12, <1>13, <1>14,
       <1>15, <1>16, <1>17, <1>18, <1>19, <1>20, <1>21, <1>22, <1>23, <1>24, <1>25, <1>26, <1>27,
       <1>28, <1>29, <1>30, <1>31, <1>32, <1>33, <1>34, <1>35, <1>36, <1>37 DEF Next, Chunk, Step

\* The types, for every instance.
THEOREM TypeCorrect == Spec => []TypeOK
<1>1. Init => Typed
    BY TypedInit
<1>2. Typed /\ [Next]_vars => Typed'
    BY TypedStep
<1>3. Typed => TypeOK
    BY DEF Typed
<1> QED
    BY <1>1, <1>2, <1>3, PTL DEF Spec

-----------------------------------------------------------------------------
(* How a completion ends                                                   *)

\* What the writes do to the two flags, unless they fail.
Marked == unsaved' \/ (unsaved' = unsaved /\ stored'.error /\ stored'.done = stored.done)
Same == unsaved' \/ (unsaved' = unsaved /\ stored'.error = stored.error /\ stored'.done = stored.done)
Completed == unsaved' \/ (unsaved' = unsaved /\ stored'.error = stored.error /\ stored'.done)

\* An error that is stored marks the message.
LEMMA Marks ==
    ASSUME stored \in Message, Upsert([stored EXCEPT !.error = TRUE])
    PROVE  Marked
<1>1. [stored EXCEPT !.error = TRUE].error /\ [stored EXCEPT !.error = TRUE].done = stored.done
    BY DEF Message
<1> QED
    BY <1>1, Writes DEF Marked

\* The filters leave the flags,
LEMMA Filters ==
    ASSUME stored \in Message, Filter
    PROVE  Same
    BY Writes DEF Same, Filter

\* as do the saves while the answer streams.
LEMMA RealtimeSaves ==
    ASSUME stored \in Message, NEW out, RealtimeSave(out)
    PROVE  Same
<1> DEFINE message == [stored EXCEPT !.output = prior \o out]
<1>1. message.error = stored.error /\ message.done = stored.done
    BY DEF Message
<1> HIDE DEF message
<1>2. Upsert(message) \/ UNCHANGED <<stored, unsaved, failures>>
    BY DEF RealtimeSave, message
<1> QED
    BY <1>1, <1>2, Writes DEF Same

\* The last save marks the message as done.
LEMMA Finals ==
    ASSUME stored \in Message,
           Upsert(Final)
    PROVE  Completed
<1>1. Final.done /\ Final.error = stored.error
    BY DEF Final, Message
<1> QED
    BY <1>1, Writes DEF Completed

\* After the last write but one the message is done; the shield is up until the
\* save of a stop is over; what cut the answer short is stored or about to be.
Honest ==
    /\ pc \in {"filter", "finish", "outlet", "background"} /\ ~unsaved => stored.done
    /\ pc = "stopped" => shield
    /\ shield => pc \in {"stopped", "over"}
    /\ Settled
    /\ short \in {"limit", "raised"} /\ stops = 0 /\ ~unsaved
          => stored.error \/ pc \in {"say", "limit"}

\* Every step keeps the flags honest.
LEMMA HonestStep ==
    ASSUME Typed, Honest, [Next]_vars
    PROVE  Honest'
<1>a. /\ stored \in Message /\ unsaved \in BOOLEAN /\ shield \in BOOLEAN /\ silent \in BOOLEAN
      /\ stops \in Nat /\ stored.done \in BOOLEAN /\ stored.error \in BOOLEAN
    BY BoundAssumption DEF Typed, TypeOK, Message
<1> USE <1>a DEF Honest, Settled, vars, stream, tools, ghosts, ends, faults, Handling, Bare
<1>1. CASE Prepared
    BY <1>1 DEF Prepared
<1>2. CASE PrepareRaises
    BY <1>2 DEF PrepareRaises, Fail
<1>3. CASE Error
    BY <1>3, Marks DEF Error, Marked
<1>4. CASE PlainError
    BY <1>4, Marks DEF PlainError, Marked
<1>5. CASE PlainAnswer
    <2> DEFINE message == [stored EXCEPT !.done = TRUE, !.output = <<Text>>]
    <2>1. message.done /\ message.error = stored.error
        BY DEF Message
    <2>2. Upsert(message)
        BY <1>5 DEF PlainAnswer
    <2> HIDE DEF message
    <2>3. Completed
        BY <2>1, <2>2, Writes DEF Completed
    <2> QED
        BY <1>5, <2>3 DEF PlainAnswer, Completed
<1>6. CASE PlainOutlet
    BY <1>6, Filters DEF PlainOutlet, Same
<1>7. CASE PlainSilent
    BY <1>7 DEF PlainSilent
<1>8. CASE Load
    BY <1>8 DEF Load
<1>9. CASE StreamRaises
    BY <1>9 DEF StreamRaises, Fail
<1>10. CASE Results
    BY <1>10 DEF Results
<1>11. CASE ResultsRaise
    BY <1>11 DEF ResultsRaise, Fail
<1>12. CASE Ask
    BY <1>12 DEF Ask
<1>13. CASE AskRefused
    BY <1>13, AfterToolsPlace DEF AskRefused, Fail
<1>14. CASE AskRaises
    BY <1>14 DEF AskRaises, Fail
<1>15. CASE Say
    BY <1>15, Marks, AfterToolsPlace DEF Say, Marked
<1>16. CASE SayLimit
    BY <1>16, Marks, AfterToolsPlace DEF SayLimit, Marked
<1>17. CASE RunCode
    BY <1>17 DEF RunCode
<1>18. CASE AskCode
    BY <1>18 DEF AskCode
<1>19. CASE Save
    BY <1>19, Finals DEF Save, Completed
<1>20. CASE Finish
    BY <1>20 DEF Finish
<1>21. CASE Outlet
    BY <1>21, Filters DEF Outlet, Same
<1>22. CASE Background
    BY <1>22 DEF Background
<1>23. CASE LateRaises
    BY <1>23 DEF LateRaises, Fail
<1>24. CASE Close
    BY <1>24 DEF Close
<1>25. CASE SaveCancelled
    BY <1>25, Finals DEF SaveCancelled, Completed
<1>26. CASE ChatText
    BY <1>26, RealtimeSaves DEF ChatText, Deliver, Same
<1>27. CASE ChatCall
    BY <1>27 DEF ChatCall
<1>28. CASE ChatCode
    BY <1>28, RealtimeSaves DEF ChatCode, Deliver, Same
<1>29. CASE ResponseText
    BY <1>29 DEF ResponseText, ResponseItem, Deliver
<1>30. CASE ResponseCall
    BY <1>30 DEF ResponseCall, ResponseItem, Deliver
<1>31. CASE ResponseCompleted
    BY <1>31 DEF ResponseCompleted
<1>32. CASE ErrorChunk
    BY <1>32, Marks DEF ErrorChunk, Marked
<1>33. CASE Stop
    <2>1. stops' # 0 /\ UNCHANGED <<stored, unsaved>>
        BY <1>33 DEF Stop
    <2>2. CASE pc \in Handling
        BY <1>33, <2>1, <2>2 DEF Stop
    <2>3. CASE pc = "closing"
        BY <1>33, <2>1, <2>3 DEF Stop
    <2>4. CASE pc \notin Handling /\ pc # "closing"
        <3>1. pc' = "over" /\ shield' = shield /\ silent' = (silent \/ pc \in Bare)
            BY <1>33, <2>4 DEF Stop
        <3>2. pc \in Bare \/ pc = "filter" \/ pc = "stopped"
            BY <1>33, <2>4 DEF Stop, Typed, TypeOK, Place
        <3> QED
            BY <2>1, <3>1, <3>2
    <2> QED
        BY <2>2, <2>3, <2>4
<1>34. CASE Ended
    BY <1>34 DEF Ended
<1>35. CASE StreamEnds
    <2>1. PICK closing \in Closings(output) : Handed(Ending(closing))
        BY <1>35 DEF StreamEnds, Handed
    <2>2. /\ pc' \in {"run", "limit", "code", "save"}
          /\ short' = short \/ pc' = "limit"
        <3>1. ASSUME NEW out, NEW calls, Proceed(out, calls)
              PROVE  pc' \in {"run", "limit", "code", "save"} /\ (short' = short \/ pc' = "limit")
            BY <3>1, AfterToolsPlace DEF Proceed, NextRound
        <3> QED
            BY <2>1, <3>1, AfterToolsPlace DEF Handed
    <2> QED
        BY <1>35, <2>2 DEF StreamEnds
<1>36. CASE \E i \in 1..Len(batch) : Execute(i)
    BY <1>36 DEF Execute
<1>37. CASE UNCHANGED vars
    BY <1>37
<1> QED
    BY <1>1, <1>2, <1>3, <1>4, <1>5, <1>6, <1>7, <1>8, <1>9, <1>10, <1>11, <1>12, <1>13, <1>14,
       <1>15, <1>16, <1>17, <1>18, <1>19, <1>20, <1>21, <1>22, <1>23, <1>24, <1>25, <1>26, <1>27,
       <1>28, <1>29, <1>30, <1>31, <1>32, <1>33, <1>34, <1>35, <1>36, <1>37 DEF Next, Chunk, Step

\* Unless its path stores nothing or a write failed, a completion leaves a message
\* that is done or has an error, and one that hit the limit of rounds or whose
\* continuation raised has the error.
THEOREM EndsTold == Spec => []EndsExplained
<1>1. Init => Typed /\ Honest
    <2>1. Init => Honest
        BY DEF Init, Honest, Settled
    <2> QED
        BY <2>1, TypedInit
<1>2. Typed /\ Honest /\ [Next]_vars => (Typed /\ Honest)'
    BY TypedStep, HonestStep
<1>3. Honest => EndsExplained
    BY DEF Honest, EndsExplained, Explained
<1> QED
    BY <1>1, <1>2, <1>3, PTL DEF Spec

-----------------------------------------------------------------------------
(* What a shown result survives                                            *)

\* A list that has the results of another.
LEMMA Keeps ==
    ASSUME NEW s \in Seq(Item), NEW t \in Seq(Item),
           \A i \in 1..Len(s) : s[i].kind = "result" => \E j \in 1..Len(t) : t[j] = s[i]
    PROVE  IdsOf(s, "result") \subseteq IdsOf(t, "result")
<1> SUFFICES ASSUME NEW id \in IdsOf(s, "result") PROVE id \in IdsOf(t, "result")
    OBVIOUS
<1>1. PICK i \in 1..Len(s) : s[i].kind = "result" /\ s[i].id = id
    BY IdsOfKind
<1>2. PICK j \in 1..Len(t) : t[j] = s[i]
    BY <1>1
<1> QED
    BY <1>1, <1>2, IdsOfKind

\* Lists that are appended to, trimmed or filled in keep their results.
LEMMA ConcatKeeps ==
    ASSUME NEW s \in Seq(Item), NEW t \in Seq(Item)
    PROVE  /\ s \o t \in Seq(Item)
           /\ IdsOf(s, "result") \subseteq IdsOf(s \o t, "result")
           /\ IdsOf(t, "result") \subseteq IdsOf(s \o t, "result")
<1>1. s \o t \in Seq(Item) /\ Len(s \o t) = Len(s) + Len(t) /\ Len(s) \in Nat /\ Len(t) \in Nat
    OBVIOUS
<1>2. \A i \in 1..Len(s) : i \in 1..Len(s \o t) /\ (s \o t)[i] = s[i]
    BY <1>1
<1>3. \A i \in 1..Len(t) : Len(s) + i \in 1..Len(s \o t) /\ (s \o t)[Len(s) + i] = t[i]
    BY <1>1
<1> QED
    BY <1>1, <1>2, <1>3, Keeps

\* An item at the end takes no result away,
LEMMA AppendKeeps ==
    ASSUME NEW s \in Seq(Item), NEW x \in Item
    PROVE  Append(s, x) \in Seq(Item) /\ IdsOf(s, "result") \subseteq IdsOf(Append(s, x), "result")
<1>1. Append(s, x) \in Seq(Item) /\ Len(Append(s, x)) = Len(s) + 1 /\ Len(s) \in Nat
    OBVIOUS
<1>2. \A i \in 1..Len(s) : i \in 1..Len(Append(s, x)) /\ Append(s, x)[i] = s[i]
    BY <1>1
<1> QED
    BY <1>1, <1>2, Keeps

\* The last item of another kind may go.
LEMMA FrontKeeps ==
    ASSUME NEW s \in Seq(Item), s # <<>>, Last(s).kind # "result"
    PROVE  Front(s) \in Seq(Item) /\ IdsOf(s, "result") \subseteq IdsOf(Front(s), "result")
<1>1. /\ Len(s) \in Nat /\ Len(s) > 0 /\ Front(s) \in Seq(Item) /\ Len(Front(s)) = Len(s) - 1
      /\ Last(s) = s[Len(s)]
    BY FrontLast
<1>2. \A i \in 1..Len(s) - 1 : Front(s)[i] = s[i]
    BY FrontLast
<1>3. ASSUME NEW i \in 1..Len(s), s[i].kind = "result"
      PROVE  \E j \in 1..Len(Front(s)) : Front(s)[j] = s[i]
    <2>1. i # Len(s)
        BY <1>1, <1>3
    <2>2. i \in 1..Len(s) - 1
        BY <1>1, <2>1
    <2> QED
        BY <1>1, <1>2, <2>2
<1> QED
    BY <1>1, <1>3, Keeps

\* nor does a blank text that goes,
LEMMA TrimKeeps ==
    ASSUME NEW s \in Seq(Item)
    PROVE  IdsOf(s, "result") \subseteq IdsOf(Trim(s), "result")
    BY FrontKeeps DEF Trim, Blank

\* nor text that is added,
LEMMA WithTextKeeps ==
    ASSUME NEW s \in Seq(Item)
    PROVE  IdsOf(s, "result") \subseteq IdsOf(WithText(s), "result")
<1>1. CASE EndsWith(s, "text")
    <2>1. Front(s) \in Seq(Item) /\ IdsOf(s, "result") \subseteq IdsOf(Front(s), "result")
        BY <1>1, FrontKeeps DEF EndsWith
    <2>2. IdsOf(Front(s), "result") \subseteq IdsOf(Append(Front(s), Text), "result")
        BY <2>1, AppendKeeps, Items
    <2> QED
        BY <1>1, <2>1, <2>2 DEF WithText
<1>2. CASE ~EndsWith(s, "text")
    BY <1>2, AppendKeeps, Items DEF WithText
<1> QED
    BY <1>1, <1>2

\* nor the end of a stream,
LEMMA EndingKeeps ==
    ASSUME NEW s \in Seq(Item), NEW closing \in Closings(s)
    PROVE  IdsOf(s, "result") \subseteq IdsOf(Ending(closing), "result")
<1>1. closing \in Seq(Item) /\ IdsOf(s, "result") \subseteq IdsOf(closing, "result")
    <2>1. CASE closing = s
        BY <2>1
    <2>2. CASE closing # s
        <3>1. PICK code \in {s, Front(s)}, rest \in {Blank, Text} :
                 s # <<>> /\ Last(s) = Code /\ closing = Append(code, rest)
            BY <2>2 DEF Closings
        <3>2. code \in Seq(Item) /\ rest \in Item /\ IdsOf(s, "result") \subseteq IdsOf(code, "result")
            BY <3>1, FrontKeeps, Items DEF Code
        <3> QED
            BY <3>1, <3>2, AppendKeeps
    <2> QED
        BY <2>1, <2>2
<1>2. IdsOf(closing, "result") \subseteq IdsOf(Trim(closing), "result")
    BY <1>1, TrimKeeps
<1>3. Trim(closing) = <<>> => IdsOf(Trim(closing), "result") = {}
    BY DEF IdsOf, ToSet
<1> QED
    BY <1>1, <1>2, <1>3 DEF Ending

\* nor the start of a round.
LEMMA WithCallsKeeps ==
    ASSUME NEW out \in Seq(Item), NEW calls \in Seq(Call)
    PROVE  IdsOf(out, "result") \subseteq IdsOf(WithCalls(out, calls), "result")
<1> DEFINE new == Pick(calls, Call \ IdsOf(out, "call"))
           more == [i \in 1..Len(new) |-> CallItem(new[i])]
<1>1. new \in Seq(Call)
    BY Picked
<1> HIDE DEF new
<1>2. more \in Seq(Item)
    BY <1>1, Items
<1>3. WithCalls(out, calls) = out \o more
    BY DEF WithCalls, new
<1> HIDE DEF more
<1> QED
    BY <1>2, <1>3, ConcatKeeps

\* The results of a batch are in the list when it is done.
LEMMA ResultsIn ==
    ASSUME NEW out \in Seq(Item), NEW calls \in Seq(Call)
    PROVE  IdsOf(out, "result") \cup ToSet(calls) \subseteq
              IdsOf((out \o [i \in 1..Len(calls) |-> Result(calls[i])]) \o <<Blank>>, "result")
<1> DEFINE all == (out \o [i \in 1..Len(calls) |-> Result(calls[i])]) \o <<Blank>>
           res == [i \in 1..Len(calls) |-> Result(calls[i])]
<1>1. res \in Seq(Item) /\ Len(res) = Len(calls)
    BY ResultsType
<1>2. ToSet(calls) \subseteq IdsOf(res, "result")
    <2> SUFFICES ASSUME NEW c \in ToSet(calls) PROVE c \in IdsOf(res, "result")
        OBVIOUS
    <2>1. PICK i \in 1..Len(calls) : calls[i] = c
        BY DEF ToSet
    <2>2. res[i].kind = "result" /\ res[i].id = c
        BY <2>1 DEF Result
    <2> HIDE DEF res
    <2> QED
        BY <1>1, <2>2, IdsOfKind
<1>3. <<Blank>> \in Seq(Item)
    BY Items
<1> HIDE DEF res
<1>4. /\ out \o res \in Seq(Item)
      /\ IdsOf(out, "result") \subseteq IdsOf(out \o res, "result")
      /\ IdsOf(res, "result") \subseteq IdsOf(out \o res, "result")
    BY <1>1, ConcatKeeps
<1>5. IdsOf(out \o res, "result") \subseteq IdsOf((out \o res) \o <<Blank>>, "result")
    BY <1>3, <1>4, ConcatKeeps
<1>6. all = (out \o res) \o <<Blank>>
    BY DEF res
<1>7. IdsOf(out, "result") \cup ToSet(calls) \subseteq IdsOf(all, "result")
    BY <1>2, <1>4, <1>5, <1>6
<1> QED
    BY <1>7

-----------------------------------------------------------------------------
(* Shown results are kept                                                  *)

\* Where the message may be done.
Late == {"filter", "finish", "outlet", "background", "error", "closing", "stopped", "over"}

\* The results the browser was shown are in the list of items, or, while a
\* continuation streams, in the items before it.
Kept ==
    /\ prior = <<>> => shown \subseteq IdsOf(output, "result")
    /\ pc = "stream" /\ loop = "tool" => shown \subseteq IdsOf(prior, "result")
    /\ pc \in {"prepare", "load", "run", "ask"} \/ (pc = "stream" /\ loop = "first") => prior = <<>>
    /\ pc \in {"prepare", "load", "plain"} \/ (pc = "stream" /\ loop = "first") => shown = {}

\* A message that is done holds them and is not streamed any more.
DoneLate ==
    /\ stored.done => pc \in Late
    /\ ResultsKept

\* Every batch has a call, and the code interpreter's loop runs no tools.
Rounds ==
    /\ \A i \in 1..Len(pending) : pending[i] # <<>>
    /\ pc = "run" => batch # <<>> /\ loop # "code"

CodeFree(s) == \A i \in 1..Len(s) : s[i].kind # "code"

\* The items of the Responses API overwrite each other, but with results shown
\* its list does not end with code, and the code interpreter's loop is not reached.
NoCode ==
    mode.api = "responses" =>
        /\ CodeFree(sent)
        /\ shown # {} =>
              /\ pc \notin {"code", "askCode"} /\ loop # "code"
              /\ pc \in {"limit", "ask", "say"} => ~EndsWith(output, "code")
              /\ pc = "ask" => ~EndsWith(Trim(output), "code")
              /\ pc = "stream" => CodeFree(output) /\ ~EndsWith(prior, "code")

\* A round that starts has a call to execute.
LEMMA ProceedRounds ==
    ASSUME TypeOK, NEW out \in Seq(Item), NEW calls \in Seq(Seq(Call)), Proceed(out, calls),
           \A i \in 1..Len(calls) : calls[i] # <<>>
    PROVE  /\ \A i \in 1..Len(pending') : pending'[i] # <<>>
           /\ pc' = "run" => batch' # <<>>
<1>1. CASE /\ calls # <<>> /\ batch' = Head(calls) /\ pending' = Tail(calls)
    <2>1. Head(calls) = calls[1] /\ Len(calls) \in Nat /\ Len(calls) >= 1
        BY <1>1
    <2>2. /\ Len(Tail(calls)) = Len(calls) - 1
          /\ \A i \in 1..Len(calls) - 1 : Tail(calls)[i] = calls[i + 1]
        BY <1>1
    <2>3. \A i \in 1..Len(calls) - 1 : i + 1 \in 1..Len(calls)
        BY <2>1
    <2> QED
        BY <1>1, <2>1, <2>2, <2>3
<1>2. CASE pc' # "run" /\ pending' = calls
    BY <1>2
<1> QED
    BY <1>1, <1>2, Proceeds, AfterToolsPlace

\* Every step leaves batches that have calls.
LEMMA RoundsStep ==
    ASSUME Typed, Rounds, [Next]_vars
    PROVE  Rounds'
<1> USE DEF Rounds, vars, stream, tools, ghosts, ends, faults
<1>1. CASE Prepared \/ PrepareRaises \/ Error \/ PlainError \/ PlainAnswer \/ PlainOutlet
           \/ PlainSilent \/ Load \/ StreamRaises \/ Results \/ ResultsRaise \/ Ask \/
           AskRaises \/ RunCode \/ AskCode \/ Save \/ Finish \/ Outlet \/ Background \/
           LateRaises \/ Close \/ SaveCancelled \/ ChatText \/ ChatCall \/ ChatCode \/
           ResponseText \/ ResponseCall \/ ResponseCompleted \/ ErrorChunk \/ Stop \/ Ended
    BY <1>1
    DEF Prepared, PrepareRaises, Error, PlainError, PlainAnswer, PlainOutlet, PlainSilent,
        Load, StreamRaises, Results, ResultsRaise, Ask, AskRaises, RunCode, AskCode, Save,
        Finish, Outlet, Background, LateRaises, Close, SaveCancelled, ChatText, ChatCall,
        ChatCode, ResponseText, ResponseCall, ResponseCompleted, ErrorChunk, Stop, Ended,
        Deliver, ResponseItem, Handling
<1>2. CASE AskRefused \/ Say \/ SayLimit
    BY <1>2, AfterToolsPlace
    DEF AskRefused, Say, SayLimit
<1>3. CASE StreamEnds
    <2>1. PICK closing \in Closings(output) : Handed(Ending(closing))
        BY <1>3 DEF StreamEnds, Handed
    <2> DEFINE out == Ending(closing)
    <2>2. TypeOK /\ out \in Seq(Item) /\ prior \o out \in Seq(Item)
        BY EndingType DEF Typed, TypeOK
    <2>3. loop' = loop
        BY <1>3 DEF StreamEnds
    <2> HIDE DEF out
    <2>4. Batches(out) \in Seq(Seq(Call)) /\ \A i \in 1..Len(Batches(out)) : Batches(out)[i] # <<>>
        BY <2>2, BatchesType
    <2>5. CASE loop # "code"
        BY <2>1, <2>2, <2>3, <2>4, <2>5, ProceedRounds DEF Handed, out
    <2>6. CASE loop = "code"
        <3>1. pending' = Batches(out) /\ pc' # "run"
            BY <2>1, <2>6, AfterToolsPlace DEF Handed, out
        <3> QED
            BY <2>4, <3>1
    <2> QED
        BY <2>5, <2>6
<1>4. CASE \E i \in 1..Len(batch) : Execute(i)
    BY <1>4 DEF Execute
<1>5. CASE UNCHANGED vars
    BY <1>5
<1> QED
    BY <1>1, <1>2, <1>3, <1>4, <1>5 DEF Next, Chunk, Step

\* Lists without code stay without it.
LEMMA FreeTrim ==
    ASSUME NEW s \in Seq(Item), CodeFree(s)
    PROVE  CodeFree(Trim(s)) /\ CodeFree(Ending(s)) /\ ~EndsWith(s, "code")
<1>1. CodeFree(Trim(s))
    BY FrontLast, SMTT(30) DEF Trim, CodeFree
<1>2. CodeFree(<<Blank>>)
    BY DEF CodeFree, Blank
<1>3. ~EndsWith(s, "code")
    <2>1. CASE s # <<>>
        <3>1. Len(s) \in Nat /\ Len(s) > 0 /\ Last(s) = s[Len(s)]
            BY <2>1, FrontLast
        <3>2. s[Len(s)].kind # "code"
            BY <3>1 DEF CodeFree
        <3> QED
            BY <3>1, <3>2 DEF EndsWith
    <2> QED
        BY <2>1 DEF EndsWith
<1> QED
    BY <1>1, <1>2, <1>3 DEF Ending

\* A stream of the Responses API leaves its list as it is.
LEMMA FreeEnding ==
    ASSUME mode.api = "responses", NEW s \in Seq(Item), NEW closing \in Closings(s), CodeFree(s)
    PROVE  CodeFree(Ending(closing))
<1>1. closing = s
    BY DEF Closings
<1> QED
    BY <1>1, FreeTrim

\* A list without code at its end does not end with code.
LEMMA FreeConcat ==
    ASSUME NEW s \in Seq(Item), ~EndsWith(s, "code"), NEW t \in Seq(Item), CodeFree(t)
    PROVE  ~EndsWith(s \o t, "code")
<1>1. CASE t = <<>>
    BY <1>1
<1>2. CASE t # <<>>
    <2>1. Len(t) \in Nat /\ Len(t) > 0 /\ Len(s) \in Nat
        BY <1>2
    <2>2. (s \o t)[Len(s) + Len(t)] = t[Len(t)] /\ Len(s \o t) = Len(s) + Len(t)
        BY <2>1
    <2>3. Last(s \o t) = t[Len(t)] /\ t[Len(t)].kind # "code"
        BY <2>1, <2>2 DEF Last, CodeFree
    <2> QED
        BY <2>3 DEF EndsWith
<1> QED
    BY <1>1, <1>2

\* An item of the Responses API brings no code.
LEMMA FreeResponse ==
    ASSUME NEW s \in Seq(Item), CodeFree(s), NEW x \in Item, x.kind # "code", NEW i \in Nat
    PROVE  CodeFree(Append(s, x)) /\ CodeFree([Append(s, x) EXCEPT ![i] = x])
<1> DEFINE a == Append(s, x)
<1>1. a \in Seq(Item) /\ CodeFree(a)
    BY DEF CodeFree
<1> HIDE DEF a
<1>2. [a EXCEPT ![i] = x] = [k \in 1..Len(a) |-> IF k = i THEN x ELSE a[k]]
    BY <1>1
<1>3. CodeFree([k \in 1..Len(a) |-> IF k = i THEN x ELSE a[k]])
    BY <1>1 DEF CodeFree
<1> QED
    BY <1>1, <1>2, <1>3 DEF a

\* After a batch the list ends with a result and a blank text.
LEMMA ResultsEnd ==
    ASSUME NEW out \in Seq(Item), NEW calls \in Seq(Call), calls # <<>>, NEW all,
           all = (out \o [i \in 1..Len(calls) |-> Result(calls[i])]) \o <<Blank>>
    PROVE  ~EndsWith(all, "code") /\ ~EndsWith(Trim(all), "code")
<1> DEFINE res == [i \in 1..Len(calls) |-> Result(calls[i])]
           before == out \o res
<1>1. res \in Seq(Item) /\ res # <<>> /\ CodeFree(res)
    <2>1. res \in Seq(Item) /\ Len(res) = Len(calls)
        BY ResultsType
    <2>2. CodeFree(res)
        BY DEF CodeFree, Result
    <2> HIDE DEF res
    <2> QED
        BY <2>1, <2>2
<1> HIDE DEF res
<1>2. before \in Seq(Item) /\ Len(before) > 0 /\ Len(before) = Len(out) + Len(res)
    BY <1>1
<1>3. Last(before) = res[Len(res)]
    <2>1. Len(res) \in Nat /\ Len(res) > 0 /\ Len(out) \in Nat
        BY <1>1
    <2> QED
        BY <1>1, <1>2, <2>1 DEF Last
<1>4. ~EndsWith(before, "code")
    <2>1. Len(res) \in 1..Len(res)
        BY <1>1
    <2> QED
        BY <1>1, <1>3, <2>1 DEF EndsWith, CodeFree
<1> HIDE DEF before
<1>5. all = before \o <<Blank>>
    BY DEF before, res
<1>6. all # <<>> /\ Last(all) = Blank /\ Front(all) = before
    BY <1>2, <1>5, Items, FrontConcat
<1> QED
    BY <1>4, <1>6 DEF EndsWith, Trim, Blank

\* The settings of a completion are fixed.
LEMMA ModeKept == [Next]_vars => mode' = mode
    BY DEF vars, Next, Chunk, Step, Stop, Ended, 
        Execute, Prepared, PrepareRaises, Error, PlainError, PlainAnswer, PlainOutlet,
        PlainSilent, Load,
        StreamRaises, Results, ResultsRaise, Ask, AskRefused, AskRaises, Say, SayLimit,
        RunCode, AskCode, Save, Finish, Outlet, Background, LateRaises, Close,
        SaveCancelled, ChatText, ChatCall, ChatCode, ResponseText, ResponseCall,
        ResponseCompleted, ErrorChunk,
        StreamEnds,
        Deliver, ResponseItem

\* Every step keeps the lists of the Responses API from ending with code.
LEMMA NoCodeStep ==
    ASSUME Typed, Rounds, Kept, NoCode, [Next]_vars
    PROVE  NoCode'
<1> SUFFICES ASSUME mode.api = "responses", mode'.api = "responses"
             PROVE  /\ CodeFree(sent')
                    /\ shown' # {} =>
                          /\ pc' \notin {"code", "askCode"} /\ loop' # "code"
                          /\ pc' \in {"limit", "ask", "say"} => ~EndsWith(output', "code")
                          /\ pc' = "ask" => ~EndsWith(Trim(output'), "code")
                          /\ pc' = "stream" => CodeFree(output') /\ ~EndsWith(prior', "code")
    <2>1. mode' = mode
        BY ModeKept
    <2> QED
        BY <2>1 DEF NoCode, EndsWith, CodeFree, Trim
<1>a. /\ output \in Seq(Item) /\ prior \in Seq(Item) /\ sent \in Seq(Item) /\ batch \in Seq(Call)
      /\ pc \in Place /\ loop \in {"first", "tool", "code"} /\ CodeFree(<<>>)
    BY DEF Typed, TypeOK, CodeFree
<1>b. /\ CodeFree(sent)
      /\ shown # {} =>
            /\ pc \notin {"code", "askCode"} /\ loop # "code"
            /\ pc \in {"limit", "ask", "say"} => ~EndsWith(output, "code")
            /\ pc = "ask" => ~EndsWith(Trim(output), "code")
            /\ pc = "stream" => CodeFree(output) /\ ~EndsWith(prior, "code")
    BY DEF NoCode
<1>c. /\ pc \in {"prepare", "load", "plain"} \/ (pc = "stream" /\ loop = "first") => shown = {}
      /\ pc = "run" => batch # <<>> /\ loop # "code"
    BY DEF Kept, Rounds
<1> USE <1>b, <1>c DEF vars, stream, tools, ghosts, ends, faults
<1>1. CASE Prepared \/ PrepareRaises \/ Error \/ PlainError \/ PlainAnswer \/ PlainOutlet
           \/ PlainSilent \/ Load \/ ResultsRaise \/ AskRaises \/ RunCode \/ AskCode \/
           Save \/ Finish \/ Outlet \/ Background \/ LateRaises \/ Close \/ SaveCancelled
           \/ ResponseCompleted \/ ErrorChunk \/ Stop \/ Ended
    BY <1>1
    DEF Prepared, PrepareRaises, Error, PlainError, PlainAnswer, PlainOutlet, PlainSilent,
        Load, ResultsRaise, AskRaises, RunCode, AskCode, Save, Finish, Outlet, Background,
        LateRaises, Close, SaveCancelled, ResponseCompleted, ErrorChunk, Stop, Ended,
        Handling
<1>2. CASE AskRefused \/ Say \/ SayLimit
    BY <1>2, AfterToolsPlace
    DEF AskRefused, Say, SayLimit
<1>3. CASE StreamRaises
    BY <1>3, <1>a, FreeTrim DEF StreamRaises
<1>4. CASE Results
    <2>1. ~EndsWith(output', "code") /\ ~EndsWith(Trim(output'), "code")
        BY <1>4, <1>a, ResultsEnd DEF Results
    <2> QED
        BY <1>4, <2>1 DEF Results
<1>5. CASE Ask
    BY <1>5, <1>a DEF Ask
<1>6. CASE ChatText \/ ChatCall \/ ChatCode
    BY <1>6 DEF ChatText, ChatCall, ChatCode
<1>7. CASE ResponseText \/ ResponseCall
    <2>1. PICK x \in Item : x.kind # "code" /\ ResponseItem(x)
        BY <1>7, Items DEF ResponseText, ResponseCall, Text, CallItem
    <2>2. CodeFree(sent') /\ (CodeFree(output) => CodeFree(output'))
        <3>1. /\ sent' = Append(sent, x)
              /\ output' = [Append(output, x) EXCEPT ![Len(sent) + 1] = x]
            BY <2>1 DEF ResponseItem, Deliver
        <3>2. Len(sent) + 1 \in Nat
            BY <1>a
        <3>3. CodeFree(Append(sent, x))
            BY <1>a, <2>1, <3>2, FreeResponse
        <3>4. CodeFree(output) => CodeFree([Append(output, x) EXCEPT ![Len(sent) + 1] = x])
            BY <1>a, <2>1, <3>2, FreeResponse
        <3> QED
            BY <3>1, <3>3, <3>4
    <2>3. UNCHANGED <<pc, loop, prior, shown>> /\ pc = "stream"
        BY <2>1 DEF ResponseItem, Deliver
    <2> QED
        BY <2>2, <2>3
<1>8. CASE StreamEnds
    <2>1. pc = "stream" /\ UNCHANGED <<loop, shown>> /\ sent' = <<>>
        BY <1>8 DEF StreamEnds
    <2>2. PICK closing \in Closings(output) : Handed(Ending(closing))
        BY <1>8 DEF StreamEnds, Handed
    <2>3. CASE shown = {}
        BY <1>a, <2>1, <2>3
    <2>4. CASE shown # {}
        <3> DEFINE out == Ending(closing)
        <3>1. out \in Seq(Item) /\ CodeFree(out)
            BY <1>a, <2>1, <2>4, EndingType, FreeEnding
        <3>2. loop = "tool"
            BY <1>a, <2>1, <2>4
        <3>3. prior \o out \in Seq(Item) /\ ~EndsWith(prior \o out, "code")
            BY <1>a, <2>1, <2>4, <3>1, FreeConcat
        <3>4. TypeOK /\ Batches(out) \in Seq(Seq(Call))
            BY <3>1, BatchesType DEF Typed
        <3>5. Proceed(prior \o out, Batches(out))
            BY <2>2, <3>2 DEF Handed
        <3> HIDE DEF out
        <3>6. pc' \in {"run", "save"} \/ (pc' = "limit" /\ output' = prior \o out)
            BY <3>3, <3>4, <3>5, Proceeds, AfterToolsPlace
        <3> QED
            BY <1>a, <2>1, <3>2, <3>3, <3>6
    <2> QED
        BY <2>3, <2>4
<1>9. CASE \E i \in 1..Len(batch) : Execute(i)
    BY <1>9 DEF Execute
<1>10. CASE UNCHANGED vars
    BY <1>10 DEF EndsWith, CodeFree, Trim
<1> QED
    BY <1>1, <1>2, <1>3, <1>4, <1>5, <1>6, <1>7, <1>8, <1>9, <1>10 DEF Next, Chunk, Step

\* Every step keeps the results in a list.
LEMMA KeptStep ==
    ASSUME Typed, Rounds, NoCode, Kept, [Next]_vars
    PROVE  Kept'
<1>a. /\ output \in Seq(Item) /\ prior \in Seq(Item) /\ batch \in Seq(Call)
      /\ loop \in {"first", "tool", "code"} /\ IdsOf(<<>>, "result") = {}
    BY DEF Typed, TypeOK, IdsOf, ToSet
<1> USE DEF Kept, vars, stream, tools, ghosts, ends, faults
<1>1. CASE Prepared \/ PrepareRaises \/ Error \/ PlainError \/ PlainAnswer \/ PlainOutlet
           \/ PlainSilent \/ Load \/ StreamRaises \/ ResultsRaise \/ AskRaises \/ AskCode
           \/ Save \/ Finish \/ Outlet \/ Background \/ LateRaises \/ Close \/
           SaveCancelled \/ ChatCall \/ ErrorChunk \/ Stop \/ Ended
    BY <1>1
    DEF Prepared, PrepareRaises, Error, PlainError, PlainAnswer, PlainOutlet, PlainSilent,
        Load, StreamRaises, ResultsRaise, AskRaises, AskCode, Save, Finish, Outlet,
        Background, LateRaises, Close, SaveCancelled, ChatCall, ErrorChunk, Stop, Ended,
        Handling
<1>2. CASE AskRefused \/ Say \/ SayLimit
    BY <1>2, AfterToolsPlace
    DEF AskRefused, Say, SayLimit
<1>3. CASE ChatText \/ ChatCode
    <2>1. /\ IdsOf(output, "result") \subseteq IdsOf(WithText(output), "result")
          /\ IdsOf(output, "result") \subseteq IdsOf(Append(Trim(output), Code), "result")
        BY <1>a, WithTextKeeps, TrimKeeps, TrimType, AppendKeeps, Items
    <2>2. /\ output' \in {WithText(output), Append(Trim(output), Code)}
          /\ UNCHANGED <<pc, loop, prior, shown>>
        BY <1>3 DEF ChatText, ChatCode, Deliver
    <2> QED
        BY <2>1, <2>2
<1>4. CASE ResponseText \/ ResponseCall \/ ResponseCompleted
    <2>1. UNCHANGED <<pc, loop, prior, shown>> /\ pc = "stream" /\ mode.api = "responses"
        BY <1>4 DEF ResponseText, ResponseCall, ResponseCompleted, ResponseItem, Deliver
    <2>2. prior = <<>> => shown = {}
        BY <1>a, <2>1 DEF NoCode
    <2> QED
        BY <2>1, <2>2
<1>5. CASE RunCode
    <2>1. output # <<>> /\ Last(output).kind # "result"
        BY <1>5 DEF RunCode, Typed, CodeReady, EndsWith
    <2>2. Front(output) \in Seq(Item) /\ IdsOf(output, "result") \subseteq IdsOf(Front(output), "result")
        BY <1>a, <2>1, FrontKeeps
    <2> DEFINE ran == Append(Front(output), Ran)
    <2>3. ran \in Seq(Item) /\ IdsOf(Front(output), "result") \subseteq IdsOf(ran, "result")
        BY <2>2, AppendKeeps, Items
    <2> HIDE DEF ran
    <2>4. <<Blank>> \in Seq(Item)
        BY Items
    <2>5. IdsOf(ran, "result") \subseteq IdsOf(ran \o <<Blank>>, "result")
        BY <2>3, <2>4, ConcatKeeps
    <2>6. output' = ran \o <<Blank>> /\ UNCHANGED <<prior, shown>> /\ pc' = "askCode"
        BY <1>5 DEF RunCode, ran
    <2> QED
        BY <2>2, <2>3, <2>5, <2>6
<1>6. CASE Results
    <2> DEFINE all == (output \o [i \in 1..Len(batch) |-> Result(batch[i])]) \o <<Blank>>
    <2>1. IdsOf(output, "result") \cup ToSet(batch) \subseteq IdsOf(all, "result")
        BY <1>a, ResultsIn
    <2>2. /\ output' = all /\ prior' = prior /\ shown' = shown \cup ToSet(batch)
          /\ pc = "run" /\ pc' = "ask"
        BY <1>6 DEF Results
    <2> HIDE DEF all
    <2> QED
        BY <2>1, <2>2
<1>7. CASE Ask
    <2>1. IdsOf(output, "result") \subseteq IdsOf(Trim(output), "result")
        BY <1>a, TrimKeeps
    <2>2. /\ prior' = Trim(output) /\ output' = <<>> /\ shown' = shown
          /\ pc = "ask" /\ pc' = "stream" /\ loop' = "tool"
        BY <1>7 DEF Ask
    <2>3. shown \subseteq IdsOf(Trim(output), "result")
        BY <2>1, <2>2
    <2>4. prior' = <<>> => shown' = {}
        BY <1>a, <2>2, <2>3
    <2> QED
        BY <2>2, <2>3, <2>4
<1>8. CASE StreamEnds
    <2>1. pc = "stream" /\ UNCHANGED <<loop, shown>>
        BY <1>8 DEF StreamEnds
    <2>2. PICK closing \in Closings(output) : Handed(Ending(closing))
        BY <1>8 DEF StreamEnds, Handed
    <2> DEFINE out == Ending(closing)
    <2>3. /\ out \in Seq(Item) /\ prior \o out \in Seq(Item)
          /\ IdsOf(output, "result") \subseteq IdsOf(out, "result")
          /\ IdsOf(prior, "result") \subseteq IdsOf(prior \o out, "result")
        BY <1>a, EndingType, EndingKeeps, ConcatKeeps
    <2>4. TypeOK /\ Batches(out) \in Seq(Seq(Call))
        BY <2>3, BatchesType DEF Typed
    <2>5. Handed(out)
        BY <2>2
    <2> HIDE DEF out
    <2>6. ASSUME NEW all \in Seq(Item), Proceed(all, Batches(out))
          PROVE  /\ pc' \in {"run", "limit", "code", "save"}
                 /\ IdsOf(all, "result") \subseteq IdsOf(output', "result")
        <3>1. \A calls \in Seq(Seq(Call)) : calls # <<>> => Head(calls) \in Seq(Call)
            OBVIOUS
        <3>2. Batches(out) # <<>> =>
                 IdsOf(all, "result") \subseteq IdsOf(WithCalls(all, Head(Batches(out))), "result")
            BY <2>4, <3>1, WithCallsKeeps
        <3> QED
            BY <2>4, <2>6, <3>2, Proceeds, AfterToolsPlace
    <2>7. CASE loop = "first"
        BY <2>1, <2>3, <2>5, <2>6, <2>7 DEF Handed
    <2>8. CASE loop = "tool"
        <3>1. Proceed(prior \o out, Batches(out)) /\ prior' = <<>>
            BY <2>5, <2>8 DEF Handed
        <3>2. /\ pc' \in {"run", "limit", "code", "save"}
              /\ IdsOf(prior \o out, "result") \subseteq IdsOf(output', "result")
            BY <2>3, <2>6, <3>1
        <3> QED
            BY <2>1, <2>3, <2>8, <3>1, <3>2
    <2>9. CASE loop = "code"
        <3>1. output' = out /\ prior' = prior /\ pc' \in {"code", "save"}
            BY <2>5, <2>9, AfterToolsPlace DEF Handed
        <3> QED
            BY <2>1, <2>3, <3>1
    <2> QED
        BY <1>a, <2>7, <2>8, <2>9
<1>9. CASE \E i \in 1..Len(batch) : Execute(i)
    BY <1>9 DEF Execute
<1>10. CASE UNCHANGED vars
    BY <1>10
<1> QED
    BY <1>1, <1>2, <1>3, <1>4, <1>5, <1>6, <1>7, <1>8, <1>9, <1>10 DEF Next, Chunk, Step

\* What the writes before the last one leave alone.
LEMMA WritesLeave ==
    ASSUME stored \in Message
    PROVE  /\ Upsert([stored EXCEPT !.error = TRUE]) \/ Filter
                 => stored'.done = stored.done /\ stored'.output = stored.output
           /\ \A out : RealtimeSave(out) => stored'.done = stored.done
           /\ unsaved => \A message : Upsert(message) => unsaved'
<1>1. /\ [stored EXCEPT !.error = TRUE].done = stored.done
      /\ [stored EXCEPT !.error = TRUE].output = stored.output
    BY DEF Message
<1>2. Upsert([stored EXCEPT !.error = TRUE]) \/ Filter
         => stored'.done = stored.done /\ stored'.output = stored.output
    BY <1>1 DEF Upsert, Filter
<1>3. ASSUME NEW out, RealtimeSave(out)
      PROVE  stored'.done = stored.done
    <2> DEFINE message == [stored EXCEPT !.output = prior \o out]
    <2>1. message.done = stored.done
        BY DEF Message
    <2> HIDE DEF message
    <2>2. Upsert(message) \/ stored' = stored
        BY <1>3 DEF RealtimeSave, message
    <2> QED
        BY <2>1, <2>2 DEF Upsert
<1>4. unsaved => \A message : Upsert(message) => unsaved'
    BY DEF Upsert
<1> QED
    BY <1>2, <1>3, <1>4

\* The last write stores the items, or fails.
LEMMA FinalItems ==
    ASSUME stored \in Message, output \in Seq(Item), ~mode.realtime,
           Upsert(Final)
    PROVE  unsaved' \/ stored'.output = output
<1>1. Final.output = output
    BY DEF Final, Message
<1> QED
    BY <1>1 DEF Upsert

\* Every step keeps them in the message that is done.
LEMMA DoneLateStep ==
    ASSUME Typed, Kept, DoneLate, [Next]_vars
    PROVE  DoneLate'
<1>a. /\ stored \in Message /\ output \in Seq(Item) /\ unsaved \in BOOLEAN
      /\ mode.realtime \in BOOLEAN
    BY DEF Typed, TypeOK, Message
<1> USE <1>a DEF DoneLate, ResultsKept, Late, vars, stream, tools, ghosts, ends, faults
<1>1. CASE Prepared \/ PrepareRaises \/ PlainSilent \/ Load \/ StreamRaises \/ Results \/
           ResultsRaise \/ Ask \/ AskRefused \/ AskRaises \/ RunCode \/ AskCode \/ Finish
           \/ Background \/ LateRaises \/ Close \/ ChatCall \/ ResponseText \/ ResponseCall
           \/ ResponseCompleted \/ Stop \/ Ended
    BY <1>1
    DEF Prepared, PrepareRaises, PlainSilent, Load, StreamRaises, Results, ResultsRaise,
        Ask, AskRefused, AskRaises, RunCode, AskCode, Finish, Background, LateRaises, Close,
        ChatCall, ResponseText, ResponseCall, ResponseCompleted, Stop, Ended, Handling,
        Deliver, ResponseItem
<1>2. CASE Error \/ PlainOutlet \/ Outlet \/ PlainError \/ Say \/ SayLimit \/ ErrorChunk
    <2>1. stored'.done = stored.done /\ stored'.output = stored.output
        BY <1>2, WritesLeave
        DEF Error, PlainOutlet, Outlet, PlainError, Say, SayLimit, ErrorChunk
    <2>2. unsaved => unsaved'
        BY <1>2, WritesLeave
        DEF Error, PlainOutlet, Outlet, PlainError, Say, SayLimit, ErrorChunk, Filter
    <2>3. /\ UNCHANGED <<mode, prior, shown>>
          /\ pc' \in Late \/ pc \notin Late
        BY <1>2 DEF Error, PlainOutlet, Outlet, PlainError, Say, SayLimit, ErrorChunk
    <2>4. DoneLate /\ unsaved' \in BOOLEAN
        BY <1>2, TypedStep DEF Typed, TypeOK
    <2> QED
        BY <2>1, <2>2, <2>3, <2>4
<1>3. CASE ChatText \/ ChatCode
    <2>1. ~stored'.done
        BY <1>3, WritesLeave DEF ChatText, ChatCode, Deliver
    <2> QED
        BY <2>1
<1>4. CASE PlainAnswer
    <2>1. shown' = {} /\ pc' = "filter"
        BY <1>4 DEF PlainAnswer, Kept
    <2> QED
        BY <2>1
<1>5. CASE Save \/ SaveCancelled
    <2>1. /\ UNCHANGED <<mode, prior, output, shown>> /\ pc' \in Late
          /\ Upsert(Final)
        BY <1>5 DEF Save, SaveCancelled
    <2>2. ~mode.realtime => unsaved' \/ stored'.output = output
        BY <2>1, FinalItems
    <2> QED
        BY <2>1, <2>2 DEF Kept
<1>6. CASE StreamEnds
    <2>1. stored' = stored /\ pc = "stream"
        BY <1>6 DEF StreamEnds
    <2> QED
        BY <2>1
<1>7. CASE \E i \in 1..Len(batch) : Execute(i)
    BY <1>7 DEF Execute
<1>8. CASE UNCHANGED vars
    BY <1>8
<1> QED
    BY <1>1, <1>2, <1>3, <1>4, <1>5, <1>6, <1>7, <1>8 DEF Next, Chunk, Step

\* Every result the browser was shown is in the message that is done.
THEOREM ResultsStay == Spec => []ResultsKept
<1> DEFINE Inv == Typed /\ Rounds /\ NoCode /\ Kept /\ DoneLate
<1>1. Init => Inv
    BY TypedInit
    DEF Init, Rounds, NoCode, Kept, DoneLate, ResultsKept, CodeFree
<1>2. Inv /\ [Next]_vars => Inv'
    BY TypedStep, RoundsStep, NoCodeStep, KeptStep, DoneLateStep
<1>3. Inv => ResultsKept
    BY DEF DoneLate
<1> QED
    BY <1>1, <1>2, <1>3, PTL DEF Spec

-----------------------------------------------------------------------------
(* Calls and their results                                                 *)

\* The numbers in a concatenation are those of its parts.
LEMMA IdsConcat ==
    ASSUME NEW s \in Seq(Item), NEW t \in Seq(Item), NEW kind
    PROVE  s \o t \in Seq(Item) /\ IdsOf(s \o t, kind) = IdsOf(s, kind) \cup IdsOf(t, kind)
<1>1. s \o t \in Seq(Item) /\ Len(s \o t) = Len(s) + Len(t) /\ Len(s) \in Nat /\ Len(t) \in Nat
    OBVIOUS
<1>2. \A i \in 1..Len(s) : i \in 1..Len(s \o t) /\ (s \o t)[i] = s[i]
    BY <1>1
<1>3. \A i \in 1..Len(t) : Len(s) + i \in 1..Len(s \o t) /\ (s \o t)[Len(s) + i] = t[i]
    BY <1>1
<1>4. \A i \in 1..Len(s \o t) : i \in 1..Len(s) \/ \E j \in 1..Len(t) : i = Len(s) + j
    <2> TAKE i \in 1..Len(s \o t)
    <2>1. i \in Nat /\ (i <= Len(s) \/ (i - Len(s) \in 1..Len(t) /\ i = Len(s) + (i - Len(s))))
        BY <1>1
    <2> QED
        BY <1>1, <2>1
<1> DEFINE all == s \o t
<1>5. ASSUME NEW id \in IdsOf(all, kind)
      PROVE  id \in IdsOf(s, kind) \cup IdsOf(t, kind)
    <2>1. PICK i \in 1..Len(all) : all[i].kind = kind /\ all[i].id = id
        <3>1. all \in Seq(Item)
            BY <1>1
        <3> HIDE DEF all
        <3> QED
            BY <1>5, <3>1, IdsOfKind
    <2>2. CASE i \in 1..Len(s)
        <3>1. s[i].kind = kind /\ s[i].id = id
            BY <1>2, <2>1, <2>2
        <3> QED
            BY <2>2, <3>1, IdsOfKind
    <2>3. CASE \E j \in 1..Len(t) : i = Len(s) + j
        <3>1. PICK j \in 1..Len(t) : i = Len(s) + j
            BY <2>3
        <3>2. t[j].kind = kind /\ t[j].id = id
            BY <1>3, <2>1, <3>1
        <3> QED
            BY <3>2, IdsOfKind
    <2> QED
        BY <1>4, <2>2, <2>3
<1>6. ASSUME NEW id \in IdsOf(s, kind)
      PROVE  id \in IdsOf(all, kind)
    <2>1. PICK i \in 1..Len(s) : s[i].kind = kind /\ s[i].id = id
        BY IdsOfKind
    <2>2. i \in 1..Len(all) /\ all[i].kind = kind /\ all[i].id = id
        BY <1>2, <2>1
    <2> QED
        BY <1>1, <2>2, IdsOfKind
<1>7. ASSUME NEW id \in IdsOf(t, kind)
      PROVE  id \in IdsOf(all, kind)
    <2>1. PICK i \in 1..Len(t) : t[i].kind = kind /\ t[i].id = id
        BY IdsOfKind
    <2>2. Len(s) + i \in 1..Len(all) /\ all[Len(s) + i].kind = kind /\ all[Len(s) + i].id = id
        BY <1>3, <2>1
    <2> QED
        BY <1>1, <2>2, IdsOfKind
<1> QED
    BY <1>1, <1>5, <1>6, <1>7

\* Lists that differ in texts and code at the end only.
SameCalls(s, t) ==
    \E m \in Nat :
        /\ m <= Len(s) /\ m <= Len(t)
        /\ \A i \in 1..m : s[i] = t[i]
        /\ \A i \in m + 1..Len(s) : s[i].kind \in {"text", "code"}
        /\ \A i \in m + 1..Len(t) : t[i].kind \in {"text", "code"}

\* SameCalls relates a list to itself,
LEMMA SameSelf ==
    ASSUME NEW s \in Seq(Item)
    PROVE  SameCalls(s, s)
<1>1. Len(s) \in Nat /\ \A i \in Len(s) + 1..Len(s) : FALSE
    OBVIOUS
<1> QED
    BY <1>1 DEF SameCalls

\* and follows from one change after the other.
LEMMA SameBoth ==
    ASSUME NEW s \in Seq(Item), NEW t \in Seq(Item), NEW u \in Seq(Item),
           SameCalls(s, t), SameCalls(t, u)
    PROVE  SameCalls(s, u)
<1>0. Len(s) \in Nat /\ Len(t) \in Nat /\ Len(u) \in Nat
    OBVIOUS
<1>1. PICK m \in Nat : /\ m <= Len(s) /\ m <= Len(t)
                       /\ \A i \in 1..m : s[i] = t[i]
                       /\ \A i \in m + 1..Len(s) : s[i].kind \in {"text", "code"}
                       /\ \A i \in m + 1..Len(t) : t[i].kind \in {"text", "code"}
    BY DEF SameCalls
<1>2. PICK n \in Nat : /\ n <= Len(t) /\ n <= Len(u)
                       /\ \A i \in 1..n : t[i] = u[i]
                       /\ \A i \in n + 1..Len(t) : t[i].kind \in {"text", "code"}
                       /\ \A i \in n + 1..Len(u) : u[i].kind \in {"text", "code"}
    BY DEF SameCalls
<1>3. CASE m <= n
    <2>1. m <= Len(s) /\ m <= Len(u) /\ \A i \in 1..m : s[i] = u[i]
        BY <1>0, <1>1, <1>2, <1>3
    <2>2. \A i \in m + 1..Len(u) : u[i].kind \in {"text", "code"}
        <3> TAKE i \in m + 1..Len(u)
        <3>1. CASE i <= n
            BY <1>0, <1>1, <1>2, <3>1
        <3>2. CASE ~(i <= n)
            BY <1>0, <1>2, <3>2
        <3> QED
            BY <3>1, <3>2
    <2> QED
        BY <1>1, <2>1, <2>2 DEF SameCalls
<1>4. CASE n < m
    <2>1. n <= Len(s) /\ n <= Len(u) /\ \A i \in 1..n : s[i] = u[i]
        BY <1>0, <1>1, <1>2, <1>4
    <2>2. \A i \in n + 1..Len(s) : s[i].kind \in {"text", "code"}
        <3> TAKE i \in n + 1..Len(s)
        <3>1. CASE i <= m
            BY <1>0, <1>1, <1>2, <3>1
        <3>2. CASE ~(i <= m)
            BY <1>0, <1>1, <3>2
        <3> QED
            BY <3>1, <3>2
    <2> QED
        BY <1>2, <2>1, <2>2 DEF SameCalls
<1> QED
    BY <1>3, <1>4

\* A text or code that goes keeps the calls and results,
LEMMA SameFront ==
    ASSUME NEW s \in Seq(Item), s # <<>>, Last(s).kind \in {"text", "code"}
    PROVE  Front(s) \in Seq(Item) /\ SameCalls(s, Front(s))
<1>1. /\ Len(s) \in Nat /\ Len(s) > 0 /\ Front(s) \in Seq(Item) /\ Len(Front(s)) = Len(s) - 1
      /\ Last(s) = s[Len(s)]
    BY FrontLast
<1>2. \A i \in 1..Len(s) - 1 : Front(s)[i] = s[i]
    BY FrontLast
<1> DEFINE m == Len(s) - 1
<1>3. m \in Nat /\ m <= Len(s) /\ m <= Len(Front(s))
    BY <1>1
<1>4. /\ \A i \in m + 1..Len(s) : s[i].kind \in {"text", "code"}
      /\ \A i \in m + 1..Len(Front(s)) : FALSE
    <2>1. \A i \in m + 1..Len(s) : i = Len(s)
        BY <1>1
    <2> QED
        BY <1>1, <2>1
<1> QED
    BY <1>1, <1>2, <1>3, <1>4 DEF SameCalls

\* one that comes does, too,
LEMMA SameAppend ==
    ASSUME NEW s \in Seq(Item), NEW x \in Item, x.kind \in {"text", "code"}
    PROVE  Append(s, x) \in Seq(Item) /\ SameCalls(s, Append(s, x))
<1> DEFINE t == Append(s, x)
           m == Len(s)
<1>1. t \in Seq(Item) /\ Len(t) = m + 1 /\ m \in Nat /\ t[m + 1] = x /\ \A i \in 1..m : t[i] = s[i]
    OBVIOUS
<1> HIDE DEF t
<1>2. /\ \A i \in m + 1..Len(s) : FALSE
      /\ \A i \in m + 1..Len(t) : t[i].kind \in {"text", "code"}
    <2>1. \A i \in m + 1..Len(t) : i = m + 1
        BY <1>1
    <2> QED
        BY <1>1, <2>1
<1>3. SameCalls(s, t)
    BY <1>1, <1>2 DEF SameCalls
<1> QED
    BY <1>1, <1>3 DEF t

\* and so do a blank text that goes,
LEMMA SameTrim ==
    ASSUME NEW s \in Seq(Item)
    PROVE  SameCalls(s, Trim(s))
    BY SameFront, SameSelf DEF Trim, Blank

\* text that is added,
LEMMA SameWithText ==
    ASSUME NEW s \in Seq(Item)
    PROVE  SameCalls(s, WithText(s))
<1>0. Text \in Item /\ Text.kind = "text"
    BY Items DEF Text
<1>1. CASE EndsWith(s, "text")
    <2>1. Front(s) \in Seq(Item) /\ SameCalls(s, Front(s))
        BY <1>1, SameFront DEF EndsWith
    <2>2. Append(Front(s), Text) \in Seq(Item) /\ SameCalls(Front(s), Append(Front(s), Text))
        BY <1>0, <2>1, SameAppend
    <2>3. SameCalls(s, Append(Front(s), Text))
        BY <2>1, <2>2, SameBoth
    <2> QED
        BY <1>1, <2>3 DEF WithText
<1>2. CASE ~EndsWith(s, "text")
    BY <1>0, <1>2, SameAppend, SameSelf DEF WithText
<1> QED
    BY <1>1, <1>2

\* and the end of a stream.
LEMMA SameEnding ==
    ASSUME NEW s \in Seq(Item), NEW closing \in Closings(s)
    PROVE  SameCalls(s, Ending(closing))
<1>1. closing \in Seq(Item) /\ Ending(closing) \in Seq(Item) /\ Trim(closing) \in Seq(Item)
    BY EndingType, TrimType
<1>2. SameCalls(s, closing)
    <2>1. CASE closing = s
        BY <2>1, SameSelf
    <2>2. CASE closing # s
        <3>1. PICK code \in {s, Front(s)}, rest \in {Blank, Text} :
                 s # <<>> /\ Last(s) = Code /\ closing = Append(code, rest)
            BY <2>2 DEF Closings
        <3>2. rest \in Item /\ rest.kind = "text" /\ Last(s).kind = "code"
            BY <3>1, Items DEF Blank, Text, Code
        <3>3. code \in Seq(Item) /\ SameCalls(s, code)
            BY <3>1, <3>2, SameFront, SameSelf
        <3>4. SameCalls(code, closing)
            BY <3>1, <3>2, <3>3, SameAppend
        <3> QED
            BY <1>1, <3>3, <3>4, SameBoth
    <2> QED
        BY <2>1, <2>2
<1>3. SameCalls(closing, Trim(closing))
    BY <1>1, SameTrim
<1>4. SameCalls(s, Trim(closing))
    BY <1>1, <1>2, <1>3, SameBoth
<1>5. <<>> \in Seq(Item) /\ SameCalls(<<>>, <<Blank>>) /\ <<Blank>> \in Seq(Item)
    <2>1. Append(<<>>, Blank) = <<Blank>> /\ Blank \in Item /\ Blank.kind = "text"
        BY Items DEF Blank
    <2>2. <<>> \in Seq(Item)
        OBVIOUS
    <2> QED
        BY <2>1, <2>2, SameAppend
<1> QED
    BY <1>1, <1>4, <1>5, SameBoth DEF Ending

\* The numbers are the same, then,
LEMMA SameIds ==
    ASSUME NEW s \in Seq(Item), NEW t \in Seq(Item), SameCalls(s, t), NEW kind \in {"call", "result"}
    PROVE  IdsOf(s, kind) = IdsOf(t, kind)
<1>0. Len(s) \in Nat /\ Len(t) \in Nat
    OBVIOUS
<1>1. PICK m \in Nat : /\ m <= Len(s) /\ m <= Len(t)
                       /\ \A i \in 1..m : s[i] = t[i]
                       /\ \A i \in m + 1..Len(s) : s[i].kind \in {"text", "code"}
                       /\ \A i \in m + 1..Len(t) : t[i].kind \in {"text", "code"}
    BY DEF SameCalls
<1>2. \A i \in 1..Len(s) : s[i].kind = kind => i \in 1..Len(t) /\ s[i] = t[i]
    BY <1>0, <1>1
<1>3. \A i \in 1..Len(t) : t[i].kind = kind => i \in 1..Len(s) /\ s[i] = t[i]
    BY <1>0, <1>1
<1>4. \A id : id \in IdsOf(s, kind) <=> id \in IdsOf(t, kind)
    BY <1>2, <1>3, IdsOfKind
<1> QED
    BY <1>4

\* Calls and results in a list.
Numbers(s) == IdsOf(s, "call") \cup IdsOf(s, "result")

\* Calls the provider may still make.
New == {c \in Call : c > made /\ made + 1..c \subseteq Call}

\* Calls of a list are among those or have one result, later in the list.
PairedAt(s, i) ==
    \E j \in i + 1..Len(s) : s[j] = Result(s[i].id) /\ \A k \in 1..Len(s) \ {j} : s[k] # s[j]
Served(s, n, those) ==
    \A i \in 1..Len(s) : s[i].kind = "call" /\ s[i].id <= n => s[i].id \in those \/ PairedAt(s, i)

DistinctCalls(s) ==
    \A i, j \in 1..Len(s) : s[i].kind = "call" /\ s[j].kind = "call" /\ s[i].id = s[j].id => i = j

\* calls that differed still do,
LEMMA SameDistinct ==
    ASSUME NEW s \in Seq(Item), NEW t \in Seq(Item), SameCalls(s, t), DistinctCalls(s)
    PROVE  DistinctCalls(t)
<1>0. Len(s) \in Nat /\ Len(t) \in Nat
    OBVIOUS
<1>1. PICK m \in Nat : /\ m <= Len(s) /\ m <= Len(t)
                       /\ \A i \in 1..m : s[i] = t[i]
                       /\ \A i \in m + 1..Len(t) : t[i].kind \in {"text", "code"}
    BY DEF SameCalls
<1>2. \A i \in 1..Len(t) : t[i].kind = "call" => i \in 1..Len(s) /\ s[i] = t[i]
    BY <1>0, <1>1
<1> QED
    BY <1>2 DEF DistinctCalls

\* and those that were served still are.
LEMMA SameServed ==
    ASSUME NEW s \in Seq(Item), NEW t \in Seq(Item), SameCalls(s, t), NEW n, NEW those,
           Served(s, n, those)
    PROVE  Served(t, n, those)
<1>0. Len(s) \in Nat /\ Len(t) \in Nat
    OBVIOUS
<1>1. PICK m \in Nat : /\ m <= Len(s) /\ m <= Len(t)
                       /\ \A i \in 1..m : s[i] = t[i]
                       /\ \A i \in m + 1..Len(s) : s[i].kind \in {"text", "code"}
                       /\ \A i \in m + 1..Len(t) : t[i].kind \in {"text", "code"}
    BY DEF SameCalls
<1> SUFFICES ASSUME NEW i \in 1..Len(t), t[i].kind = "call", t[i].id <= n, t[i].id \notin those
             PROVE  PairedAt(t, i)
    BY DEF Served
<1>2. i \in 1..m /\ i \in 1..Len(s) /\ s[i] = t[i]
    BY <1>0, <1>1
<1>3. PairedAt(s, i)
    BY <1>2 DEF Served
<1>4. PICK j \in i + 1..Len(s) : s[j] = Result(s[i].id) /\ \A k \in 1..Len(s) \ {j} : s[k] # s[j]
    BY <1>3 DEF PairedAt
<1>5. s[j].kind = "result" /\ j \in Nat /\ i \in Nat
    BY <1>0, <1>2, <1>4 DEF Result
<1>6. j <= m
    <2> SUFFICES ASSUME j > m PROVE FALSE
        BY <1>5
    <2>1. j \in m + 1..Len(s)
        BY <1>0, <1>5
    <2> QED
        BY <1>1, <1>5, <2>1
<1>7. j \in i + 1..Len(t) /\ j \in 1..m /\ t[j] = s[j]
    BY <1>0, <1>1, <1>2, <1>4, <1>5, <1>6
<1>8. ASSUME NEW k \in 1..Len(t) \ {j}
      PROVE  t[k] # t[j]
    <2>1. CASE k \in 1..m
        <3>1. k \in 1..Len(s) \ {j} /\ t[k] = s[k]
            BY <1>0, <1>1, <2>1
        <3> QED
            BY <1>4, <1>7, <3>1
    <2>2. CASE k \notin 1..m
        <3>1. k \in m + 1..Len(t)
            BY <1>0, <1>1, <2>2
        <3>2. t[k].kind # "result"
            BY <1>1, <3>1
        <3> QED
            BY <1>5, <1>7, <3>2
    <2> QED
        BY <2>1, <2>2
<1> QED
    BY <1>2, <1>4, <1>7, <1>8 DEF PairedAt

\* What follows has no results of those calls, and no other calls.
LEMMA ServedConcat ==
    ASSUME NEW s \in Seq(Item), NEW t \in Seq(Item), NEW n, NEW those, Served(s, n, those),
           \A id \in IdsOf(t, "result") : ~(id <= n),
           \A id \in IdsOf(t, "call") : id <= n => id \in those
    PROVE  Served(s \o t, n, those)
<1> DEFINE all == s \o t
<1>1. all \in Seq(Item) /\ Len(all) = Len(s) + Len(t) /\ Len(s) \in Nat /\ Len(t) \in Nat
    OBVIOUS
<1>2. \A i \in 1..Len(s) : all[i] = s[i]
    OBVIOUS
<1>3. \A i \in 1..Len(all) : i \notin 1..Len(s) => i - Len(s) \in 1..Len(t) /\ all[i] = t[i - Len(s)]
    OBVIOUS
<1> HIDE DEF all
<1>4. SUFFICES ASSUME NEW i \in 1..Len(all), all[i].kind = "call", all[i].id <= n, all[i].id \notin those
               PROVE  PairedAt(all, i)
    BY DEF Served, all
<1>5. i \in 1..Len(s)
    <2> SUFFICES ASSUME i \notin 1..Len(s) PROVE FALSE
        OBVIOUS
    <2>1. i - Len(s) \in 1..Len(t) /\ all[i] = t[i - Len(s)]
        BY <1>3
    <2>2. all[i].id \in IdsOf(t, "call")
        BY <1>4, <2>1, IdsOfKind
    <2> QED
        BY <1>4, <2>2
<1>6. PairedAt(s, i)
    BY <1>2, <1>4, <1>5 DEF Served
<1>7. PICK j \in i + 1..Len(s) : s[j] = Result(s[i].id) /\ \A k \in 1..Len(s) \ {j} : s[k] # s[j]
    BY <1>6 DEF PairedAt
<1>8. j \in 1..Len(s) /\ j \in i + 1..Len(all) /\ all[j] = s[j] /\ all[i] = s[i]
    BY <1>1, <1>2, <1>5, <1>7
<1>9. ASSUME NEW k \in 1..Len(all) \ {j}
      PROVE  all[k] # all[j]
    <2>1. CASE k \in 1..Len(s)
        BY <1>2, <1>7, <1>8, <2>1
    <2>2. CASE k \notin 1..Len(s)
        <3> SUFFICES ASSUME all[k] = all[j] PROVE FALSE
            OBVIOUS
        <3>1. k - Len(s) \in 1..Len(t) /\ all[k] = t[k - Len(s)]
            BY <1>3, <2>2
        <3>2. t[k - Len(s)].kind = "result" /\ t[k - Len(s)].id = all[i].id
            BY <1>7, <1>8, <3>1 DEF Result
        <3>3. all[i].id \in IdsOf(t, "result")
            BY <3>1, <3>2, IdsOfKind
        <3> QED
            BY <1>4, <3>3
    <2> QED
        BY <2>1, <2>2
<1> QED
    BY <1>7, <1>8, <1>9 DEF PairedAt

\* A call that is made now is in no list.
LEMMA ServedGrow ==
    ASSUME NEW s \in Seq(Item), NEW n \in Nat, Served(s, n, {}), n + 1 \notin IdsOf(s, "call")
    PROVE  Served(s, n + 1, {})
<1> SUFFICES ASSUME NEW i \in 1..Len(s), s[i].kind = "call", s[i].id <= n + 1
             PROVE  PairedAt(s, i)
    BY DEF Served
<1>1. s[i].id \in Nat /\ s[i].id # n + 1
    <2>1. s[i] \in Item
        OBVIOUS
    <2>2. s[i].id \in Call
        BY <2>1 DEF Item
    <2>3. s[i].id \in IdsOf(s, "call")
        BY IdsOfKind
    <2> QED
        BY <2>2, <2>3, CallAssumption
<1>2. s[i].id <= n
    BY <1>1
<1> QED
    BY <1>2 DEF Served

\* The results of a batch serve its calls.
LEMMA ServedRound ==
    ASSUME NEW out \in Seq(Item), NEW calls \in Seq(Call), IsInjective(calls),
           ToSet(calls) \cap IdsOf(out, "result") = {}, NEW n, Served(out, n, ToSet(calls))
    PROVE  Served((out \o [i \in 1..Len(calls) |-> Result(calls[i])]) \o <<Blank>>, n, {})
<1> DEFINE res == [i \in 1..Len(calls) |-> Result(calls[i])]
           all == (out \o res) \o <<Blank>>
           size == Len(out)
<1>1. res \in Seq(Item) /\ Len(res) = Len(calls) /\ <<Blank>> \in Seq(Item)
    BY ResultsType, Items
<1>2. \A i \in 1..Len(calls) : res[i] = Result(calls[i])
    OBVIOUS
<1> HIDE DEF res
<1>3. /\ all \in Seq(Item) /\ Len(all) = size + Len(calls) + 1 /\ size \in Nat /\ Len(calls) \in Nat
      /\ all[size + Len(calls) + 1] = Blank
    BY <1>1
<1>4. \A i \in 1..size : all[i] = out[i]
    BY <1>1
<1>5. \A i \in 1..Len(calls) : size + i \in 1..Len(all) /\ all[size + i] = Result(calls[i])
    BY <1>1, <1>2
<1> HIDE DEF all, size
<1>6. ASSUME NEW k \in 1..Len(all)
      PROVE  k \in 1..size \/ (\E i \in 1..Len(calls) : k = size + i) \/ all[k] = Blank
    <2>1. k \in 1..size \/ k - size \in 1..Len(calls) \/ k = size + Len(calls) + 1
        BY <1>3
    <2>2. k = size + (k - size)
        BY <1>3
    <2> QED
        BY <1>3, <2>1, <2>2
<1>7. SUFFICES ASSUME NEW i \in 1..Len(all), all[i].kind = "call", all[i].id <= n
               PROVE  PairedAt(all, i)
    BY DEF Served, all, res
<1>8. i \in 1..size
    <2>1. ASSUME NEW m \in 1..Len(calls), i = size + m
          PROVE  FALSE
        <3>1. all[i] = Result(calls[m])
            BY <1>5, <2>1
        <3> QED
            BY <1>7, <3>1 DEF Result
    <2>2. all[i] # Blank
        BY <1>7 DEF Blank
    <2> QED
        BY <1>6, <2>1, <2>2
<1>9. out[i] = all[i] /\ (all[i].id \in ToSet(calls) \/ PairedAt(out, i))
    BY <1>4, <1>7, <1>8 DEF Served, size
<1>10. CASE all[i].id \in ToSet(calls)
    <2>1. PICK m \in 1..Len(calls) : calls[m] = all[i].id
        BY <1>10 DEF ToSet
    <2> DEFINE j == size + m
    <2>2. j \in i + 1..Len(all) /\ all[j] = Result(all[i].id)
        BY <1>3, <1>5, <1>8, <2>1
    <2>3. ASSUME NEW k \in 1..Len(all), k # j
          PROVE  all[k] # all[j]
        <3>1. CASE k \in 1..size
            <4>1. \A k1 \in 1..Len(out) : out[k1] # Result(calls[m])
                <5> SUFFICES ASSUME NEW k1 \in 1..Len(out), out[k1] = Result(calls[m]) PROVE FALSE
                    OBVIOUS
                <5>1. calls[m] \in IdsOf(out, "result")
                    BY IdsOfKind DEF Result
                <5> QED
                    BY <5>1 DEF ToSet
            <4> QED
                BY <1>4, <2>1, <2>2, <3>1, <4>1 DEF size
        <3>2. CASE \E m1 \in 1..Len(calls) : k = size + m1
            <4>1. PICK m1 \in 1..Len(calls) : k = size + m1
                BY <3>2
            <4>2. m1 # m
                BY <2>3, <4>1
            <4>3. calls[m1] # calls[m]
                BY <4>2 DEF IsInjective
            <4>4. all[k] = Result(calls[m1]) /\ all[j] = Result(calls[m])
                BY <1>5, <2>1, <2>2, <4>1
            <4> QED
                BY <4>3, <4>4 DEF Result
        <3>3. CASE all[k] = Blank
            BY <2>2, <3>3 DEF Blank, Result
        <3> QED
            BY <1>6, <3>1, <3>2, <3>3
    <2> HIDE DEF j
    <2> QED
        BY <2>2, <2>3 DEF PairedAt
<1>11. CASE PairedAt(out, i)
    <2>1. PICK j \in i + 1..Len(out) : /\ out[j] = Result(out[i].id)
                                       /\ \A k \in 1..Len(out) \ {j} : out[k] # out[j]
        BY <1>11 DEF PairedAt
    <2>2. j \in 1..size /\ j \in i + 1..Len(all) /\ all[j] = out[j]
        BY <1>3, <1>4, <1>8, <2>1 DEF size
    <2>3. out[i].id \in IdsOf(out, "result")
        BY <2>1, <2>2, IdsOfKind DEF Result, size
    <2>4. ASSUME NEW k \in 1..Len(all), k # j
          PROVE  all[k] # all[j]
        <3>1. CASE k \in 1..size
            BY <1>4, <2>1, <2>2, <2>4, <3>1 DEF size
        <3>2. CASE \E m1 \in 1..Len(calls) : k = size + m1
            <4>1. PICK m1 \in 1..Len(calls) : k = size + m1
                BY <3>2
            <4>2. calls[m1] \in ToSet(calls)
                BY DEF ToSet
            <4>3. calls[m1] # out[i].id
                BY <2>3, <4>2
            <4>4. all[k] = Result(calls[m1]) /\ all[j] = Result(out[i].id)
                BY <1>5, <2>1, <2>2, <4>1
            <4> QED
                BY <4>3, <4>4 DEF Result
        <3>3. CASE all[k] = Blank
            BY <2>1, <2>2, <3>3 DEF Blank, Result
        <3> QED
            BY <1>6, <3>1, <3>2, <3>3
    <2> QED
        BY <1>9, <2>1, <2>2, <2>4 DEF PairedAt
<1> QED
    BY <1>9, <1>10, <1>11

\* The results of a round are added to those of the list.
LEMMA RoundIds ==
    ASSUME NEW out \in Seq(Item), NEW calls \in Seq(Call)
    PROVE  LET all == (out \o [i \in 1..Len(calls) |-> Result(calls[i])]) \o <<Blank>>
           IN  /\ IdsOf(all, "result") = IdsOf(out, "result") \cup ToSet(calls)
               /\ IdsOf(all, "call") = IdsOf(out, "call")
<1> DEFINE res == [i \in 1..Len(calls) |-> Result(calls[i])]
<1>1. res \in Seq(Item) /\ Len(res) = Len(calls) /\ <<Blank>> \in Seq(Item)
    BY ResultsType, Items
<1>2. \A i \in 1..Len(calls) : res[i].kind = "result" /\ res[i].id = calls[i]
    BY DEF Result
<1> HIDE DEF res
<1>3. IdsOf(res, "result") = ToSet(calls)
    <2>1. ToSet(calls) \subseteq IdsOf(res, "result")
        BY <1>1, <1>2, IdsOfKind DEF ToSet
    <2>2. IdsOf(res, "result") \subseteq ToSet(calls)
        <3> SUFFICES ASSUME NEW id \in IdsOf(res, "result") PROVE id \in ToSet(calls)
            OBVIOUS
        <3>1. PICK i \in 1..Len(res) : res[i].kind = "result" /\ res[i].id = id
            BY <1>1, IdsOfKind
        <3> QED
            BY <1>1, <1>2, <3>1 DEF ToSet
    <2> QED
        BY <2>1, <2>2
<1>4. IdsOf(res, "call") = {}
    <2> SUFFICES ASSUME NEW id \in IdsOf(res, "call") PROVE FALSE
        OBVIOUS
    <2> QED
        BY <1>1, <1>2, IdsOfKind
<1>5. IdsOf(<<Blank>>, "call") = {} /\ IdsOf(<<Blank>>, "result") = {}
    BY DEF IdsOf, ToSet, Blank
<1> DEFINE both == out \o res
<1>6. /\ both \in Seq(Item)
      /\ IdsOf(both, "result") = IdsOf(out, "result") \cup IdsOf(res, "result")
      /\ IdsOf(both, "call") = IdsOf(out, "call") \cup IdsOf(res, "call")
    BY <1>1, IdsConcat
<1> HIDE DEF both
<1>7. \A kind : IdsOf(both \o <<Blank>>, kind) = IdsOf(both, kind) \cup IdsOf(<<Blank>>, kind)
    <2>1. both \in Seq(Item) /\ <<Blank>> \in Seq(Item)
        BY <1>1, <1>6
    <2>2. ASSUME NEW s \in Seq(Item), NEW t \in Seq(Item), NEW kind
          PROVE  IdsOf(s \o t, kind) = IdsOf(s, kind) \cup IdsOf(t, kind)
        BY IdsConcat
    <2> QED
        BY <2>1, <2>2
<1>8. /\ IdsOf(both \o <<Blank>>, "result") = IdsOf(out, "result") \cup ToSet(calls)
      /\ IdsOf(both \o <<Blank>>, "call") = IdsOf(out, "call")
    BY <1>3, <1>4, <1>5, <1>6, <1>7
<1> QED
    BY <1>8 DEF res, both

\* The calls of a round are put in the list when it starts.
LEMMA WithCallsIds ==
    ASSUME NEW out \in Seq(Item), NEW calls \in Seq(Call)
    PROVE  /\ IdsOf(WithCalls(out, calls), "result") = IdsOf(out, "result")
           /\ IdsOf(WithCalls(out, calls), "call") \subseteq IdsOf(out, "call") \cup ToSet(calls)
           /\ \A n : Served(out, n, ToSet(calls)) => Served(WithCalls(out, calls), n, ToSet(calls))
<1> DEFINE new == Pick(calls, Call \ IdsOf(out, "call"))
           more == [i \in 1..Len(new) |-> CallItem(new[i])]
<1>1. new \in Seq(Call) /\ \A i \in 1..Len(new) : new[i] \in ToSet(calls)
    <2> DEFINE those == Call \ IdsOf(out, "call")
    <2>1. new = Pick(calls, those)
        OBVIOUS
    <2> HIDE DEF new, those
    <2>2. PICK at \in [1..Len(new) -> 1..Len(calls)] :
             /\ \A n \in 1..Len(new) : calls[at[n]] \in those /\ new[n] = calls[at[n]]
             /\ \A m, n \in 1..Len(new) : at[m] = at[n] => m = n
             /\ \A i \in 1..Len(calls) : calls[i] \in those => \E n \in 1..Len(new) : at[n] = i
        BY <2>1, Picked
    <2>3. new \in Seq(Call)
        BY <2>1, Picked
    <2>4. ASSUME NEW i \in 1..Len(new)
          PROVE  new[i] \in ToSet(calls)
        <3>1. at[i] \in 1..Len(calls) /\ new[i] = calls[at[i]]
            BY <2>2
        <3>2. \A k \in 1..Len(calls) : calls[k] \in ToSet(calls)
            BY DEF ToSet
        <3> QED
            BY <3>1, <3>2
    <2> QED
        BY <2>1, <2>3, <2>4
<1> HIDE DEF new
<1>2. more \in Seq(Item) /\ Len(more) = Len(new)
    BY <1>1, Items
<1>3. \A i \in 1..Len(new) : more[i].kind = "call" /\ more[i].id = new[i]
    BY DEF CallItem
<1>4. WithCalls(out, calls) = out \o more
    BY DEF WithCalls, new
<1> HIDE DEF more
<1>5. IdsOf(more, "call") \subseteq ToSet(calls)
    <2> SUFFICES ASSUME NEW id \in IdsOf(more, "call") PROVE id \in ToSet(calls)
        OBVIOUS
    <2>1. PICK i \in 1..Len(more) : more[i].kind = "call" /\ more[i].id = id
        BY <1>2, IdsOfKind
    <2> QED
        BY <1>1, <1>2, <1>3, <2>1
<1>6. IdsOf(more, "result") = {}
    <2> SUFFICES ASSUME NEW id \in IdsOf(more, "result") PROVE FALSE
        OBVIOUS
    <2> QED
        BY <1>2, <1>3, IdsOfKind
<1>7. ASSUME NEW n, Served(out, n, ToSet(calls))
      PROVE  Served(out \o more, n, ToSet(calls))
    BY <1>2, <1>5, <1>6, <1>7, ServedConcat
<1>8. /\ IdsOf(out \o more, "result") = IdsOf(out, "result") \cup IdsOf(more, "result")
      /\ IdsOf(out \o more, "call") = IdsOf(out, "call") \cup IdsOf(more, "call")
    BY <1>2, IdsConcat
<1> QED
    BY <1>4, <1>5, <1>6, <1>7, <1>8

\* A round executes calls that differ and have no result; unless calls were
\* asked for, those are all that are open in the list.
LEMMA RoundFound ==
    ASSUME TypeOK, NEW out \in Seq(Item), pending = <<>>, DistinctCalls(out), IsInjective(asked),
           ToSet(asked) \cap (IdsOf(prior, "result") \cup IdsOf(out, "result")) = {},
           Batches(out) # <<>>
    PROVE  LET results == IdsOf(prior, "result") \cup IdsOf(out, "result")
               found == Head(Batches(out)) IN
           /\ found \in Seq(Call) /\ Tail(Batches(out)) = <<>>
           /\ IsInjective(found) /\ ToSet(found) \cap results = {}
           /\ ToSet(found) \subseteq ToSet(asked) \cup IdsOf(out, "call")
           /\ asked = <<>> => IdsOf(out, "call") \ results \subseteq ToSet(found)
<1> DEFINE results == IdsOf(prior, "result") \cup IdsOf(out, "result")
           open == {CallItem(c) : c \in Call \ IdsOf(prior \o out, "result")}
           u == Pick(out, open)
           ids == [i \in 1..Len(u) |-> u[i].id]
           found == IF asked # <<>> THEN asked ELSE ids
<1>1. asked \in Seq(Call) /\ prior \in Seq(Item)
    BY DEF TypeOK
<1>2. IdsOf(prior \o out, "result") = results
    BY <1>1, IdsConcat
<1>3. Batches(out) = IF found = <<>> THEN pending ELSE Append(pending, found)
    BY DEF Batches, Unhandled
<1>6. \A x \in open : x.kind = "call" /\ x.id \in Call \ results /\ x = CallItem(x.id)
    BY <1>2 DEF CallItem
<1>7. \A c \in Call \ results : CallItem(c) \in open
    BY <1>2
<1>u. u = Pick(out, open)
    OBVIOUS
<1> HIDE DEF open, u
<1>4. PICK at \in [1..Len(u) -> 1..Len(out)] :
         /\ \A i \in 1..Len(u) : out[at[i]] \in open /\ u[i] = out[at[i]]
         /\ \A m, i \in 1..Len(u) : at[m] = at[i] => m = i
         /\ \A i \in 1..Len(out) : out[i] \in open => \E m \in 1..Len(u) : at[m] = i
    BY <1>u, Picked
<1>5. u \in Seq(Item)
    BY <1>u, Picked
<1>8. \A i \in 1..Len(u) : u[i].kind = "call" /\ u[i].id \in Call \ results
    BY <1>4, <1>6
<1>9. /\ ids \in Seq(Call) /\ Len(ids) = Len(u) /\ DOMAIN ids = 1..Len(u)
      /\ \A i \in 1..Len(u) : ids[i] = u[i].id
    BY <1>5, <1>8
<1> HIDE DEF ids
<1>10. IsInjective(ids)
    <2> SUFFICES ASSUME NEW i \in 1..Len(u), NEW m \in 1..Len(u), u[i].id = u[m].id
                 PROVE  i = m
        BY <1>9 DEF IsInjective
    <2>1. at[i] = at[m]
        BY <1>4, <1>8, SMTT(30) DEF DistinctCalls
    <2> QED
        BY <1>4, <2>1
<1>11. ToSet(ids) \cap results = {} /\ ToSet(ids) \subseteq IdsOf(out, "call")
    <2> SUFFICES ASSUME NEW i \in 1..Len(u)
                 PROVE  u[i].id \notin results /\ u[i].id \in IdsOf(out, "call")
        BY <1>9 DEF ToSet
    <2>1. at[i] \in 1..Len(out) /\ out[at[i]] = u[i]
        BY <1>4
    <2> QED
        BY <1>8, <2>1, IdsOfKind
<1>12. IdsOf(out, "call") \ results \subseteq ToSet(ids)
    <2> SUFFICES ASSUME NEW id \in IdsOf(out, "call"), id \notin results
                 PROVE  id \in ToSet(ids)
        OBVIOUS
    <2>1. PICK i \in 1..Len(out) : out[i].kind = "call" /\ out[i].id = id
        BY IdsOfKind
    <2>2. out[i] = CallItem(id) /\ id \in Call
        <3>1. out[i] \in Item
            OBVIOUS
        <3> QED
            BY <2>1, <3>1 DEF Item, CallItem
    <2>3. PICK m \in 1..Len(u) : at[m] = i
        BY <1>4, <1>7, <2>2
    <2>4. ids[m] = id
        BY <1>4, <1>9, <2>1, <2>3
    <2> QED
        BY <1>9, <2>4 DEF ToSet
<1>13. found \in Seq(Call) /\ IsInjective(found) /\ ToSet(found) \cap results = {}
    BY <1>1, <1>9, <1>10, <1>11
<1>14. /\ ToSet(found) \subseteq ToSet(asked) \cup IdsOf(out, "call")
       /\ asked = <<>> => IdsOf(out, "call") \ results \subseteq ToSet(found)
    BY <1>11, <1>12
<1> HIDE DEF found
<1>15. Head(Batches(out)) = found /\ Tail(Batches(out)) = <<>>
    BY <1>3, <1>13
<1> QED
    BY <1>13, <1>14, <1>15

\* What the provider has not made has no trace.
Unmade ==
    /\ 1..made \subseteq Call
    /\ \A s \in {mode.left, output, prior, sent} : Numbers(s) \cap New = {}
    /\ (ToSet(asked) \cup ToSet(batch)) \cap New = {}
    /\ \A c \in New : runs[c] = 0

Before ==
    pc \in {"prepare", "load"} =>
        /\ stored.output = mode.left /\ prior = <<>> /\ output = <<>> /\ loop = "first"
        /\ \A c \in Call : runs[c] > 0 => c \in IdsOf(mode.left, "result")

Fresh == pc \in {"prepare", "load", "run", "ask"} => sent = <<>> /\ asked = <<>> /\ pending = <<>>

\* A stream that may end in a round.
Streaming ==
    pc = "stream" /\ loop # "code" =>
        LET results == IdsOf(prior, "result") \cup IdsOf(output, "result") IN
        /\ pending = <<>>
        /\ Served(prior, made, {})
        /\ \A c \in Call : runs[c] > 0 => c \in results
        /\ IsInjective(asked) /\ ToSet(asked) \cap results = {}
        /\ DistinctCalls(output)
        /\ \A c \in IdsOf(output, "result") : c > made
        /\ mode.api = "chat" => \A c \in IdsOf(output, "call") : c > made
        /\ mode.api = "responses" =>
              output = sent /\ asked = <<>> /\ IdsOf(output, "call") \cap results = {}

Running ==
    pc = "run" =>
        /\ IsInjective(batch) /\ ToSet(batch) \cap IdsOf(output, "result") = {}
        /\ got \subseteq 1..Len(batch)
        /\ \A c \in Call : runs[c] > 0 => c \in IdsOf(output, "result") \/ \E i \in got : batch[i] = c
        /\ Served(output, made, ToSet(batch))

Asking ==
    pc = "ask" =>
        /\ \A c \in Call : runs[c] > 0 => c \in IdsOf(output, "result")
        /\ Served(output, made, {})

\* The code interpreter is left with a list whose calls are served.
Coding ==
    /\ mode.api = "chat"
       /\ (pc \in {"limit", "say", "code", "askCode"} \/ (pc = "stream" /\ loop = "code"))
         => Served(output, made, {})
    /\ mode.api = "responses" =>
         /\ CodeFree(sent) /\ CodeFree(output) /\ CodeFree(prior)
         /\ pc \notin {"code", "askCode"} /\ loop # "code"

Once == \A c \in Call : runs[c] <= 1

Calls == Indexed => Unmade /\ Before /\ Fresh /\ Streaming /\ Running /\ Asking /\ Coding /\ Once

\* The empty list has no calls, results or code.
LEMMA Empty ==
    /\ <<>> \in Seq(Item) /\ IdsOf(<<>>, "call") = {} /\ IdsOf(<<>>, "result") = {}
    /\ Numbers(<<>>) = {} /\ CodeFree(<<>>) /\ DistinctCalls(<<>>)
    /\ \A n, those : Served(<<>>, n, those)
<1>1. <<>> \in Seq(Item) /\ Len(<<>>) = 0 /\ 1..0 = {}
    OBVIOUS
<1>2. IdsOf(<<>>, "call") = {} /\ IdsOf(<<>>, "result") = {}
    BY DEF IdsOf, ToSet
<1> QED
    BY <1>1, <1>2 DEF Numbers, CodeFree, DistinctCalls, Served

\* Lists with the same calls and results have the same numbers.
LEMMA SameNumbers ==
    ASSUME NEW s \in Seq(Item), NEW t \in Seq(Item), SameCalls(s, t)
    PROVE  Numbers(s) = Numbers(t)
    BY SameIds DEF Numbers

\* A round or a list is what a stream hands on.
LEMMA Ends ==
    ASSUME Typed, Kept, Indexed, Unmade, Streaming, StreamEnds, loop # "code"
    PROVE  /\ pc = "stream" /\ prior' = <<>>
           /\ \E all \in Seq(Item) :
                 /\ Numbers(all) \subseteq Numbers(prior) \cup Numbers(output)
                 /\ IdsOf(all, "result") = IdsOf(prior, "result") \cup IdsOf(output, "result")
                 /\ mode.api = "chat" => Served(all, made, {})
                 /\ \/ /\ pc' = "run" /\ pending' = <<>> /\ got' = {}
                       /\ batch' \in Seq(Call) /\ output' = WithCalls(all, batch')
                       /\ IsInjective(batch') /\ ToSet(batch') \cap IdsOf(all, "result") = {}
                       /\ ToSet(batch') \subseteq ToSet(asked) \cup Numbers(output)
                       /\ Served(all, made, ToSet(batch'))
                    \/ /\ pc' \in {"limit", "code", "save"} /\ output' = all /\ batch' = batch
                       /\ CodeFree(all) => pc' # "code"
                 /\ mode.api = "responses" /\ CodeFree(prior) /\ CodeFree(output) => CodeFree(all)
<1>1. pc = "stream" /\ output \in Seq(Item) /\ prior \in Seq(Item) /\ TypeOK /\ asked \in Seq(Call)
    BY DEF StreamEnds, Typed, TypeOK
<1> DEFINE results == IdsOf(prior, "result") \cup IdsOf(output, "result")
<1>2. /\ pending = <<>> /\ Served(prior, made, {})
      /\ IsInjective(asked) /\ ToSet(asked) \cap results = {} /\ DistinctCalls(output)
      /\ \A c \in IdsOf(output, "result") : c > made
      /\ mode.api = "chat" => \A c \in IdsOf(output, "call") : c > made
      /\ mode.api = "responses" => asked = <<>> /\ IdsOf(output, "call") \cap results = {}
    BY <1>1 DEF Streaming
<1>3. PICK closing \in Closings(output) : Handed(Ending(closing))
    BY DEF StreamEnds, Handed
<1> DEFINE out == Ending(closing)
           all == prior \o out
<1>4. out \in Seq(Item) /\ SameCalls(output, out)
    BY <1>1, EndingType, SameEnding
<1>5. /\ IdsOf(out, "call") = IdsOf(output, "call") /\ IdsOf(out, "result") = IdsOf(output, "result")
      /\ DistinctCalls(out)
    BY <1>1, <1>2, <1>4, SameIds, SameDistinct
<1>6. mode.api = "responses" /\ CodeFree(output) => CodeFree(out)
    BY <1>1, FreeEnding
<1>7. Handed(out)
    BY <1>3
<1> HIDE DEF out
<1>8. Batches(out) \in Seq(Seq(Call))
    BY <1>1, <1>4, BatchesType
<1>9. Proceed(all, Batches(out)) /\ prior' = <<>>
    <2>1. CASE loop = "first"
        <3>1. prior = <<>> /\ all = out
            BY <1>1, <1>4, <2>1 DEF Kept
        <3>2. Proceed(out, Batches(out)) /\ prior' = prior
            BY <1>7, <2>1 DEF Handed
        <3> HIDE DEF all
        <3> QED
            BY <3>1, <3>2
    <2>2. CASE loop = "tool"
        BY <1>7, <2>2 DEF Handed
    <2> QED
        BY <2>1, <2>2 DEF Typed, TypeOK
<1>10. /\ all \in Seq(Item) /\ IdsOf(all, "result") = results
       /\ IdsOf(all, "call") = IdsOf(prior, "call") \cup IdsOf(output, "call")
    BY <1>1, <1>4, <1>5, IdsConcat
<1>11. Numbers(all) \subseteq Numbers(prior) \cup Numbers(output)
    BY <1>10 DEF Numbers
<1>12. made \in Nat /\ \A c \in IdsOf(output, "call") \cup IdsOf(output, "result") : c \in Nat
    <2>1. \A c \in IdsOf(output, "call") \cup IdsOf(output, "result") : c \in Call
        BY <1>1, IdsOfKind DEF Item
    <2> QED
        BY <2>1, CallAssumption DEF Typed, TypeOK
<1>13. \A c \in IdsOf(out, "result") : ~(c <= made)
    BY <1>2, <1>5, <1>12
<1>14. mode.api = "chat" => Served(all, made, {})
    <2> SUFFICES ASSUME mode.api = "chat" PROVE Served(all, made, {})
        OBVIOUS
    <2>1. \A c \in IdsOf(out, "call") : c <= made => c \in {}
        BY <1>2, <1>5, <1>12
    <2> QED
        BY <1>1, <1>2, <1>4, <1>13, <2>1, ServedConcat
<1>15. mode.api = "responses" /\ CodeFree(prior) /\ CodeFree(output) => CodeFree(all)
    BY <1>1, <1>4, <1>6 DEF CodeFree
<1>16. CASE Batches(out) # <<>>
    <2> DEFINE found == Head(Batches(out))
    <2>1. /\ found \in Seq(Call) /\ Tail(Batches(out)) = <<>>
          /\ IsInjective(found) /\ ToSet(found) \cap results = {}
          /\ ToSet(found) \subseteq ToSet(asked) \cup IdsOf(out, "call")
          /\ asked = <<>> => IdsOf(out, "call") \ results \subseteq ToSet(found)
        <3>1. results = IdsOf(prior, "result") \cup IdsOf(out, "result")
            BY <1>5
        <3>2. ToSet(asked) \cap results = {}
            BY <1>2
        <3> QED
            BY <1>1, <1>2, <1>4, <1>5, <1>16, <3>1, <3>2, RoundFound
    <2>2. ToSet(found) \subseteq ToSet(asked) \cup Numbers(output)
        BY <1>5, <2>1 DEF Numbers
    <2>3. Served(all, made, ToSet(found))
        <3>1. \A c \in IdsOf(out, "call") : c <= made => c \in ToSet(found)
            <4>1. CASE mode.api = "chat"
                BY <1>2, <1>5, <1>12, <4>1
            <4>2. CASE mode.api = "responses"
                BY <1>2, <1>5, <2>1, <4>2
            <4> QED
                BY <4>1, <4>2 DEF Typed, TypeOK
        <3>2. Served(prior, made, ToSet(found))
            BY <1>2 DEF Served
        <3> QED
            BY <1>1, <1>4, <1>13, <3>1, <3>2, ServedConcat
    <2> HIDE DEF found, all
    <2>4. \/ /\ pc' = "run" /\ batch' = found /\ pending' = <<>> /\ got' = {}
             /\ output' = WithCalls(all, found)
          \/ pc' = "limit" /\ output' = all /\ batch' = batch
        <3> DEFINE calls == Batches(out)
        <3>1. calls \in Seq(Seq(Call)) /\ calls # <<>> /\ Proceed(all, calls) /\ all \in Seq(Item)
            BY <1>8, <1>9, <1>10, <1>16
        <3>2. Head(calls) = found /\ Tail(calls) = <<>>
            BY <2>1 DEF found
        <3> HIDE DEF calls
        <3>3. ASSUME NEW a \in Seq(Item), NEW b \in Seq(Seq(Call)), b # <<>>, Proceed(a, b)
              PROVE  \/ /\ pc' = "run" /\ batch' = Head(b) /\ pending' = Tail(b) /\ got' = {}
                        /\ output' = WithCalls(a, Head(b))
                     \/ pc' = "limit" /\ output' = a /\ batch' = batch
            BY <1>1, <3>3, Proceeds
        <3>4. \/ /\ pc' = "run" /\ batch' = Head(calls) /\ pending' = Tail(calls) /\ got' = {}
                 /\ output' = WithCalls(all, Head(calls))
              \/ pc' = "limit" /\ output' = all /\ batch' = batch
            BY <3>1, <3>3
        <3> QED
            BY <3>2, <3>4
    <2> QED
        BY <1>1, <1>9, <1>10, <1>11, <1>14, <1>15, <2>1, <2>2, <2>3, <2>4
<1>17. CASE Batches(out) = <<>>
    <2> HIDE DEF all
    <2>1. pc' = AfterTools(all) /\ output' = all /\ batch' = batch
        BY <1>1, <1>8, <1>9, <1>10, <1>17, Proceeds
    <2>2. pc' \in {"limit", "code", "save"} /\ (CodeFree(all) => pc' # "code")
        BY <1>10, <2>1, AfterToolsPlace, FreeTrim
    <2> QED
        BY <1>1, <1>9, <1>10, <1>11, <1>14, <1>15, <2>1, <2>2
<1> QED
    BY <1>16, <1>17

-----------------------------------------------------------------------------
(* Each call once                                                          *)

\* A call that is made is no longer to be made.
LEMMA NewShrinks ==
    ASSUME made \in Nat, [Next]_vars
    PROVE  /\ made' = made \/ (made' = made + 1 /\ made + 1 \in Call)
           /\ New' \subseteq New
           /\ made' = made + 1 => made + 1 \in New /\ made + 1 \notin New'
<1>1. made' = made \/ (made' = made + 1 /\ made + 1 \in Call)
    BY DEF vars, ghosts, Next, Chunk, Step, Execute,
        Prepared, PrepareRaises, Error, PlainError, PlainAnswer, PlainOutlet, PlainSilent, Load,
        StreamRaises, Results, ResultsRaise, Ask, AskRefused, AskRaises, Say, SayLimit,
        RunCode, AskCode, Save, Finish, Outlet, Background, LateRaises, Close,
        SaveCancelled, ChatText, ChatCall, ChatCode, ResponseText, ResponseCall,
        ResponseCompleted, ErrorChunk,
        Stop, Ended, StreamEnds,
        Deliver, ResponseItem
<1>2. CASE made' = made
    BY <1>2 DEF New
<1>3. CASE made' = made + 1 /\ made + 1 \in Call
    <2>1. \A c \in New' : c \in Nat /\ c > made + 1 /\ made + 2..c \subseteq Call
        BY <1>3, CallAssumption DEF New
    <2>2. \A c \in Nat : c > made + 1 => made + 1..c = {made + 1} \cup (made + 2..c)
        OBVIOUS
    <2>3. New' \subseteq New
        <3> SUFFICES ASSUME NEW c \in New' PROVE c \in New
            OBVIOUS
        <3>1. c \in Nat /\ c > made + 1 /\ made + 2..c \subseteq Call /\ c \in Call
            BY <2>1 DEF New
        <3>2. made + 1..c \subseteq Call
            BY <1>3, <2>2, <3>1
        <3> QED
            BY <3>1, <3>2 DEF New
    <2>4. made + 1 \in New /\ made + 1 \notin New'
        <3>1. made + 1..made + 1 = {made + 1}
            OBVIOUS
        <3> QED
            BY <1>3, <2>1, <3>1 DEF New
    <2> QED
        BY <1>3, <2>3, <2>4
<1> QED
    BY <1>1, <1>2, <1>3

\* The numbers of a list that an item is appended to.
LEMMA AppendNumbers ==
    ASSUME NEW s \in Seq(Item), NEW x \in Item
    PROVE  /\ Numbers(Append(s, x)) =
                 Numbers(s) \cup (IF x.kind \in {"call", "result"} THEN {x.id} ELSE {})
           /\ IdsOf(Append(s, x), "result") =
                 IdsOf(s, "result") \cup (IF x.kind = "result" THEN {x.id} ELSE {})
           /\ IdsOf(Append(s, x), "call") =
                 IdsOf(s, "call") \cup (IF x.kind = "call" THEN {x.id} ELSE {})
<1>1. <<x>> \in Seq(Item) /\ Append(s, x) = s \o <<x>>
    OBVIOUS
<1>2. \A kind : IdsOf(<<x>>, kind) = IF x.kind = kind THEN {x.id} ELSE {}
    <2> TAKE kind
    <2>1. ToSet(<<x>>) = {x}
        BY DEF ToSet
    <2> QED
        BY <2>1 DEF IdsOf
<1>3. \A kind : IdsOf(Append(s, x), kind) = IdsOf(s, kind) \cup IdsOf(<<x>>, kind)
    <2> TAKE kind
    <2>1. IdsOf(s \o <<x>>, kind) = IdsOf(s, kind) \cup IdsOf(<<x>>, kind)
        BY <1>1, IdsConcat
    <2> QED
        BY <1>1, <2>1
<1> QED
    BY <1>2, <1>3 DEF Numbers

\* While the list is what the stream delivered, an item is just appended.
LEMMA ResponseAppends ==
    ASSUME TypeOK, output = sent, NEW x \in Item, ResponseItem(x)
    PROVE  output' = Append(output, x) /\ sent' = Append(output, x)
<1>1. /\ sent' = Append(sent, x) /\ output' = [Append(output, x) EXCEPT ![Len(sent) + 1] = x]
      /\ output \in Seq(Item)
    BY DEF TypeOK, ResponseItem, Deliver
<1> DEFINE a == Append(output, x)
           i == Len(output) + 1
<1>2. a \in Seq(Item) /\ a[i] = x
    BY <1>1
<1> HIDE DEF a, i
<1>3. [a EXCEPT ![i] = x] = a
    BY <1>2
<1> QED
    BY <1>1, <1>3 DEF a, i

\* Running code changes code and texts only.
LEMMA SameRan ==
    ASSUME Typed, RunCode
    PROVE  output' \in Seq(Item) /\ SameCalls(output, output')
<1>1. output \in Seq(Item) /\ output # <<>> /\ Last(output).kind \in {"text", "code"}
    BY DEF Typed, TypeOK, CodeReady, RunCode, EndsWith
<1>2. Front(output) \in Seq(Item) /\ SameCalls(output, Front(output))
    BY <1>1, SameFront
<1>3. Ran \in Item /\ Ran.kind = "code" /\ Blank \in Item /\ Blank.kind = "text"
    BY Items DEF Ran, Blank
<1> DEFINE ran == Append(Front(output), Ran)
<1>4. ran \in Seq(Item) /\ SameCalls(Front(output), ran)
    BY <1>2, <1>3, SameAppend
<1> HIDE DEF ran
<1>5. Append(ran, Blank) \in Seq(Item) /\ SameCalls(ran, Append(ran, Blank))
    BY <1>3, <1>4, SameAppend
<1>6. output' = ran \o <<Blank>> /\ ran \o <<Blank>> = Append(ran, Blank)
    BY <1>3, <1>4 DEF RunCode, ran
<1>7. SameCalls(output, ran)
    BY <1>1, <1>2, <1>4, SameBoth
<1>8. SameCalls(output, Append(ran, Blank))
    BY <1>1, <1>4, <1>5, <1>7, SameBoth
<1> QED
    BY <1>5, <1>6, <1>8

\* A chunk of a text does, too.
LEMMA SameChunk ==
    ASSUME Typed, ChatText \/ ChatCode
    PROVE  /\ output' \in Seq(Item) /\ SameCalls(output, output')
           /\ \E x \in {Text, Code} : sent' = Append(sent, x)
           /\ pc = "stream" /\ UNCHANGED <<mode, pc, loop, prior, asked, pending, batch, got, ghosts>>
<1>1. output \in Seq(Item)
    BY DEF Typed, TypeOK
<1>2. /\ WithText(output) \in Seq(Item) /\ SameCalls(output, WithText(output))
      /\ Trim(output) \in Seq(Item) /\ SameCalls(output, Trim(output))
    BY <1>1, WithTextType, SameWithText, TrimType, SameTrim
<1>3. Code \in Item /\ Code.kind = "code"
    BY Items DEF Code
<1>4. Append(Trim(output), Code) \in Seq(Item) /\ SameCalls(Trim(output), Append(Trim(output), Code))
    BY <1>2, <1>3, SameAppend
<1>5. SameCalls(output, Append(Trim(output), Code))
    BY <1>1, <1>2, <1>4, SameBoth
<1>6. output' \in {WithText(output), Append(Trim(output), Code)}
    BY DEF ChatText, ChatCode
<1>7. /\ \E x \in {Text, Code} : sent' = Append(sent, x)
      /\ pc = "stream" /\ UNCHANGED <<mode, pc, loop, prior, asked, pending, batch, got, ghosts>>
    BY DEF ChatText, ChatCode, Deliver, tools, ghosts
<1> QED
    BY <1>2, <1>4, <1>5, <1>6, <1>7

\* The types the steps below use.
LEMMA TypeFacts ==
    ASSUME Typed
    PROVE  /\ TypeOK /\ output \in Seq(Item) /\ prior \in Seq(Item) /\ sent \in Seq(Item)
           /\ asked \in Seq(Call) /\ batch \in Seq(Call) /\ made \in Nat /\ runs \in [Call -> Nat]
           /\ mode.api \in {"chat", "responses"} /\ loop \in {"first", "tool", "code"}
           /\ pc \in Place
    BY DEF Typed, TypeOK

\* A call of the Chat Completions API is new and changes no list of items.
LEMMA ChatCalls ==
    ASSUME Typed, ChatCall
    PROVE  /\ pc = "stream" /\ mode.api = "chat" /\ made' = made + 1 /\ made + 1 \in Call
           /\ asked' \in Seq(Call) /\ asked' = Append(asked, made + 1)
           /\ ToSet(asked') = ToSet(asked) \cup {made + 1}
           /\ UNCHANGED <<mode, pc, loop, output, prior, sent, tools, stored, runs, shown>>
<1>1. asked \in Seq(Call) /\ made + 1 \in Call /\ asked' = Append(asked, made + 1)
    BY TypeFacts DEF ChatCall
<1>2. ToSet(Append(asked, made + 1)) = ToSet(asked) \cup {made + 1}
    <2>1. \A i \in 1..Len(asked) + 1 : i \in 1..Len(asked) \/ i = Len(asked) + 1
        BY <1>1
    <2>2. DOMAIN asked = 1..Len(asked) /\ DOMAIN Append(asked, made + 1) = 1..Len(asked) + 1
        BY <1>1
    <2>3. /\ \A i \in 1..Len(asked) : Append(asked, made + 1)[i] = asked[i] /\ i \in 1..Len(asked) + 1
          /\ Append(asked, made + 1)[Len(asked) + 1] = made + 1 /\ Len(asked) + 1 \in 1..Len(asked) + 1
        BY <1>1
    <2> HIDE <1>1
    <2> QED
        BY <2>1, <2>2, <2>3 DEF ToSet
<1> QED
    BY <1>1, <1>2 DEF ChatCall

\* A continuation of the Responses API, whose list is what was delivered.
LEMMA Responses ==
    ASSUME Typed, Streaming, Coding, ResponseText \/ ResponseCall
    PROVE  /\ pc = "stream" /\ loop # "code" /\ mode.api = "responses"
           /\ UNCHANGED <<mode, pc, loop, prior, tools, asked, stored, runs, shown>>
           /\ \E x \in Item :
                 /\ output' = Append(output, x) /\ sent' = Append(output, x)
                 /\ \/ x = Text /\ made' = made
                    \/ x = CallItem(made + 1) /\ made' = made + 1 /\ made + 1 \in Call
<1>1. PICK x \in Item : /\ ResponseItem(x)
                        /\ \/ x = Text /\ made' = made
                           \/ x = CallItem(made + 1) /\ made' = made + 1 /\ made + 1 \in Call
    BY Items DEF ResponseText, ResponseCall
<1>2. /\ pc = "stream" /\ mode.api = "responses"
      /\ UNCHANGED <<mode, pc, loop, prior, tools, asked, stored, runs, shown>>
    BY <1>1 DEF ResponseItem, Deliver
<1>3. loop # "code" /\ output = sent
    BY <1>2 DEF Streaming, Coding
<1>4. output' = Append(output, x) /\ sent' = Append(output, x)
    BY <1>1, <1>3, TypeFacts, ResponseAppends
<1> QED
    BY <1>1, <1>2, <1>3, <1>4

\* Every step leaves no trace of what is not made.
LEMMA UnmadeStep ==
    ASSUME Typed, Kept, Indexed, Unmade, Before, Fresh, Streaming, Running, Asking, Coding, Once,
           [Next]_vars
    PROVE  Unmade'
<1>a. /\ TypeOK /\ output \in Seq(Item) /\ prior \in Seq(Item) /\ sent \in Seq(Item)
      /\ batch \in Seq(Call) /\ made \in Nat
    BY TypeFacts
<1>b. /\ made' = made \/ (made' = made + 1 /\ made + 1 \in Call)
      /\ New' \subseteq New
      /\ made' = made + 1 => made + 1 \in New /\ made + 1 \notin New'
    BY <1>a, NewShrinks
<1>c. /\ 1..made \subseteq Call
      /\ Numbers(mode.left) \cap New = {} /\ Numbers(output) \cap New = {}
      /\ Numbers(prior) \cap New = {} /\ Numbers(sent) \cap New = {}
      /\ ToSet(asked) \cap New = {} /\ ToSet(batch) \cap New = {}
      /\ \A c \in New : runs[c] = 0
    BY DEF Unmade
<1>d. 1..made' \subseteq Call /\ mode' = mode
    BY <1>a, <1>b, <1>c, ModeKept
<1>e. ToSet(<<>>) = {} /\ Numbers(<<>>) = {}
    BY Empty DEF ToSet
<1>z. SUFFICES /\ Numbers(output') \cap New' = {} /\ Numbers(prior') \cap New' = {}
               /\ Numbers(sent') \cap New' = {}
               /\ ToSet(asked') \cap New' = {} /\ ToSet(batch') \cap New' = {}
               /\ \A c \in New' : runs'[c] = 0
    <2>1. Numbers(mode'.left) \cap New' = {}
        BY <1>b, <1>c, <1>d
    <2> QED
        BY <1>d, <2>1 DEF Unmade, Numbers, IdsOf
<1> USE <1>b, <1>c DEF vars, stream, tools, ghosts, ends, faults
<1>1. CASE Prepared \/ PrepareRaises \/ Error \/ PlainError \/ PlainAnswer \/ PlainOutlet
           \/ PlainSilent \/ StreamRaises \/ ResultsRaise \/ AskRefused \/ AskRaises \/ Say
           \/ SayLimit \/ AskCode \/ Save \/ Finish \/ Outlet \/ Background \/ LateRaises
           \/ Close \/ SaveCancelled \/ ErrorChunk \/ Stop \/ Ended
    BY <1>1
    DEF Prepared, PrepareRaises, Error, PlainError, PlainAnswer, PlainOutlet, PlainSilent,
        StreamRaises, ResultsRaise, AskRefused, AskRaises, Say, SayLimit, AskCode, Save,
        Finish, Outlet, Background, LateRaises, Close, SaveCancelled, ErrorChunk, Stop,
        Ended
<1>2. CASE Load
    BY <1>2 DEF Load, Before
<1>3. CASE ChatText \/ ChatCode
    <2>1. /\ output' \in Seq(Item) /\ SameCalls(output, output')
          /\ UNCHANGED <<prior, asked, batch, runs>>
        BY <1>3, SameChunk
    <2>2. PICK x \in {Text, Code} : sent' = Append(sent, x)
        BY <1>3, SameChunk
    <2>3. Numbers(output') = Numbers(output)
        BY <1>a, <2>1, SameNumbers
    <2>4. x \in Item /\ x.kind \in {"text", "code"}
        BY Items DEF Text, Code
    <2>5. Numbers(Append(sent, x)) = Numbers(sent)
        BY <1>a, <2>4, AppendNumbers
    <2> QED
        BY <2>1, <2>2, <2>3, <2>5
<1>4. CASE ChatCall
    BY <1>4, ChatCalls
<1>5. CASE ResponseText \/ ResponseCall
    <2>1. UNCHANGED <<prior, asked, batch, runs>>
        BY <1>5, Responses
    <2>2. PICK x \in Item : /\ output' = Append(output, x) /\ sent' = Append(output, x)
                            /\ \/ x = Text /\ made' = made
                               \/ x = CallItem(made + 1) /\ made' = made + 1
        BY <1>5, Responses
    <2>3. Numbers(Append(output, x)) \subseteq Numbers(output) \cup (IF x = Text THEN {} ELSE {made + 1})
        BY <1>a, <2>2, AppendNumbers DEF Text, CallItem
    <2> QED
        BY <2>1, <2>2, <2>3
<1>6. CASE ResponseCompleted
    BY <1>6 DEF ResponseCompleted
<1>7. CASE Results
    <2>1. Numbers(output') = Numbers(output) \cup ToSet(batch)
        BY <1>7, <1>a, RoundIds DEF Results, Numbers
    <2> QED
        BY <1>7, <1>e, <2>1 DEF Results
<1>8. CASE Ask
    <2>1. Numbers(Trim(output)) = Numbers(output)
        BY <1>a, TrimType, SameTrim, SameNumbers
    <2> QED
        BY <1>8, <1>e, <2>1 DEF Ask
<1>9. CASE RunCode
    <2>1. Numbers(output') = Numbers(output)
        BY <1>9, <1>a, SameRan, SameNumbers
    <2> QED
        BY <1>9, <2>1 DEF RunCode
<1>10. CASE StreamEnds
    <2>1. sent' = <<>> /\ asked' = <<>> /\ UNCHANGED <<made, runs>> /\ pc = "stream"
        BY <1>10 DEF StreamEnds
    <2>2. CASE loop = "code"
        <3>1. PICK closing \in Closings(output) : Handed(Ending(closing))
            BY <1>10 DEF StreamEnds, Handed
        <3>2. output' = Ending(closing) /\ UNCHANGED <<prior, batch>>
            BY <2>2, <3>1 DEF Handed
        <3>3. Numbers(Ending(closing)) = Numbers(output)
            BY <1>a, EndingType, SameEnding, SameNumbers
        <3> QED
            BY <1>e, <2>1, <3>2, <3>3
    <2>3. CASE loop # "code"
        <3>1. prior' = <<>>
            BY <1>10, <2>3, Ends
        <3>2. PICK all \in Seq(Item) :
                 /\ Numbers(all) \subseteq Numbers(prior) \cup Numbers(output)
                 /\ \/ /\ batch' \in Seq(Call) /\ output' = WithCalls(all, batch')
                       /\ ToSet(batch') \subseteq ToSet(asked) \cup Numbers(output)
                    \/ output' = all /\ batch' = batch
            BY <1>10, <2>3, Ends
        <3>3. CASE output' = all /\ batch' = batch
            BY <1>e, <2>1, <3>1, <3>2, <3>3
        <3>4. CASE /\ batch' \in Seq(Call) /\ output' = WithCalls(all, batch')
                   /\ ToSet(batch') \subseteq ToSet(asked) \cup Numbers(output)
            <4>1. Numbers(output') \subseteq Numbers(all) \cup ToSet(batch')
                BY <3>4, WithCallsIds DEF Numbers
            <4> QED
                BY <1>e, <2>1, <3>1, <3>2, <3>4, <4>1
        <3> QED
            BY <3>2, <3>3, <3>4
    <2> QED
        BY <2>2, <2>3
<1>11. CASE \E i \in 1..Len(batch) : Execute(i)
    <2>1. PICK i \in 1..Len(batch) : Execute(i)
        BY <1>11
    <2>2. batch[i] \in ToSet(batch)
        BY <1>a DEF ToSet
    <2>3. \A c \in New' : c # batch[i]
        BY <2>2
    <2>4. \A c \in Call : c # batch[i] => runs'[c] = runs[c]
        BY <2>1, TypeFacts DEF Execute
    <2>5. New' \subseteq Call
        BY DEF New
    <2> QED
        BY <2>1, <2>3, <2>4, <2>5 DEF Execute
<1>12. CASE UNCHANGED vars
    BY <1>12
<1> QED
    BY <1>1, <1>2, <1>3, <1>4, <1>5, <1>6, <1>7, <1>8, <1>9, <1>10, <1>11, <1>12
    DEF Next, Chunk, Step

\* Before the stream there is only what an interrupted run left.
LEMMA BeforeStep ==
    ASSUME Typed, Kept, Indexed, Unmade, Before, Fresh, Streaming, Running, Asking, Coding, Once,
           [Next]_vars
    PROVE  Before'
<1>1. CASE pc' \notin {"prepare", "load"}
    BY <1>1 DEF Before
<1>2. CASE pc' \in {"prepare", "load"}
    <2>1. /\ pc \in {"prepare", "load"}
          /\ UNCHANGED <<mode, stored, prior, output, loop, runs>>
        BY <1>2, AfterToolsPlace
        DEF Next, Chunk, Step, vars, stream, tools, ghosts, Handling,
            Prepared, PrepareRaises, Error, PlainError, PlainAnswer, PlainOutlet, PlainSilent,
            Load, StreamRaises, Results, ResultsRaise, Ask, AskRefused, AskRaises,
            Say, SayLimit, RunCode, AskCode, Save, Finish, Outlet,
            Background, LateRaises, Close, SaveCancelled, ChatText, ChatCall, ChatCode,
            ResponseText, ResponseCall, ResponseCompleted, ErrorChunk, Stop, Ended, StreamEnds,
            Execute, Proceed, NextRound, Deliver, ResponseItem
    <2> QED
        BY <2>1 DEF Before, IdsOf
<1> QED
    BY <1>1, <1>2

\* Between two streams nothing of one is left.
LEMMA FreshStep ==
    ASSUME Typed, Kept, Indexed, Unmade, Before, Fresh, Streaming, Running, Asking, Coding, Once,
           [Next]_vars
    PROVE  Fresh'
<1>1. CASE StreamEnds
    <2>1. sent' = <<>> /\ asked' = <<>>
        BY <1>1 DEF StreamEnds
    <2>2. CASE loop = "code"
        <3>1. PICK closing \in Closings(output) : Handed(Ending(closing))
            BY <1>1 DEF StreamEnds, Handed
        <3>2. pc' \in {"code", "save"}
            BY <2>2, <3>1, AfterToolsPlace DEF Handed
        <3> QED
            BY <3>2 DEF Fresh
    <2>3. CASE loop # "code"
        <3>1. pc' = "run" => pending' = <<>>
            BY <1>1, <2>3, Ends
        <3>2. pc' \in {"run", "limit", "code", "save"}
            BY <1>1, <2>3, Ends
        <3> QED
            BY <2>1, <3>1, <3>2 DEF Fresh
    <2> QED
        BY <2>2, <2>3
<1>2. CASE Prepared \/ PrepareRaises \/ Error \/ PlainError \/ PlainAnswer \/ PlainOutlet
           \/ PlainSilent \/ Load \/ StreamRaises \/ Results \/ ResultsRaise \/ Ask \/
           AskRaises \/ RunCode \/ AskCode \/ Save \/ Finish \/ Outlet \/ Background \/
           LateRaises \/ Close \/ SaveCancelled \/ ChatText \/ ChatCall \/ ChatCode \/
           ResponseText \/ ResponseCall \/ ResponseCompleted \/ ErrorChunk \/ Stop \/ Ended
    BY <1>2
    DEF Prepared, PrepareRaises, Error, PlainError, PlainAnswer, PlainOutlet, PlainSilent,
        Load, StreamRaises, Results, ResultsRaise, Ask, AskRaises, RunCode, AskCode, Save,
        Finish, Outlet, Background, LateRaises, Close, SaveCancelled, ChatText, ChatCall,
        ChatCode, ResponseText, ResponseCall, ResponseCompleted, ErrorChunk, Stop, Ended,
        Fresh, vars, stream, tools, ghosts, ends, faults, Handling, Deliver, ResponseItem
<1>3. CASE AskRefused \/ Say \/ SayLimit
    BY <1>3, AfterToolsPlace
    DEF AskRefused, Say, SayLimit, Fresh
<1>4. CASE \E i \in 1..Len(batch) : Execute(i)
    BY <1>4 DEF Execute, Fresh, stream
<1>5. CASE UNCHANGED vars
    BY <1>5 DEF Fresh, vars, stream, tools
<1> QED
    BY <1>1, <1>2, <1>3, <1>4, <1>5 DEF Next, Chunk, Step

\* A call is executed when its place of the batch is ready, and so once.
LEMMA OnceStep ==
    ASSUME Typed, Kept, Indexed, Unmade, Before, Fresh, Streaming, Running, Asking, Coding, Once,
           [Next]_vars
    PROVE  Once'
<1>1. CASE \E i \in 1..Len(batch) : Execute(i)
    <2>1. PICK i \in 1..Len(batch) : Execute(i)
        BY <1>1
    <2>2. pc = "run" /\ i \notin got /\ runs' = [runs EXCEPT ![batch[i]] = @ + 1]
        BY <2>1 DEF Execute, Ready
    <2>3. batch \in Seq(Call) /\ runs \in [Call -> Nat] /\ batch[i] \in Call
        BY TypeFacts
    <2>4. runs[batch[i]] = 0
        <3> SUFFICES ASSUME runs[batch[i]] > 0 PROVE FALSE
            BY <2>3
        <3>1. batch[i] \in ToSet(batch)
            BY <2>3 DEF ToSet
        <3>2. PICK m \in got : batch[m] = batch[i]
            BY <2>2, <2>3, <3>1 DEF Running
        <3>3. m \in 1..Len(batch)
            BY <2>2 DEF Running
        <3>4. m = i
            BY <2>2, <2>3, <3>2, <3>3 DEF Running, IsInjective
        <3> QED
            BY <2>2, <3>2, <3>4
    <2> QED
        BY <2>2, <2>3, <2>4 DEF Once
<1>2. CASE runs' = runs
    BY <1>2 DEF Once
<1> QED
    BY <1>1, <1>2
    DEF Next, Chunk, Step, vars, ghosts, Deliver, ResponseItem,
        Prepared, PrepareRaises, Error, PlainError, PlainAnswer, PlainOutlet, PlainSilent,
        Load, StreamRaises, Results, ResultsRaise, Ask, AskRefused, AskRaises,
        Say, SayLimit, RunCode, AskCode, Save, Finish, Outlet,
        Background, LateRaises, Close, SaveCancelled, ChatText, ChatCall, ChatCode,
        ResponseText, ResponseCall, ResponseCompleted, ErrorChunk, Stop, Ended, StreamEnds

\* The calls of a round differ and have no result, and what was executed has one
\* or is in the round.
LEMMA RunningStep ==
    ASSUME Typed, Kept, Indexed, Unmade, Before, Fresh, Streaming, Running, Asking, Coding, Once,
           [Next]_vars
    PROVE  Running'
<1>a. /\ TypeOK /\ output \in Seq(Item) /\ batch \in Seq(Call) /\ made \in Nat /\ runs \in [Call -> Nat]
    BY TypeFacts
<1>1. CASE pc' # "run"
    BY <1>1 DEF Running
<1>2. CASE StreamEnds /\ pc' = "run"
    <2>1. loop # "code"
        <3> SUFFICES ASSUME loop = "code" PROVE FALSE
            OBVIOUS
        <3>1. PICK closing \in Closings(output) : Handed(Ending(closing))
            BY <1>2 DEF StreamEnds, Handed
        <3> QED
            BY <1>2, <3>1, AfterToolsPlace DEF Handed
    <2>2. pc = "stream" /\ UNCHANGED <<made, runs>>
        BY <1>2 DEF StreamEnds, ghosts
    <2>3. PICK all \in Seq(Item) :
             /\ IdsOf(all, "result") = IdsOf(prior, "result") \cup IdsOf(output, "result")
             /\ got' = {} /\ batch' \in Seq(Call) /\ output' = WithCalls(all, batch')
             /\ IsInjective(batch') /\ ToSet(batch') \cap IdsOf(all, "result") = {}
             /\ Served(all, made, ToSet(batch'))
        BY <1>2, <2>1, Ends
    <2>4. IdsOf(output', "result") = IdsOf(all, "result") /\ Served(output', made, ToSet(batch'))
        BY <2>3, WithCallsIds
    <2>5. \A c \in Call : runs'[c] > 0 => c \in IdsOf(output', "result")
        BY <2>1, <2>2, <2>3, <2>4 DEF Streaming
    <2>6. /\ IsInjective(batch') /\ ToSet(batch') \cap IdsOf(output', "result") = {}
          /\ got' \subseteq 1..Len(batch')
          /\ Served(output', made', ToSet(batch'))
        BY <2>2, <2>3, <2>4
    <2> QED
        BY <2>5, <2>6 DEF Running
<1>3. CASE \E i \in 1..Len(batch) : Execute(i)
    <2>1. PICK i \in 1..Len(batch) : Execute(i)
        BY <1>3
    <2>2. /\ pc = "run" /\ got' = got \cup {i} /\ UNCHANGED <<output, batch, made>>
          /\ runs' = [runs EXCEPT ![batch[i]] = @ + 1]
        BY <2>1 DEF Execute, ghosts
    <2>3. \A c \in Call : runs'[c] > 0 => c \in IdsOf(output, "result") \/ \E m \in got' : batch[m] = c
        <3> SUFFICES ASSUME NEW c \in Call, runs'[c] > 0, c \notin IdsOf(output, "result")
                     PROVE  \E m \in got' : batch[m] = c
            OBVIOUS
        <3>1. CASE c = batch[i]
            BY <2>2, <3>1
        <3>2. CASE c # batch[i]
            <4>1. runs[c] > 0
                BY <1>a, <2>2, <3>2
            <4> QED
                BY <2>2, <4>1 DEF Running
        <3> QED
            BY <3>1, <3>2
    <2>4. got' \subseteq 1..Len(batch)
        BY <2>2 DEF Running
    <2>5. /\ IsInjective(batch) /\ ToSet(batch) \cap IdsOf(output, "result") = {}
          /\ Served(output, made, ToSet(batch))
        BY <2>2 DEF Running
    <2>6. UNCHANGED <<output, batch, made>>
        BY <2>2
    <2> HIDE <2>2
    <2> QED
        BY <2>3, <2>4, <2>5, <2>6 DEF Running
<1>4. CASE /\ ~StreamEnds /\ pc' = "run" /\ ~(\E i \in 1..Len(batch) : Execute(i))
    <2>1. pc = "run" /\ UNCHANGED <<output, batch, got, runs, made>>
        BY <1>4, AfterToolsPlace
        DEF Next, Chunk, Step, vars, tools, ghosts, Handling, Deliver, ResponseItem,
            Prepared, PrepareRaises, Error, PlainError, PlainAnswer, PlainOutlet, PlainSilent,
            Load, StreamRaises, Results, ResultsRaise, Ask, AskRefused, AskRaises,
            Say, SayLimit, RunCode, AskCode, Save, Finish, Outlet,
            Background, LateRaises, Close, SaveCancelled, ChatText, ChatCall, ChatCode,
            ResponseText, ResponseCall, ResponseCompleted, ErrorChunk, Stop, Ended
    <2> QED
        BY <2>1 DEF Running, Served, PairedAt, IdsOf
<1> QED
    BY <1>1, <1>2, <1>3, <1>4

\* After a round each call has its result.
LEMMA AskingStep ==
    ASSUME Typed, Kept, Indexed, Unmade, Before, Fresh, Streaming, Running, Asking, Coding, Once,
           [Next]_vars
    PROVE  Asking'
<1>a. /\ TypeOK /\ output \in Seq(Item) /\ batch \in Seq(Call) /\ made \in Nat /\ runs \in [Call -> Nat]
    BY TypeFacts
<1>1. CASE pc' # "ask"
    BY <1>1 DEF Asking
<1>2. CASE Results
    <2> DEFINE all == (output \o [i \in 1..Len(batch) |-> Result(batch[i])]) \o <<Blank>>
    <2>1. pc = "run" /\ output' = all /\ UNCHANGED <<made, runs>>
        BY <1>2 DEF Results
    <2>2. /\ IsInjective(batch) /\ ToSet(batch) \cap IdsOf(output, "result") = {}
          /\ got \subseteq 1..Len(batch) /\ Served(output, made, ToSet(batch))
          /\ \A c \in Call : runs[c] > 0 => c \in IdsOf(output, "result") \/ \E i \in got : batch[i] = c
        BY <2>1 DEF Running
    <2>3. Served(all, made, {}) /\ IdsOf(all, "result") = IdsOf(output, "result") \cup ToSet(batch)
        BY <1>a, <2>2, ServedRound, RoundIds
    <2>4. \A i \in got : batch[i] \in ToSet(batch)
        BY <1>a, <2>2 DEF ToSet
    <2> HIDE DEF all
    <2>5. \A c \in Call : runs[c] > 0 => c \in IdsOf(all, "result")
        BY <2>2, <2>3, <2>4
    <2> QED
        BY <2>1, <2>3, <2>5 DEF Asking
<1>3. CASE ~Results /\ pc' = "ask"
    <2>1. pc = "ask" /\ UNCHANGED <<output, runs, made>>
        BY <1>3, AfterToolsPlace
        DEF Next, Chunk, Step, vars, tools, ghosts, Handling, Deliver, ResponseItem, Execute,
            Proceed, NextRound,
            Prepared, PrepareRaises, Error, PlainError, PlainAnswer, PlainOutlet, PlainSilent,
            Load, StreamRaises, ResultsRaise, Ask, AskRefused, AskRaises, Say,
            SayLimit, RunCode, AskCode, Save, Finish, Outlet, Background,
            LateRaises, Close, SaveCancelled, ChatText, ChatCall, ChatCode, ResponseText,
            ResponseCall, ResponseCompleted, ErrorChunk, Stop, Ended, StreamEnds
    <2> QED
        BY <2>1 DEF Asking, Served, PairedAt, IdsOf
<1> QED
    BY <1>1, <1>2, <1>3

\* Calls and results are numbered as calls are.
LEMMA InCall ==
    ASSUME NEW s \in Seq(Item), NEW c \in IdsOf(s, "call") \cup IdsOf(s, "result")
    PROVE  c \in Call /\ c \in Nat
<1>1. c \in Call
    BY IdsOfKind DEF Item
<1> QED
    BY <1>1, CallAssumption

\* A call that is asked for the first time.
LEMMA AppendDiffers ==
    ASSUME NEW s \in Seq(Call), IsInjective(s), NEW c \in Call, c \notin ToSet(s),
           NEW t, t = Append(s, c)
    PROVE  IsInjective(t)
<1>1. /\ Len(s) \in Nat /\ DOMAIN s = 1..Len(s) /\ DOMAIN t = 1..Len(s) + 1
      /\ \A i \in 1..Len(s) : t[i] = s[i] /\ t[i] \in ToSet(s)
      /\ t[Len(s) + 1] = c
    BY DEF ToSet
<1>2. \A i, j \in 1..Len(s) : s[i] = s[j] => i = j
    BY <1>1 DEF IsInjective
<1>3. ASSUME NEW i \in 1..Len(s) + 1, NEW j \in 1..Len(s) + 1, t[i] = t[j]
      PROVE  i = j
    <2>1. CASE i \in 1..Len(s) /\ j \in 1..Len(s)
        BY <1>1, <1>2, <1>3, <2>1
    <2>2. CASE i = Len(s) + 1 \/ j = Len(s) + 1
        BY <1>1, <1>3, <2>2
    <2> QED
        BY <1>1, <2>1, <2>2
<1> QED
    BY <1>1, <1>3 DEF IsInjective

\* What an interrupted run left differs, and has none of the calls made.
LEMMA LeftFacts ==
    ASSUME NEW s \in Left, NEW n \in Nat, 1..n \subseteq Call
    PROVE  /\ s \in Seq(Item) /\ DistinctCalls(s)
           /\ \A c \in IdsOf(s, "call") \cup IdsOf(s, "result") : c > n
<1>1. s \in Seq(Item)
    BY LeftAssumption
<1>2. \A i, j \in 1..Len(s) : s[i].kind = "call" /\ s[i] = s[j] => i = j
    BY LeftAssumption
<1>3. \A x \in ToSet(s) : x.kind \in {"call", "result"} => ~(1..x.id \subseteq Call)
    BY LeftAssumption
<1>4. DistinctCalls(s)
    <2> SUFFICES ASSUME NEW i \in 1..Len(s), NEW j \in 1..Len(s),
                        s[i].kind = "call", s[j].kind = "call", s[i].id = s[j].id
                 PROVE  i = j
        BY DEF DistinctCalls
    <2>1. s[i] \in Item /\ s[j] \in Item
        BY <1>1
    <2>2. s[i] = s[j]
        BY <2>1 DEF Item
    <2> QED
        BY <1>2, <2>2
<1>5. ASSUME NEW c \in IdsOf(s, "call") \cup IdsOf(s, "result")
      PROVE  c > n
    <2>1. c \in Nat
        BY <1>1, InCall
    <2>2. ~(1..c \subseteq Call)
        BY <1>3 DEF IdsOf
    <2>3. c <= n => 1..c \subseteq 1..n
        BY <2>1
    <2> QED
        BY <2>1, <2>2, <2>3
<1> QED
    BY <1>1, <1>4, <1>5

\* A stream that may end in a round keeps its calls apart from the results.
LEMMA StreamingStep ==
    ASSUME Typed, Kept, Indexed, Unmade, Before, Fresh, Streaming, Running, Asking, Coding, Once,
           [Next]_vars
    PROVE  Streaming'
<1>a. /\ TypeOK /\ output \in Seq(Item) /\ prior \in Seq(Item) /\ sent \in Seq(Item)
      /\ asked \in Seq(Call) /\ made \in Nat /\ runs \in [Call -> Nat]
      /\ mode.api \in {"chat", "responses"}
    BY TypeFacts
<1>b. /\ mode' = mode
      /\ made' = made + 1 => made + 1 \in New
    BY <1>a, ModeKept, NewShrinks
<1>c. made + 1 \in New => /\ made + 1 \notin Numbers(prior) /\ made + 1 \notin Numbers(output)
                          /\ made + 1 \notin ToSet(asked) /\ made + 1 \in Call
    BY DEF Unmade, New
<1>d. \A c \in IdsOf(output, "call") \cup IdsOf(output, "result") : c \in Nat
    BY <1>a, InCall
<1>1. CASE ~(pc' = "stream" /\ loop' # "code")
    BY <1>1 DEF Streaming
<1>2. CASE Load
    <2>1. /\ output' = mode.left /\ prior = <<>> /\ sent = <<>> /\ asked = <<>> /\ pending = <<>>
          /\ UNCHANGED <<prior, sent, asked, pending, made, runs>>
          /\ \A c \in Call : runs[c] > 0 => c \in IdsOf(mode.left, "result")
        BY <1>2 DEF Load, Before, Fresh, stream, tools, ghosts
    <2>2. mode.left \in Left /\ 1..made \subseteq Call
        BY <1>a DEF TypeOK, Unmade
    <2>3. /\ DistinctCalls(mode.left)
          /\ \A c \in IdsOf(mode.left, "call") \cup IdsOf(mode.left, "result") : c > made
        BY <1>a, <2>2, LeftFacts
    <2>4. mode.api = "responses" => mode.left = <<>>
        BY DEF Indexed
    <2>5. IsInjective(<<>>) /\ ToSet(<<>>) = {}
        BY DEF IsInjective, ToSet
    <2> QED
        BY <1>b, <2>1, <2>3, <2>4, <2>5, Empty DEF Streaming
<1>3. CASE Ask
    <2>1. /\ pc = "ask" /\ prior' = Trim(output) /\ output' = <<>>
          /\ UNCHANGED <<sent, asked, pending, made, runs>>
        BY <1>3 DEF Ask, stream, tools, ghosts
    <2>2. sent = <<>> /\ asked = <<>> /\ pending = <<>>
        BY <2>1 DEF Fresh
    <2>3. Served(output, made, {}) /\ \A c \in Call : runs[c] > 0 => c \in IdsOf(output, "result")
        BY <2>1 DEF Asking
    <2>4. Trim(output) \in Seq(Item) /\ SameCalls(output, Trim(output))
        BY <1>a, TrimType, SameTrim
    <2>5. Served(Trim(output), made, {}) /\ IdsOf(Trim(output), "result") = IdsOf(output, "result")
        BY <1>a, <2>3, <2>4, SameServed, SameIds
    <2>6. IsInjective(<<>>) /\ ToSet(<<>>) = {}
        BY DEF IsInjective, ToSet
    <2> QED
        BY <1>b, <2>1, <2>2, <2>3, <2>5, <2>6, Empty DEF Streaming
<1>4. CASE (ChatText \/ ChatCode) /\ loop # "code"
    <2>1. /\ output' \in Seq(Item) /\ SameCalls(output, output') /\ pc = "stream" /\ mode.api = "chat"
          /\ UNCHANGED <<prior, asked, pending, made, runs>>
        BY <1>4, SameChunk DEF ghosts, ChatText, ChatCode
    <2>2. /\ IdsOf(output', "call") = IdsOf(output, "call")
          /\ IdsOf(output', "result") = IdsOf(output, "result")
        BY <1>a, <2>1, SameIds
    <2>3. DistinctCalls(output')
        BY <1>a, <1>4, <2>1, SameDistinct DEF Streaming
    <2> QED
        BY <1>b, <1>4, <2>1, <2>2, <2>3 DEF Streaming
<1>5. CASE ChatCall /\ loop # "code"
    <2>1. /\ pc = "stream" /\ mode.api = "chat" /\ made' = made + 1 /\ asked' = Append(asked, made + 1)
          /\ ToSet(asked') = ToSet(asked) \cup {made + 1}
          /\ UNCHANGED <<output, prior, pending, runs>>
        BY <1>5, ChatCalls DEF tools
    <2> DEFINE results == IdsOf(prior, "result") \cup IdsOf(output, "result")
    <2>2. /\ pending = <<>> /\ Served(prior, made, {})
          /\ \A c \in Call : runs[c] > 0 => c \in results
          /\ IsInjective(asked) /\ ToSet(asked) \cap results = {} /\ DistinctCalls(output)
          /\ \A c \in IdsOf(output, "call") \cup IdsOf(output, "result") : c > made
        BY <1>5, <2>1 DEF Streaming
    <2>3. /\ made + 1 \notin IdsOf(prior, "call") /\ made + 1 \notin results
          /\ made + 1 \notin IdsOf(output, "call") /\ made + 1 \in Call
        BY <1>b, <1>c, <2>1 DEF Numbers
    <2>4. Served(prior, made + 1, {})
        BY <1>a, <2>2, <2>3, ServedGrow
    <2>5. IsInjective(asked')
        <3>1. IsInjective(asked) /\ made + 1 \in Call /\ made + 1 \notin ToSet(asked)
            BY <1>b, <1>c, <2>1, <2>2
        <3> QED
            BY <1>a, <2>1, <3>1, AppendDiffers
    <2>6. \A c \in IdsOf(output, "call") \cup IdsOf(output, "result") : c > made + 1
        BY <1>a, <1>d, <2>2, <2>3
    <2> QED
        BY <1>b, <2>1, <2>2, <2>3, <2>4, <2>5, <2>6 DEF Streaming
<1>6. CASE ResponseText \/ ResponseCall
    <2>1. /\ pc = "stream" /\ loop # "code" /\ mode.api = "responses"
          /\ UNCHANGED <<prior, pending, asked, runs>>
        BY <1>6, Responses DEF tools
    <2>2. PICK x \in Item : /\ output' = Append(output, x) /\ sent' = Append(output, x)
                            /\ \/ x = Text /\ made' = made
                               \/ x = CallItem(made + 1) /\ made' = made + 1 /\ made + 1 \in Call
        BY <1>6, Responses
    <2> DEFINE results == IdsOf(prior, "result") \cup IdsOf(output, "result")
    <2>3. /\ pending = <<>> /\ Served(prior, made, {})
          /\ \A c \in Call : runs[c] > 0 => c \in results
          /\ DistinctCalls(output)
          /\ \A c \in IdsOf(output, "result") : c > made
          /\ asked = <<>> /\ IdsOf(output, "call") \cap results = {}
        BY <2>1 DEF Streaming
    <2>4. IsInjective(asked) /\ ToSet(asked) = {}
        BY <2>3 DEF IsInjective, ToSet
    <2> DEFINE long == Append(output, x)
    <2>5. CASE x = Text /\ made' = made
        <3>1. long \in Seq(Item) /\ SameCalls(output, long)
            BY <1>a, <2>5, SameAppend DEF Text
        <3>2. /\ IdsOf(long, "result") = IdsOf(output, "result")
              /\ IdsOf(long, "call") = IdsOf(output, "call") /\ DistinctCalls(long)
            BY <1>a, <2>3, <3>1, SameIds, SameDistinct
        <3> HIDE DEF long
        <3>3. output' = long /\ sent' = long
            BY <2>2 DEF long
        <3> QED
            BY <1>b, <2>1, <2>3, <2>4, <2>5, <3>2, <3>3 DEF Streaming
    <2>6. CASE x = CallItem(made + 1) /\ made' = made + 1 /\ made + 1 \in Call
        <3>1. /\ made + 1 \notin IdsOf(prior, "call") /\ made + 1 \notin results
              /\ made + 1 \notin IdsOf(output, "call")
            BY <1>b, <1>c, <2>6 DEF Numbers
        <3>2. x.kind = "call" /\ x.id = made + 1
            BY <2>6 DEF CallItem
        <3>3. /\ IdsOf(long, "result") = IdsOf(output, "result")
              /\ IdsOf(long, "call") = IdsOf(output, "call") \cup {made + 1}
            BY <1>a, <3>2, AppendNumbers
        <3>4. DistinctCalls(long)
            <4>1. /\ Len(output) \in Nat /\ Len(long) = Len(output) + 1
                  /\ \A i \in 1..Len(output) : long[i] = output[i]
                  /\ long[Len(output) + 1] = x
                BY <1>a
            <4>2. \A i \in 1..Len(output) : output[i].kind = "call" => output[i].id # made + 1
                BY <1>a, <3>1, IdsOfKind
            <4> HIDE DEF long
            <4> SUFFICES ASSUME NEW i \in 1..Len(long), NEW j \in 1..Len(long),
                                long[i].kind = "call", long[j].kind = "call", long[i].id = long[j].id
                         PROVE  i = j
                BY DEF DistinctCalls
            <4>3. CASE i \in 1..Len(output) /\ j \in 1..Len(output)
                BY <2>3, <4>1, <4>3 DEF DistinctCalls
            <4>4. CASE i = Len(output) + 1 \/ j = Len(output) + 1
                BY <3>2, <4>1, <4>2, <4>4
            <4> QED
                BY <4>1, <4>3, <4>4
        <3>5. Served(prior, made + 1, {})
            BY <1>a, <2>3, <3>1, ServedGrow
        <3>6. \A c \in IdsOf(output, "result") : c > made + 1
            BY <1>a, <1>d, <2>3, <3>1
        <3> HIDE DEF long
        <3>7. output' = long /\ sent' = long
            BY <2>2 DEF long
        <3> QED
            BY <1>b, <2>1, <2>3, <2>4, <2>6, <3>1, <3>3, <3>4, <3>5, <3>6, <3>7 DEF Streaming
    <2> QED
        BY <2>2, <2>5, <2>6
<1>7. CASE ResponseCompleted /\ loop # "code"
    <2>1. /\ pc = "stream" /\ mode.api = "responses" /\ output' = sent
          /\ UNCHANGED <<prior, sent, asked, pending, made, runs>>
        BY <1>7 DEF ResponseCompleted, stream, tools, ghosts
    <2>2. output' = output
        BY <1>7, <2>1 DEF Streaming
    <2> QED
        BY <1>b, <1>7, <2>1, <2>2 DEF Streaming
<1>8. CASE /\ pc' = "stream" /\ loop' # "code" /\ ~Load /\ ~Ask
           /\ ~(ChatText \/ ChatCode \/ ChatCall \/ ResponseText \/ ResponseCall \/ ResponseCompleted)
    <2>1. ~StreamEnds
        <3> SUFFICES ASSUME StreamEnds PROVE FALSE
            OBVIOUS
        <3>1. CASE loop = "code"
            BY <1>8, <3>1 DEF StreamEnds
        <3>2. CASE loop # "code"
            BY <1>8, <3>2, Ends
        <3> QED
            BY <3>1, <3>2
    <2>2. /\ pc = "stream" /\ loop' = loop
          /\ UNCHANGED <<output, prior, sent, asked, pending, made, runs>>
        BY <1>8, <2>1, AfterToolsPlace
        DEF Next, Chunk, Step, vars, stream, tools, ghosts, Handling, Execute,
            Prepared, PrepareRaises, Error, PlainError, PlainAnswer, PlainOutlet, PlainSilent,
            StreamRaises, Results, ResultsRaise, AskRefused, AskRaises, Say, SayLimit,
            RunCode, AskCode, Save, Finish, Outlet, Background, LateRaises,
            Close, SaveCancelled, ErrorChunk, Stop, Ended
    <2> QED
        BY <1>b, <1>8, <2>2 DEF Streaming
<1>9. pc' = "stream" /\ (ChatText \/ ChatCode \/ ChatCall \/ ResponseCompleted) => loop' = loop
    BY DEF ChatText, ChatCode, ChatCall, ResponseCompleted, Deliver
<1> QED
    BY <1>1, <1>2, <1>3, <1>4, <1>5, <1>6, <1>7, <1>8, <1>9

\* Calls and results bring no code into a list.
LEMMA FreeWithCalls ==
    ASSUME NEW out \in Seq(Item), CodeFree(out), NEW calls \in Seq(Call)
    PROVE  CodeFree(WithCalls(out, calls))
<1> DEFINE new == Pick(calls, Call \ IdsOf(out, "call"))
           items == [i \in 1..Len(new) |-> CallItem(new[i])]
<1>1. new \in Seq(Call)
    BY Picked
<1> HIDE DEF new
<1>2. items \in Seq(Item) /\ Len(items) = Len(new) /\ Len(new) \in Nat
    BY <1>1, Items
<1>3. CodeFree(items)
    BY <1>2 DEF CallItem, CodeFree
<1> HIDE DEF items
<1>4. CodeFree(out \o items)
    BY <1>2, <1>3 DEF CodeFree
<1> QED
    BY <1>4 DEF WithCalls, new, items

\* Neither do the results of a round.
LEMMA FreeRound ==
    ASSUME NEW out \in Seq(Item), CodeFree(out), NEW calls \in Seq(Call)
    PROVE  CodeFree((out \o [i \in 1..Len(calls) |-> Result(calls[i])]) \o <<Blank>>)
<1> DEFINE items == [i \in 1..Len(calls) |-> Result(calls[i])]
<1>1. items \in Seq(Item) /\ Len(items) = Len(calls) /\ Len(calls) \in Nat
    BY Items
<1>2. \A i \in 1..Len(items) : items[i].kind = "result"
    BY <1>1 DEF Result
<1> HIDE DEF items
<1>3. Blank \in Item /\ Blank.kind = "text"
    BY Items DEF Blank
<1>4. out \o items \in Seq(Item) /\ CodeFree(out \o items)
    BY <1>1, <1>2 DEF CodeFree
<1>5. CodeFree((out \o items) \o <<Blank>>)
    BY <1>3, <1>4 DEF CodeFree
<1> QED
    BY <1>5 DEF items

\* Where the list of the Chat Completions API has its calls served.
AllServed == pc \in {"limit", "say", "code", "askCode"} \/ (pc = "stream" /\ loop = "code")

\* The code interpreter of the Chat Completions API only changes texts and code.
LEMMA ChatCodingStep ==
    ASSUME Typed, Kept, Indexed, Unmade, Before, Fresh, Streaming, Running, Asking, Coding, Once,
           [Next]_vars
    PROVE  mode.api = "chat" => (AllServed' => Served(output', made', {}))
<1> SUFFICES ASSUME mode.api = "chat", AllServed' PROVE Served(output', made', {})
    OBVIOUS
<1>a. TypeOK /\ output \in Seq(Item) /\ made \in Nat
    BY TypeFacts
<1>b. AllServed => Served(output, made, {})
    BY DEF Coding, AllServed
<1>1. CASE StreamEnds /\ loop # "code"
    <2>1. made' = made
        BY <1>1 DEF StreamEnds, ghosts
    <2>2. pc' # "run"
        BY DEF AllServed
    <2> QED
        BY <1>1, <2>1, <2>2, Ends
<1>2. CASE StreamEnds /\ loop = "code"
    <2>1. PICK closing \in Closings(output) : output' = Ending(closing)
        BY <1>2 DEF StreamEnds
    <2>2. made' = made /\ AllServed
        BY <1>2 DEF StreamEnds, ghosts, AllServed
    <2>3. output' \in Seq(Item) /\ SameCalls(output, output')
        BY <1>a, <2>1, EndingType, SameEnding
    <2> QED
        BY <1>a, <1>b, <2>2, <2>3, SameServed
<1>3. CASE RunCode
    <2>1. made' = made /\ AllServed
        BY <1>3 DEF RunCode, ghosts, AllServed
    <2> QED
        BY <1>3, <1>a, <1>b, <2>1, SameRan, SameServed
<1>4. CASE ChatText \/ ChatCode
    <2>1. made' = made /\ AllServed
        BY <1>4, SameChunk DEF ghosts, AllServed
    <2> QED
        BY <1>4, <1>a, <1>b, <2>1, SameChunk, SameServed
<1>5. CASE ChatCall
    <2>1. /\ made' = made + 1 /\ output' = output /\ AllServed
        BY <1>5, ChatCalls DEF AllServed
    <2>2. made + 1 \notin IdsOf(output, "call")
        BY <1>a, <2>1, NewShrinks DEF Unmade, Numbers
    <2>3. Served(output, made + 1, {})
        BY <1>a, <1>b, <2>1, <2>2, ServedGrow
    <2> QED
        BY <2>1, <2>3
<1>6. CASE StreamRaises
    <2>1. pc = "stream" /\ UNCHANGED <<output, made>>
        BY <1>6 DEF StreamRaises, ghosts
    <2>2. CASE loop = "code"
        BY <1>b, <2>1, <2>2 DEF AllServed
    <2>3. CASE loop # "code"
        <3>1. \A c \in IdsOf(output, "call") : c > made /\ c \in Nat
            BY <1>a, <2>1, <2>3, InCall DEF Streaming
        <3>2. \A i \in 1..Len(output) : output[i].kind = "call" => output[i].id \in IdsOf(output, "call")
            BY <1>a, IdsOfKind
        <3> QED
            BY <1>a, <2>1, <3>1, <3>2 DEF Served
    <2> QED
        BY <2>2, <2>3
<1>7. CASE AskRaises \/ AskRefused
    <2>1. pc \in {"ask", "askCode"} /\ UNCHANGED <<output, made>>
        BY <1>7 DEF AskRaises, AskRefused, ghosts
    <2> QED
        BY <1>b, <2>1 DEF Asking, AllServed
<1>8. CASE ~(StreamEnds \/ RunCode \/ ChatText \/ ChatCode \/ ChatCall \/ StreamRaises
                \/ AskRaises \/ AskRefused)
    <2>1. AllServed /\ UNCHANGED <<output, made>>
        BY <1>8, AfterToolsPlace
        DEF AllServed, Before, Next, Chunk, Step, vars, stream, tools, ghosts, Handling, Execute,
            Deliver, ResponseItem,
            Prepared, PrepareRaises, Error, PlainError, PlainAnswer, PlainOutlet, PlainSilent,
            Load, Results, ResultsRaise, Ask, Say, SayLimit, AskCode,
            Save, Finish, Outlet, Background, LateRaises, Close, SaveCancelled,
            ResponseText, ResponseCall, ResponseCompleted, ErrorChunk, Stop, Ended
    <2> QED
        BY <1>b, <2>1
<1> QED
    BY <1>1, <1>2, <1>3, <1>4, <1>5, <1>6, <1>7, <1>8

\* What the lists and the place of the Responses API never are.
Plain ==
    /\ CodeFree(sent) /\ CodeFree(output) /\ CodeFree(prior)
    /\ pc \notin {"code", "askCode"} /\ loop # "code"

\* With the Responses API it is never reached.
LEMMA ResponsesCodingStep ==
    ASSUME Typed, Kept, Indexed, Unmade, Before, Fresh, Streaming, Running, Asking, Coding, Once,
           [Next]_vars
    PROVE  mode.api = "responses" => Plain'
<1> SUFFICES ASSUME mode.api = "responses" PROVE Plain'
    OBVIOUS
<1>a. TypeOK /\ output \in Seq(Item) /\ prior \in Seq(Item) /\ sent \in Seq(Item) /\ batch \in Seq(Call)
    BY TypeFacts
<1>b. Plain
    BY DEF Coding, Plain
<1>c. AfterTools(output) = "save"
    BY <1>a, <1>b, AfterToolsPlace, FreeTrim DEF Plain
<1>1. CASE StreamEnds
    <2>1. loop # "code" /\ CodeFree(prior) /\ CodeFree(output)
        BY <1>b DEF Plain
    <2>2. sent' = <<>> /\ loop' = loop
        BY <1>1 DEF StreamEnds
    <2>3. PICK all \in Seq(Item) :
             /\ CodeFree(all) /\ prior' = <<>>
             /\ \/ pc' = "run" /\ batch' \in Seq(Call) /\ output' = WithCalls(all, batch')
                \/ pc' \in {"limit", "code", "save"} /\ output' = all /\ pc' # "code"
        BY <1>1, <2>1, Ends
    <2>4. CodeFree(output')
        BY <2>3, FreeWithCalls
    <2>5. pc' \notin {"code", "askCode"}
        BY <2>3
    <2>6. prior' = <<>>
        BY <2>3
    <2> QED
        BY <2>1, <2>2, <2>4, <2>5, <2>6, Empty DEF Plain
<1>2. CASE Load
    <2>1. output' = <<>> /\ UNCHANGED <<loop, prior, sent>> /\ pc' = "stream"
        BY <1>2 DEF Load, Before, Indexed, stream
    <2> QED
        BY <1>b, <2>1, Empty DEF Plain
<1>3. CASE Results
    <2>1. CodeFree(output')
        BY <1>a, <1>b, <1>3, FreeRound DEF Results, Plain
    <2>2. UNCHANGED <<loop, prior, sent>> /\ pc' = "ask"
        BY <1>3 DEF Results, stream
    <2> QED
        BY <1>b, <2>1, <2>2 DEF Plain
<1>4. CASE Ask
    <2>1. prior' = Trim(output) /\ output' = <<>> /\ sent' = sent /\ loop' = "tool" /\ pc' = "stream"
        BY <1>4 DEF Ask, stream
    <2>2. CodeFree(Trim(output))
        BY <1>a, <1>b, FreeTrim DEF Plain
    <2> QED
        BY <1>b, <2>1, <2>2, Empty DEF Plain
<1>5. CASE ResponseText \/ ResponseCall
    <2>1. pc = "stream" /\ UNCHANGED <<pc, loop, prior>>
        BY <1>5, Responses
    <2>2. PICK x \in {Text, CallItem(made + 1)} :
             x \in Item /\ output' = Append(output, x) /\ sent' = Append(output, x)
        BY <1>5, Responses
    <2>3. x.kind # "code"
        BY DEF Text, CallItem
    <2>4. CodeFree(Append(output, x))
        BY <1>a, <1>b, <2>2, <2>3, FreeResponse DEF Plain
    <2> QED
        BY <1>b, <2>1, <2>2, <2>4 DEF Plain
<1>6. CASE ResponseCompleted
    BY <1>b, <1>6 DEF Plain, ResponseCompleted, stream
<1>7. CASE AskRefused \/ AskRaises \/ Say \/ SayLimit
    BY <1>b, <1>c, <1>7 DEF Plain, AskRefused, AskRaises, Say, SayLimit, stream
<1>8. CASE ~(StreamEnds \/ Load \/ Results \/ Ask \/ ResponseText \/ ResponseCall
                \/ ResponseCompleted \/ AskRefused \/ AskRaises \/ Say \/ SayLimit)
    <2>1. pc \notin {"code", "askCode"}
        BY <1>b DEF Plain
    <2>2. UNCHANGED <<output, prior, sent, loop>> /\ pc' \notin {"code", "askCode"}
        BY <1>8, <2>1
        DEF Next, Chunk, Step, vars, stream, tools, ghosts, Handling, Execute,
            Prepared, PrepareRaises, Error, PlainError, PlainAnswer, PlainOutlet, PlainSilent,
            StreamRaises, ResultsRaise, RunCode, AskCode, Save, Finish, Outlet,
            Background, LateRaises, Close, SaveCancelled, ChatText, ChatCall, ChatCode,
            ErrorChunk, Stop, Ended
    <2> QED
        BY <1>b, <2>2 DEF Plain
<1> QED
    BY <1>1, <1>2, <1>3, <1>4, <1>5, <1>6, <1>7, <1>8

\* Both together.
LEMMA CodingStep ==
    ASSUME Typed, Kept, Indexed, Unmade, Before, Fresh, Streaming, Running, Asking, Coding, Once,
           [Next]_vars
    PROVE  Coding'
<1>1. mode' = mode
    BY ModeKept
<1> QED
    BY <1>1, ChatCodingStep, ResponsesCodingStep DEF Coding, AllServed, Plain

\* At the start there are only the calls an interrupted run made.
LEMMA CallsInit ==
    ASSUME Init
    PROVE  Calls
<1> SUFFICES ASSUME Indexed
             PROVE  Unmade /\ Before /\ Fresh /\ Streaming /\ Running /\ Asking /\ Coding /\ Once
    BY DEF Calls
<1>1. /\ pc = "prepare" /\ loop = "first" /\ mode.left \in Left /\ made = 0
      /\ output = <<>> /\ prior = <<>> /\ sent = <<>> /\ asked = <<>> /\ batch = <<>> /\ pending = <<>>
      /\ stored.output = mode.left
    BY DEF Init
<1>2. \A c \in Call : runs[c] = IF c \in IdsOf(mode.left, "result") THEN 1 ELSE 0
    BY DEF Init
<1>3. \A c \in New : c \in Call /\ c \in Nat /\ 1..c \subseteq Call
    BY <1>1, CallAssumption DEF New
<1>4. Numbers(mode.left) \cap New = {}
    <2> SUFFICES ASSUME NEW c \in New, c \in Numbers(mode.left) PROVE FALSE
        OBVIOUS
    <2>1. c > c
        BY <1>1, <1>3, LeftFacts DEF Numbers
    <2> QED
        BY <1>3, <2>1
<1>5. Unmade
    <2>1. 1..made \subseteq Call
        BY <1>1
    <2>2. ToSet(<<>>) = {}
        BY DEF ToSet
    <2>3. \A c \in New : runs[c] = 0
        BY <1>2, <1>3, <1>4 DEF Numbers
    <2> QED
        BY <1>1, <1>4, <2>1, <2>2, <2>3, Empty DEF Unmade
<1>6. Before /\ Fresh /\ Once
    <2>1. \A c \in Call : runs[c] > 0 => c \in IdsOf(mode.left, "result")
        BY <1>2
    <2>2. \A c \in Call : runs[c] <= 1
        BY <1>2
    <2> QED
        BY <1>1, <2>1, <2>2 DEF Before, Fresh, Once
<1>7. Streaming /\ Running /\ Asking
    BY <1>1 DEF Streaming, Running, Asking
<1>8. Coding
    BY <1>1, Empty DEF Coding
<1> QED
    BY <1>5, <1>6, <1>7, <1>8

\* Whenever the model is asked to go on, the calls it made are served.
LEMMA CallsTold ==
    ASSUME Typed, Calls
    PROVE  CallsSound
<1> SUFFICES ASSUME Indexed PROVE CallsSound
    BY DEF CallsSound, RunOnce, CallsPaired
<1>1. Once /\ Asking /\ Coding
    BY DEF Calls
<1>2. ASSUME pc \in {"ask", "askCode"}
      PROVE  Served(output, made, {})
    BY <1>1, <1>2, TypeFacts DEF Asking, Coding
<1>3. CallsPaired
    BY <1>2 DEF CallsPaired, Served, PairedAt
<1> QED
    BY <1>1, <1>3 DEF CallsSound, RunOnce, Once

\* No call is executed twice, and the model is asked to go on only with a list in
\* which each call it made has its one result.
THEOREM CallsSoundly == Spec => []CallsSound
<1> DEFINE Inv == Typed /\ Rounds /\ NoCode /\ Kept /\ Calls
<1>1. Init => Inv
    <2>1. Init => Typed /\ Rounds /\ NoCode /\ Kept
        BY TypedInit DEF Init, Rounds, NoCode, Kept, CodeFree
    <2>2. Init => Calls
        BY CallsInit
    <2> QED
        BY <2>1, <2>2
<1>2. Inv /\ [Next]_vars => Inv'
    <2> SUFFICES ASSUME Inv, [Next]_vars PROVE Inv'
        OBVIOUS
    <2>1. (Typed /\ Rounds /\ NoCode /\ Kept)'
        BY TypedStep, RoundsStep, NoCodeStep, KeptStep
    <2>2. Indexed' = Indexed
        BY ModeKept DEF Indexed
    <2>3. Calls'
        BY <2>2, UnmadeStep, BeforeStep, FreshStep, StreamingStep, RunningStep, AskingStep,
           CodingStep, OnceStep DEF Calls
    <2> QED
        BY <2>1, <2>3
<1>3. Inv => CallsSound
    BY CallsTold
<1> QED
    BY <1>1, <1>2, <1>3, PTL DEF Spec

-----------------------------------------------------------------------------
(* The OAuth sessions.                                                     *)

Row == [id: Id, provider: {"sso", "mcp"}, refresh: Nat, fresh: BOOLEAN, updated: Nat]
Reader == [at: {"idle", "find", "refresh", "save", "drop", "list", "done"}, who: Who,
           id: 0..MaxCreated, refresh: Nat, retried: BOOLEAN, got: BOOLEAN]

OAuthTyped ==
    /\ grant \in Grant
    /\ table \subseteq Row
    /\ clock \in Nat
    /\ accepted \in [Id -> Nat]
    /\ cookie \in [Device -> 0..MaxCreated]
    /\ reader \in [Caller -> Reader]
    /\ writer \in [Device -> [at: {"idle", "list", "prune", "create"},
                              what: {"sso", "mcp", "logout"}, doomed: SUBSET Id]]
    /\ created \in 0..MaxCreated
    /\ ended \subseteq Id

\* The request has read a session that it refreshes.
Under(c) == reader[c].at \in {"refresh", "save", "drop"}

\* Nothing excuses the loss of the session.
Calm(s) == s \notin broken /\ ~Raced(s)

\* A session has one row.
Unique == \A r, x \in table : r.id = x.id => r = x

\* A session's number is used once.
Numbered ==
    /\ Unique
    /\ \A r \in table : r.id <= created
    /\ \A s \in ended : s <= created
    /\ \A c \in Caller : Under(c) => reader[c].id \in Id /\ reader[c].id <= created

\* A callback or logout has sessions to delete only while it deletes them,
\* and a logout creates none.
Deleting ==
    \A d \in Device : /\ writer[d].at # "prune" => writer[d].doomed = {}
                      /\ writer[d].at = "create" => writer[d].what # "logout"

\* Of one-time tokens: two requests that refresh a session have raced.
Alone ==
    \A c, o \in Caller :
       c # o /\ Under(c) /\ Under(o) /\ reader[c].id = reader[o].id /\ grant = "rotating"
          => reader[c].id \in overlapped

\* The sign-in's manager refreshes no session of an MCP server.
Fits ==
    \A c \in Caller :
       reader[c].at = "refresh" /\ reader[c].who # "mcp" =>
          \A r \in table : r.id = reader[c].id => r.provider # "mcp"

\* A request that refreshes holds the token the provider accepts ...
Held ==
    \A c \in Caller :
       reader[c].at \in {"refresh", "save"} /\ Calm(reader[c].id)
          => reader[c].refresh = accepted[reader[c].id]

\* ... and so does the row, unless its token has just been replaced.
Current ==
    \A r \in table :
       Calm(r.id) => \/ r.refresh = accepted[r.id]
                     \/ /\ grant = "rotating"
                        /\ \E c \in Caller : reader[c].at = "save" /\ reader[c].id = r.id

Given ==
    \A c \in Caller : reader[c].at = "drop" => reader[c].refresh = 0 \/ ~Calm(reader[c].id)

TokenInv == Alone /\ Fits /\ Held /\ Current /\ Given
IInv == OAuthTyped /\ Numbered /\ Deleting /\ TokenInv /\ LogoutFinal

-----------------------------------------------------------------------------
(* What the actions do to requests and rows                                *)

\* The request is no longer, or not yet, refreshing.
Leaves(c) ==
    \E r \in Reader : r.at \notin {"refresh", "save", "drop"} /\ reader' = [reader EXCEPT ![c] = r]

\* A session that is there has a row.
LEMMA RowFacts == ASSUME NEW s \in Ids PROVE RowOf(s) \in table /\ RowOf(s).id = s
    BY DEF Ids, RowOf

\* The number of sessions ever created is bounded by a natural number.
LEMMA Bound == MaxCreated \in Nat
    BY BudgetAssumption

\* A request that has not begun is well formed.
LEMMA IdleReader == Idle \in Reader
    BY Bound DEF Idle, Reader, Who

\* A request that is answered refreshes nothing.
LEMMA AnswerLeaves ==
    ASSUME OAuthTyped, NEW c \in Caller, NEW found \in BOOLEAN, Answer(c, found)
    PROVE  Leaves(c)
<1> DEFINE next == [Idle EXCEPT !.at = "done", !.who = reader[c].who, !.got = found]
<1>1. reader[c].who \in Who
    BY DEF OAuthTyped, Reader
<1>2. next \in Reader /\ next.at = "done"
    BY <1>1, IdleReader DEF Reader
<1> QED
    BY <1>2 DEF Answer, Go, Leaves

\* Nor does one whose manager returned None.
LEMMA MissLeaves == ASSUME OAuthTyped, NEW c \in Caller, Miss(c) PROVE Leaves(c)
<1>1. CASE Answer(c, FALSE)
    BY <1>1, AnswerLeaves
<1>2. CASE Go(c, [Idle EXCEPT !.at = "list", !.who = reader[c].who, !.retried = TRUE])
    <2> DEFINE next == [Idle EXCEPT !.at = "list", !.who = reader[c].who, !.retried = TRUE]
    <2>1. reader[c].who \in Who
        BY DEF OAuthTyped, Reader
    <2>2. next \in Reader /\ next.at = "list"
        BY <2>1, IdleReader DEF Reader
    <2> QED
        BY <1>2, <2>2 DEF Go, Leaves
<1> QED
    BY <1>1, <1>2 DEF Miss

\* A row after the update of session s.
After(r, s, token) ==
    IF r.id = s THEN [r EXCEPT !.refresh = token, !.fresh = TRUE, !.updated = clock'] ELSE r

\* An update changes the token of one row, and no identity.
LEMMA UpdateRows ==
    ASSUME OAuthTyped, NEW s, NEW token \in Nat, Update(s, token)
    PROVE  /\ table' \subseteq Row /\ clock' \in Nat
           /\ \A x \in table' : \E r \in table :
                 /\ x.id = r.id /\ x.provider = r.provider
                 /\ x.refresh = IF r.id = s THEN token ELSE r.refresh
                 /\ x = After(r, s, token)
<1>0. clock' \in Nat
    <2>1. Tick
        BY DEF Update
    <2> QED
        BY <2>1 DEF Tick, OAuthTyped
<1>1. \A r \in Row : /\ After(r, s, token) \in Row /\ After(r, s, token).id = r.id
                     /\ After(r, s, token).provider = r.provider
                     /\ After(r, s, token).refresh = IF r.id = s THEN token ELSE r.refresh
    BY <1>0 DEF After, Row
<1>2. table' = {After(r, s, token) : r \in table}
    BY DEF Update, After
<1> QED
    BY <1>0, <1>1, <1>2 DEF OAuthTyped

\* A row once the session's token has expired.
Expired(r, s) == IF r.id = s THEN [r EXCEPT !.fresh = FALSE] ELSE r

\* An expiry changes no token and no identity.
LEMMA ExpireRows ==
    ASSUME OAuthTyped, NEW s \in Id, Expire(s)
    PROVE  /\ table' \subseteq Row
           /\ \A x \in table' : \E r \in table :
                 /\ x.id = r.id /\ x.provider = r.provider /\ x.refresh = r.refresh
                 /\ x = Expired(r, s)
<1>1. \A r \in Row : /\ Expired(r, s) \in Row /\ Expired(r, s).id = r.id
                     /\ Expired(r, s).provider = r.provider /\ Expired(r, s).refresh = r.refresh
    BY DEF Expired, Row
<1>2. table' = {Expired(r, s) : r \in table}
    BY DEF Expire, Expired
<1> QED
    BY <1>1, <1>2 DEF OAuthTyped

\* Only sessions that are there are deleted; a logout deletes all it found.
LEMMA DoomedFacts == ASSUME NEW what \in {"sso", "mcp", "logout"}
                     PROVE Doomed(what) \subseteq Ids /\ (what = "logout" => Doomed(what) = Ids)
    BY DEF Doomed, Oldest, IdsFor, Ids

\* Every step keeps the variables well formed.
LEMMA OAuthTypedStep == OAuthTyped /\ Numbered /\ Deleting /\ [OAuthNext]_oauthVars => OAuthTyped'
<1> SUFFICES ASSUME OAuthTyped, Numbered, Deleting, [OAuthNext]_oauthVars PROVE OAuthTyped'
    OBVIOUS
<1>1. CASE UNCHANGED oauthVars
    BY <1>1 DEF oauthVars, OAuthTyped
<1>2. ASSUME UNCHANGED grant, NEW c \in Caller, Request(c),
             UNCHANGED <<cookie, writer, created, ended>>
      PROVE  OAuthTyped'
    <2>0. Leaves(c) => reader' \in [Caller -> Reader]
        BY DEF Leaves, OAuthTyped
    <2>1. ASSUME NEW who \in Who, NEW d \in Device \cup {"none"}, Seek(c, who, d) PROVE OAuthTyped'
        <3> DEFINE known == who # "mcp" /\ d # "none" /\ cookie[d] # 0
                   next == [Idle EXCEPT !.who = who,
                                        !.at = IF who = "mcp" \/ known THEN "find" ELSE "list",
                                        !.id = IF known THEN cookie[d] ELSE 0,
                                        !.retried = who # "mcp" /\ ~known]
        <3>1. known => cookie[d] \in 0..MaxCreated
            BY DEF OAuthTyped
        <3>2. next \in Reader
            <4>1. (IF who = "mcp" \/ known THEN "find" ELSE "list") \in {"find", "list"}
                OBVIOUS
            <4>2. (IF known THEN cookie[d] ELSE 0) \in 0..MaxCreated
                BY <3>1, Bound
            <4>3. (who # "mcp" /\ ~known) \in BOOLEAN
                OBVIOUS
            <4> HIDE DEF known
            <4> QED
                BY <4>1, <4>2, <4>3, IdleReader DEF Reader
        <3>3. reader' = [reader EXCEPT ![c] = next]
            BY <2>1 DEF Seek, Go
        <3> QED
            BY <2>1, <1>2, <3>2, <3>3 DEF Seek, OAuthTyped
    <2>2. CASE Find(c)
        <3>1. CASE Miss(c)
            BY <2>2, <3>1, <1>2, <2>0, MissLeaves DEF Find, Whole, OAuthTyped
        <3>2. CASE Answer(c, TRUE)
            BY <2>2, <3>2, <1>2, <2>0, AnswerLeaves DEF Find, Whole, OAuthTyped
        <3>3. ASSUME NEW s \in Wanted(c),
                     Go(c, [reader[c] EXCEPT !.at = "refresh", !.id = s, !.refresh = RowOf(s).refresh])
              PROVE  OAuthTyped'
            <4>1. s \in Ids
                BY DEF Wanted, Ids, IdsFor
            <4>2. s \in Id /\ RowOf(s).refresh \in Nat
                BY <4>1, RowFacts DEF OAuthTyped, Row
            <4>3. [reader[c] EXCEPT !.at = "refresh", !.id = s, !.refresh = RowOf(s).refresh] \in Reader
                <5>1. reader[c] \in Reader /\ s \in 0..MaxCreated
                    BY <4>2, Bound DEF OAuthTyped, Id
                <5> QED
                    BY <4>2, <5>1 DEF Reader
            <4> QED
                BY <2>2, <3>3, <4>3, <1>2 DEF Find, Whole, OAuthTyped, Go
        <3> QED
            BY <2>2, <3>1, <3>2, <3>3 DEF Find
    <2>3. CASE Refresh(c)
        <3>1. reader[c].id \in Id /\ accepted[reader[c].id] \in Nat /\ reader[c] \in Reader
            BY <2>3 DEF Refresh, Numbered, Under, OAuthTyped
        <3>2. \A x \in Nat, y \in Nat : Merged(x, y) \in Nat
            BY DEF Merged
        <3>3. Issues(reader[c].id) \in Nat
            BY <3>1 DEF Issues
        <3>4. reader[c].refresh \in Nat
            BY <3>1 DEF Reader
        <3>5. Merged(reader[c].refresh, Issues(reader[c].id)) \in Nat
            BY <3>2, <3>3, <3>4
        <3>6. [reader[c] EXCEPT !.at = "save", !.refresh = Merged(reader[c].refresh, Issues(reader[c].id))] \in Reader
              /\ [reader[c] EXCEPT !.at = "drop"] \in Reader
            BY <3>1, <3>5 DEF Reader
        <3> QED
            BY <2>3, <3>5, <3>6, <1>2 DEF Refresh, Whole, OAuthTyped, Go
    <2>4. CASE RefreshFails(c)
        <3>1. reader[c].id \in Id /\ accepted[reader[c].id] \in Nat /\ reader[c] \in Reader
            BY <2>4 DEF RefreshFails, Numbered, Under, OAuthTyped
        <3>2. Merged(reader[c].refresh, Issues(reader[c].id)) \in Nat
            BY <3>1 DEF Merged, Issues, Reader
        <3>3. [reader[c] EXCEPT !.at = "drop"] \in Reader
            BY <3>1 DEF Reader
        <3> QED
            BY <2>4, <3>2, <3>3, <1>2 DEF RefreshFails, Break, OAuthTyped, Go
    <2>5. CASE SaveToken(c)
        <3>1. Leaves(c)
            BY <2>5, MissLeaves, AnswerLeaves DEF SaveToken
        <3>2. table' \subseteq Row /\ clock' \in Nat
            BY <2>5, UpdateRows DEF SaveToken, OAuthTyped, Reader
        <3> QED
            BY <2>5, <1>2, <2>0, <3>1, <3>2 DEF SaveToken, Whole, OAuthTyped
    <2>6. CASE Drop(c)
        BY <2>6, <1>2, <2>0, MissLeaves DEF Drop, Delete, Whole, OAuthTyped
    <2>7. CASE FindFails(c) \/ SaveTokenFails(c) \/ DropFails(c)
        BY <2>7, <1>2, <2>0, MissLeaves DEF FindFails, SaveTokenFails, DropFails, Break, OAuthTyped
    <2>8. CASE Fallback(c)
        <3>1. CASE Answer(c, FALSE)
            BY <2>8, <3>1, <1>2, <2>0, AnswerLeaves DEF Fallback, Whole, OAuthTyped
        <3>2. ASSUME NEW best \in Latest(Candidates(c)),
                     Go(c, [reader[c] EXCEPT !.at = "find", !.id = best.id])
              PROVE  OAuthTyped'
            <4>1. best.id \in Id
                BY DEF Latest, Candidates, OAuthTyped, Row
            <4>2. [reader[c] EXCEPT !.at = "find", !.id = best.id] \in Reader
                <5>1. reader[c] \in Reader /\ best.id \in 0..MaxCreated
                    BY <4>1, Bound DEF OAuthTyped, Id
                <5> QED
                    BY <5>1 DEF Reader
            <4> QED
                BY <2>8, <3>2, <4>2, <1>2 DEF Fallback, Whole, OAuthTyped, Go
        <3> QED
            BY <2>8, <3>1, <3>2 DEF Fallback
    <2>9. CASE FallbackFails(c)
        BY <2>9, <1>2, <2>0, AnswerLeaves DEF FallbackFails, Break, OAuthTyped
    <2> QED
        BY <1>2, <2>1, <2>2, <2>3, <2>4, <2>5, <2>6, <2>7, <2>8, <2>9 DEF Request
<1>3. ASSUME UNCHANGED grant, Manage, UNCHANGED <<reader, overlapped>> PROVE OAuthTyped'
    <2>1. ASSUME NEW d \in Device, NEW what \in {"sso", "mcp", "logout"}, Begin(d, what) PROVE OAuthTyped'
        BY <1>3, <2>1 DEF Begin, Move, Resting, OAuthTyped
    <2>2. ASSUME NEW d \in Device, List(d) PROVE OAuthTyped'
        <3>1. Ids \subseteq Id
            BY DEF Ids, OAuthTyped, Row
        <3>2. Doomed(writer[d].what) \in SUBSET Id
            BY <3>1, DoomedFacts DEF OAuthTyped
        <3> QED
            BY <1>3, <2>2, <3>1, <3>2 DEF List, Move, Whole, OAuthTyped
    <2>3. ASSUME NEW d \in Device, ListFails(d) \/ Pruned(d) \/ CreateFails(d) PROVE OAuthTyped'
        BY <1>3, <2>3 DEF ListFails, Pruned, CreateFails, Break, Whole, Move, Resting, OAuthTyped
    <2>4. ASSUME NEW d \in Device, NEW s \in Id, Prune(d, s) \/ PruneFails(d, s) PROVE OAuthTyped'
        BY <1>3, <2>4 DEF Prune, PruneFails, Break, Whole, Move, Delete, OAuthTyped
    <2>5. ASSUME NEW d \in Device, Create(d) PROVE OAuthTyped'
        <3>1. created + 1 \in Id /\ created' \in 0..MaxCreated /\ FirstToken \in Nat
            BY <2>5, Bound DEF Create, OAuthTyped, Id, FirstToken
        <3>2. writer[d].what \in {"sso", "mcp"}
            BY <2>5 DEF Create, Deleting, OAuthTyped
        <3>3. table' \subseteq Row /\ clock' \in Nat
            <4> DEFINE new == [id |-> created + 1, provider |-> writer[d].what, refresh |-> FirstToken,
                              fresh |-> TRUE, updated |-> clock']
            <4>1. new \in Row /\ clock' \in Nat
                BY <2>5, <3>1, <3>2 DEF Create, Tick, OAuthTyped, Row
            <4>2. table' = table \cup {new}
                BY <2>5 DEF Create
            <4> QED
                BY <4>1, <4>2 DEF OAuthTyped
        <3>4. accepted' \in [Id -> Nat] /\ cookie' \in [Device -> 0..MaxCreated]
            BY <2>5, <3>1 DEF Create, OAuthTyped
        <3>5. writer' \in [Device -> [at: {"idle", "list", "prune", "create"},
                                      what: {"sso", "mcp", "logout"}, doomed: SUBSET Id]]
            BY <2>5 DEF Create, Move, Resting, OAuthTyped
        <3> QED
            BY <1>3, <2>5, <3>1, <3>3, <3>4, <3>5 DEF Create, OAuthTyped
    <2>6. ASSUME NEW d \in Device, SignOut(d) PROVE OAuthTyped'
        BY <1>3, <2>6, BudgetAssumption DEF SignOut, OAuthTyped
    <2>7. ASSUME NEW p \in {"sso", "mcp"}, Disconnect(p) PROVE OAuthTyped'
        BY <1>3, <2>7 DEF Disconnect, Delete, OAuthTyped
    <2> QED
        BY <1>3, <2>1, <2>2, <2>3, <2>4, <2>5, <2>6, <2>7 DEF Manage
<1>4. ASSUME UNCHANGED grant, NEW s \in Id, Expire(s) PROVE OAuthTyped'
    BY <1>4, ExpireRows DEF Expire, OAuthTyped
<1> QED
    BY <1>1, <1>2, <1>3, <1>4 DEF OAuthNext, Quiet

-----------------------------------------------------------------------------
(* The numbers of sessions, and logout                                     *)

\* A request that leaves off refreshing changes no other request.
LEMMA LeavesFacts ==
    ASSUME OAuthTyped, NEW c \in Caller, Leaves(c)
    PROVE  /\ \A o \in Caller : o # c => reader'[o] = reader[o]
           /\ reader'[c].at \notin {"refresh", "save", "drop"}
    BY DEF Leaves, OAuthTyped

\* Rows that disappear or are updated keep their numbers.
NumbersKept == \A x \in table' : \E r \in table : x.id = r.id /\ x.provider = r.provider

\* A request either does not refresh after the step or refreshes the session
\* it refreshed before, or one that it has just found.
LEMMA RequestFacts ==
    ASSUME OAuthTyped, Unique, NEW c \in Caller, Request(c)
    PROVE  /\ NumbersKept /\ Unique' /\ broken \subseteq broken'
           /\ \A o \in Caller : o # c => reader'[o] = reader[o]
           /\ reader'[c].at \in {"refresh", "save", "drop"} =>
                 reader'[c].id \in Ids \/ (Under(c) /\ reader'[c].id = reader[c].id)
<1>1. ASSUME NEW who \in Who, NEW d \in Device \cup {"none"}, Seek(c, who, d)
      PROVE  /\ UNCHANGED <<table, broken>>
             /\ \A o \in Caller : o # c => reader'[o] = reader[o]
             /\ reader'[c].at \in {"find", "list"}
    <2> DEFINE known == who # "mcp" /\ d # "none" /\ cookie[d] # 0
               next == [Idle EXCEPT !.who = who,
                                    !.at = IF who = "mcp" \/ known THEN "find" ELSE "list",
                                    !.id = IF known THEN cookie[d] ELSE 0,
                                    !.retried = who # "mcp" /\ ~known]
    <2>1. reader' = [reader EXCEPT ![c] = next] /\ UNCHANGED <<table, broken>>
        BY <1>1 DEF Seek, Go
    <2>2. next.at \in {"find", "list"}
        BY IdleReader DEF Reader
    <2> HIDE DEF next
    <2> QED
        BY <2>1, <2>2 DEF OAuthTyped
<1>2. CASE Find(c)
    <2>1. UNCHANGED <<table, broken>>
        BY <1>2 DEF Find, Whole
    <2>2. CASE Leaves(c)
        BY <2>1, <2>2, LeavesFacts DEF NumbersKept, Unique
    <2>3. ASSUME NEW s \in Wanted(c),
                 Go(c, [reader[c] EXCEPT !.at = "refresh", !.id = s, !.refresh = RowOf(s).refresh])
          PROVE  /\ \A o \in Caller : o # c => reader'[o] = reader[o]
                 /\ reader'[c].id \in Ids
        <3>1. s \in Ids
            BY DEF Wanted, Ids, IdsFor
        <3>2. reader[c] \in Reader
            BY DEF OAuthTyped
        <3> QED
            BY <2>3, <3>1, <3>2 DEF Go, OAuthTyped, Reader
    <2> QED
        BY <1>2, <2>1, <2>2, <2>3, MissLeaves, AnswerLeaves DEF Find, NumbersKept, Unique
<1>3. CASE Refresh(c) \/ RefreshFails(c)
    <2>1. UNCHANGED table /\ broken \subseteq broken'
        BY <1>3 DEF Refresh, RefreshFails, Whole, Break
    <2>2. PICK r : reader' = [reader EXCEPT ![c] = r] /\ r.id = reader[c].id
        <3>1. \A token : [reader[c] EXCEPT !.at = "save", !.refresh = token].id = reader[c].id
            BY DEF OAuthTyped, Reader
        <3>2. [reader[c] EXCEPT !.at = "drop"].id = reader[c].id
            BY DEF OAuthTyped, Reader
        <3> QED
            BY <1>3, <3>1, <3>2 DEF Refresh, RefreshFails, Go
    <2>3. /\ \A o \in Caller : o # c => reader'[o] = reader[o]
          /\ Under(c) /\ reader'[c].id = reader[c].id
        BY <1>3, <2>2 DEF Refresh, RefreshFails, OAuthTyped, Under
    <2> QED
        BY <2>1, <2>3 DEF NumbersKept, Unique
<1>4. CASE SaveToken(c)
    <2>1. Leaves(c)
        BY <1>4, MissLeaves, AnswerLeaves DEF SaveToken
    <2>2. reader[c].refresh \in Nat /\ Update(reader[c].id, reader[c].refresh) /\ broken' = broken
        BY <1>4 DEF SaveToken, Whole, OAuthTyped, Reader
    <2>3. NumbersKept /\ Unique'
        BY <2>2, UpdateRows DEF NumbersKept, Unique
    <2> QED
        BY <2>1, <2>2, <2>3, LeavesFacts
<1>5. CASE Drop(c)
    <2>1. Leaves(c) /\ table' \subseteq table /\ broken' = broken
        BY <1>5, MissLeaves DEF Drop, Delete, Whole
    <2> QED
        BY <2>1, LeavesFacts DEF NumbersKept, Unique
<1>6. CASE FindFails(c) \/ SaveTokenFails(c) \/ DropFails(c) \/ FallbackFails(c)
    <2>1. Leaves(c) /\ table' = table /\ broken \subseteq broken'
        BY <1>6, MissLeaves, AnswerLeaves DEF FindFails, SaveTokenFails, DropFails, FallbackFails, Break
    <2> QED
        BY <2>1, LeavesFacts DEF NumbersKept, Unique
<1>7. CASE Fallback(c)
    <2>1. UNCHANGED <<table, broken>>
        BY <1>7 DEF Fallback, Whole
    <2>2. CASE Answer(c, FALSE)
        BY <2>1, <2>2, AnswerLeaves, LeavesFacts DEF NumbersKept, Unique
    <2>3. ASSUME NEW best, Go(c, [reader[c] EXCEPT !.at = "find", !.id = best.id])
          PROVE  /\ \A o \in Caller : o # c => reader'[o] = reader[o]
                 /\ reader'[c].at = "find"
        BY <2>3 DEF Go, OAuthTyped, Reader
    <2> QED
        BY <1>7, <2>1, <2>2, <2>3 DEF Fallback, NumbersKept, Unique
<1> QED
    BY <1>1, <1>2, <1>3, <1>4, <1>5, <1>6, <1>7 DEF Request, NumbersKept, Unique

\* Creations apart, sessions only disappear.
LEMMA ManageFacts ==
    ASSUME OAuthTyped, Unique, Manage
    PROVE  /\ broken \subseteq broken'
           /\ \/ table' \subseteq table /\ UNCHANGED <<created, accepted>>
              \/ \E d \in Device : Create(d)
    BY DEF Manage, Begin, List, ListFails, Prune, PruneFails, Pruned, CreateFails, SignOut,
           Disconnect, Delete, Break, Whole, Create

\* No step gives two sessions the same number: create_session takes a new one.
LEMMA NumberedStep ==
    OAuthTyped /\ Numbered /\ Deleting /\ [OAuthNext]_oauthVars => Numbered'
<1> SUFFICES ASSUME OAuthTyped, Numbered, Deleting, [OAuthNext]_oauthVars PROVE Numbered'
    OBVIOUS
<1>0. Unique
    BY DEF Numbered, Unique
<1>1. CASE UNCHANGED oauthVars
    BY <1>1 DEF oauthVars, Numbered, Unique, Under
<1>2. ASSUME UNCHANGED grant, NEW c \in Caller, Request(c),
             UNCHANGED <<cookie, writer, created, ended>>
      PROVE  Numbered'
    <2>1. \A s \in Ids : s \in Id /\ s <= created
        BY DEF Ids, Numbered, OAuthTyped, Row
    <2> QED
        BY <1>0, <1>2, <2>1, RequestFacts DEF Numbered, Unique, NumbersKept, Under
<1>3. ASSUME UNCHANGED grant, Manage, UNCHANGED <<reader, overlapped>> PROVE Numbered'
    <2>1. ASSUME NEW d \in Device, Create(d) PROVE Numbered'
        <3> DEFINE new == [id |-> created + 1, provider |-> writer[d].what, refresh |-> FirstToken,
                          fresh |-> TRUE, updated |-> clock']
        <3>1. /\ table' = table \cup {new} /\ new.id = created + 1
              /\ created' = created + 1 /\ ended' = ended
            BY <2>1 DEF Create
        <3>2. created \in Nat /\ \A r \in table : r.id \in Nat /\ r.id <= created
            BY Bound DEF OAuthTyped, Row, Id, Numbered
        <3>3. \A s \in ended : s \in Nat /\ s <= created
            BY DEF OAuthTyped, Id, Numbered
        <3>4. \A c \in Caller : Under(c) => reader[c].id \in Id /\ reader[c].id \in Nat /\ reader[c].id <= created
            BY DEF Numbered, Id
        <3> HIDE DEF new
        <3>5. \A r, x \in table' : r.id = x.id => r = x
            BY <3>1, <3>2 DEF Numbered, Unique
        <3> QED
            BY <1>3, <3>1, <3>2, <3>3, <3>4, <3>5 DEF Numbered, Unique, Under
    <2>2. ASSUME table' \subseteq table, UNCHANGED created PROVE Numbered'
        <3>1. ended' \subseteq ended \cup Ids
            BY <1>3 DEF Manage, Begin, List, ListFails, Prune, PruneFails, Pruned, Create, CreateFails,
                        SignOut, Disconnect
        <3> QED
            BY <1>3, <2>2, <3>1 DEF Numbered, Unique, Ids, Under
    <2> QED
        BY <1>0, <1>3, <2>1, <2>2, ManageFacts
<1>4. ASSUME UNCHANGED grant, NEW s \in Id, Expire(s) PROVE Numbered'
    <2>1. NumbersKept
        BY <1>4, ExpireRows DEF NumbersKept
    <2>2. Unique'
        BY <1>0, <1>4, ExpireRows DEF Unique
    <2> QED
        BY <1>4, <2>1, <2>2 DEF Expire, Numbered, NumbersKept, Unique, Under
<1> QED
    BY <1>1, <1>2, <1>3, <1>4 DEF OAuthNext, Quiet

\* Every step leaves sessions to delete only with those that delete them.
LEMMA DeletingStep == OAuthTyped /\ Deleting /\ [OAuthNext]_oauthVars => Deleting'
<1> SUFFICES ASSUME OAuthTyped, Deleting, [OAuthNext]_oauthVars PROVE Deleting'
    OBVIOUS
<1>1. CASE UNCHANGED writer
    BY <1>1 DEF Deleting
<1>2. CASE Manage
    <2>1. ASSUME NEW d \in Device, NEW what \in {"sso", "mcp", "logout"}, Begin(d, what)
          PROVE  Deleting'
        BY <2>1 DEF Begin, Move, Resting, Deleting, OAuthTyped
    <2>2. ASSUME NEW d \in Device, List(d) \/ ListFails(d) PROVE Deleting'
        <3>1. writer'[d].at = "prune" /\ \A o \in Device : o # d => writer'[o] = writer[o]
            BY <2>2 DEF List, ListFails, Move, OAuthTyped
        <3> QED
            BY <3>1 DEF Deleting
    <2>4. ASSUME NEW d \in Device, Pruned(d) PROVE Deleting'
        <3>1. CASE writer[d].what = "logout"
            BY <2>4, <3>1 DEF Pruned, Move, Resting, Deleting, OAuthTyped
        <3>2. CASE writer[d].what # "logout"
            BY <2>4, <3>2 DEF Pruned, Move, Deleting, OAuthTyped
        <3> QED
            BY <3>1, <3>2
    <2>5. ASSUME NEW d \in Device, Create(d) \/ CreateFails(d) PROVE Deleting'
        BY <2>5 DEF Create, CreateFails, Move, Resting, Deleting, OAuthTyped
    <2>3. ASSUME NEW d \in Device, NEW s \in Id, Prune(d, s) \/ PruneFails(d, s) PROVE Deleting'
        BY <2>3 DEF Prune, PruneFails, Move, Deleting, OAuthTyped
    <2> QED
        BY <1>1, <1>2, <2>1, <2>2, <2>3, <2>4, <2>5 DEF Manage, SignOut, Disconnect
<1> QED
    BY <1>1, <1>2 DEF OAuthNext, Quiet, Expire, oauthVars

\* A session found by a logout stays doomed until it is deleted, or its
\* deletion fails; none appears again.
LEMMA LogoutStep ==
    OAuthTyped /\ Numbered /\ Deleting /\ LogoutFinal /\ [OAuthNext]_oauthVars => LogoutFinal'
<1> SUFFICES ASSUME OAuthTyped, Numbered, Deleting, LogoutFinal, [OAuthNext]_oauthVars
             PROVE  LogoutFinal'
    OBVIOUS
<1>0. Unique
    BY DEF Numbered, Unique
<1>1. ASSUME Ids' \subseteq Ids, broken \subseteq broken', UNCHANGED <<writer, ended>>
      PROVE  LogoutFinal'
    BY <1>1 DEF LogoutFinal
<1>2. CASE UNCHANGED oauthVars
    BY <1>1, <1>2 DEF oauthVars, Ids
<1>3. ASSUME NEW c \in Caller, Request(c), UNCHANGED <<cookie, writer, created, ended>>
      PROVE  LogoutFinal'
    BY <1>0, <1>1, <1>3, RequestFacts DEF NumbersKept, Ids
<1>4. ASSUME Manage PROVE LogoutFinal'
    <2>1. ASSUME NEW d \in Device, Create(d) PROVE LogoutFinal'
        <3>1. Ids' \subseteq Ids \cup {created + 1}
            BY <2>1 DEF Create, Ids
        <3>2. created + 1 \notin ended
            BY Bound DEF Numbered, OAuthTyped, Id
        <3>3. writer[d].doomed = {} /\ \A o \in Device : o # d => writer'[o] = writer[o]
            BY <2>1 DEF Create, Move, Deleting, OAuthTyped
        <3> QED
            BY <2>1, <3>1, <3>2, <3>3 DEF Create, Whole, LogoutFinal
    <2>2. ASSUME NEW d \in Device,
                 \/ \E what \in {"sso", "mcp", "logout"} : Begin(d, what)
                 \/ ListFails(d) \/ Pruned(d) \/ CreateFails(d)
          PROVE  LogoutFinal'
        <3>1. Ids' = Ids /\ broken \subseteq broken' /\ ended' = ended
            BY <2>2 DEF Begin, ListFails, Pruned, CreateFails, Break, Whole, Ids
        <3>2. writer[d].doomed = {} /\ \A o \in Device : o # d => writer'[o] = writer[o]
            BY <2>2 DEF Begin, ListFails, Pruned, CreateFails, Move, Deleting, OAuthTyped
        <3> QED
            BY <3>1, <3>2 DEF LogoutFinal
    <2>3. ASSUME NEW d \in Device, List(d) PROVE LogoutFinal'
        <3>1. Ids' = Ids /\ broken' = broken
            BY <2>3 DEF List, Whole, Ids
        <3>2. writer[d].doomed = {} /\ \A o \in Device : o # d => writer'[o] = writer[o]
            BY <2>3 DEF List, Move, Deleting, OAuthTyped
        <3>3. CASE writer[d].what # "logout"
            BY <2>3, <3>1, <3>2, <3>3 DEF List, LogoutFinal
        <3>4. CASE writer[d].what = "logout"
            <4>1. Doomed(writer[d].what) = Ids
                BY <3>4, DoomedFacts
            <4>2. writer'[d].what = "logout" /\ writer'[d].doomed = Ids
                BY <2>3, <3>4, <4>1 DEF List, Move, OAuthTyped
            <4> QED
                BY <3>1, <4>2 DEF LogoutFinal
        <3> QED
            BY <3>3, <3>4
    <2>4. ASSUME NEW d \in Device, NEW s \in Id, Prune(d, s) \/ PruneFails(d, s) PROVE LogoutFinal'
        <3>1. /\ Ids' \subseteq Ids /\ broken \subseteq broken' /\ ended' = ended
              /\ s \notin Ids' \/ s \in broken'
            BY <2>4 DEF Prune, PruneFails, Break, Whole, Delete, Ids
        <3>2. /\ \A o \in Device : o # d => writer'[o] = writer[o]
              /\ writer'[d].what = writer[d].what /\ writer'[d].doomed = writer[d].doomed \ {s}
            BY <2>4 DEF Prune, PruneFails, Move, OAuthTyped
        <3> QED
            BY <3>1, <3>2 DEF LogoutFinal
    <2>5. ASSUME NEW d \in Device, SignOut(d) PROVE LogoutFinal'
        BY <1>1, <2>5 DEF SignOut, Ids
    <2>6. ASSUME NEW p \in {"sso", "mcp"}, Disconnect(p) PROVE LogoutFinal'
        BY <1>1, <2>6 DEF Disconnect, Delete, Ids
    <2> QED
        BY <1>4, <2>1, <2>2, <2>3, <2>4, <2>5, <2>6 DEF Manage
<1>5. ASSUME NEW s \in Id, Expire(s) PROVE LogoutFinal'
    <2>1. Ids' \subseteq Ids
        BY <1>5, ExpireRows DEF Ids
    <2> QED
        BY <1>1, <1>5, <2>1 DEF Expire
<1> QED
    BY <1>2, <1>3, <1>4, <1>5 DEF OAuthNext, Quiet

-----------------------------------------------------------------------------
(* The tokens                                                              *)

\* Whatever excuses the loss of a session goes on doing so.
Grows == broken \subseteq broken' /\ overlapped \subseteq overlapped' /\ UNCHANGED grant

\* A session whose loss nothing excuses after a step had no excuse before it.
LEMMA CalmFacts == ASSUME Grows, NEW s, Calm(s)' PROVE Calm(s)
    BY DEF Grows, Calm, Raced

\* The step changes no request but c.
Others(c) == \A o \in Caller : o # c => reader'[o] = reader[o]

\* A request that ends or gives up its refresh disturbs no other's.
LEMMA OthersStep ==
    ASSUME OAuthTyped, TokenInv, Grows, NEW c \in Caller, Others(c), UNCHANGED accepted, NumbersKept,
           reader'[c].at \notin {"refresh", "save", "drop"}
    PROVE  Alone' /\ Fits' /\ Held' /\ Given'
<1>1. Alone'
    BY DEF TokenInv, Alone, Grows, Others, Under
<1>2. Fits'
    BY DEF TokenInv, Fits, Others, NumbersKept
<1>3. Held'
    <2> SUFFICES ASSUME NEW o \in Caller, reader'[o].at \in {"refresh", "save"},
                        Calm(reader[o].id)'
                 PROVE  reader'[o].refresh = accepted'[reader'[o].id]
        BY DEF Held
    <2>1. o # c /\ reader'[o] = reader[o] /\ Calm(reader[o].id)
        BY CalmFacts DEF Others
    <2> QED
        BY <2>1 DEF TokenInv, Held
<1>4. Given'
    <2> SUFFICES ASSUME NEW o \in Caller, reader'[o].at = "drop", Calm(reader[o].id)'
                 PROVE  reader'[o].refresh = 0
        BY DEF Given
    <2>1. o # c /\ reader'[o] = reader[o] /\ Calm(reader[o].id)
        BY CalmFacts DEF Others
    <2> QED
        BY <2>1 DEF TokenInv, Given
<1> QED
    BY <1>1, <1>2, <1>3, <1>4

\* Rows keep their tokens, and the provider its own; nobody saves one.
LEMMA CurrentStep ==
    ASSUME TokenInv, Grows, NEW c \in Caller, Others(c), UNCHANGED accepted,
           \A x \in table' : \E r \in table : x.id = r.id /\ x.refresh = r.refresh,
           reader[c].at # "save"
    PROVE  Current'
<1> SUFFICES ASSUME NEW x \in table', Calm(x.id)'
             PROVE  \/ x.refresh = accepted'[x.id]
                    \/ /\ grant' = "rotating"
                       /\ \E o \in Caller : reader'[o].at = "save" /\ reader'[o].id = x.id
    BY DEF Current
<1>1. PICK r \in table : x.id = r.id /\ x.refresh = r.refresh
    OBVIOUS
<1>2. Calm(r.id)
    BY <1>1, CalmFacts
<1> QED
    BY <1>1, <1>2 DEF TokenInv, Current, Others, Grows

\* A request that reads a session to refresh it holds a good token, or
\* another has just replaced it: then the two have raced.
LEMMA FindStep ==
    ASSUME OAuthTyped, Numbered, TokenInv, UNCHANGED grant, NEW c \in Caller, Find(c)
    PROVE  TokenInv'
<1>0. Unique /\ reader[c] \in Reader
    BY DEF Numbered, Unique, OAuthTyped
<1>1. UNCHANGED <<table, accepted, broken>> /\ reader[c].at = "find" /\ Grows
    BY DEF Find, Whole, Grows
<1>2. Others(c)
    BY <1>0, RequestFacts DEF Request, Others
<1>3. Current'
    BY <1>1, <1>2, CurrentStep
<1>4. CASE Miss(c) \/ Answer(c, TRUE)
    <2>1. Leaves(c)
        BY <1>4, MissLeaves, AnswerLeaves
    <2> QED
        BY <2>1, <1>1, <1>2, <1>3, OthersStep, LeavesFacts DEF NumbersKept, TokenInv
<1>5. ASSUME NEW s \in Wanted(c), ~Refused(c, RowOf(s)),
             Go(c, [reader[c] EXCEPT !.at = "refresh", !.id = s, !.refresh = RowOf(s).refresh]),
             overlapped' = overlapped \cup ({s} \cap Refreshing(c))
      PROVE  TokenInv'
    <2>1. RowOf(s) \in table /\ RowOf(s).id = s
        BY RowFacts DEF Wanted, Ids, IdsFor
    <2>2. /\ reader'[c].at = "refresh" /\ reader'[c].id = s /\ reader'[c].who = reader[c].who
          /\ reader'[c].refresh = RowOf(s).refresh
        BY <1>0, <1>5 DEF Go, OAuthTyped, Reader
    <2>3. ASSUME NEW o \in Caller, o # c, Under(o), reader[o].id = s PROVE s \in overlapped'
        BY <1>5, <2>3 DEF Refreshing, Under
    <2>4. Alone'
        <3> SUFFICES ASSUME NEW a \in Caller, NEW b \in Caller, a # b, Under(a)', Under(b)',
                            reader'[a].id = reader'[b].id, grant' = "rotating"
                     PROVE  reader'[a].id \in overlapped'
            BY DEF Alone
        <3>1. CASE a # c /\ b # c
            BY <3>1, <1>1, <1>2 DEF Others, Under, TokenInv, Alone, Grows
        <3>2. CASE a = c
            BY <3>2, <1>2, <2>2, <2>3 DEF Others, Under
        <3>3. CASE b = c
            BY <3>3, <1>2, <2>2, <2>3 DEF Others, Under
        <3> QED
            BY <3>1, <3>2, <3>3
    <2>5. Fits'
        <3>1. reader[c].who # "mcp" => \A r \in table : r.id = s => r.provider # "mcp"
            BY <1>0, <1>5, <2>1 DEF Refused, Unique
        <3> QED
            BY <3>1, <1>1, <1>2, <2>2 DEF Others, TokenInv, Fits
    <2>6. Held'
        <3> SUFFICES ASSUME NEW o \in Caller, reader'[o].at \in {"refresh", "save"},
                            Calm(reader[o].id)'
                     PROVE  reader'[o].refresh = accepted'[reader'[o].id]
            BY DEF Held
        <3>1. CASE o # c
            <4>1. reader'[o] = reader[o] /\ Calm(reader[o].id)
                BY <3>1, <1>1, <1>2, CalmFacts DEF Others
            <4> QED
                BY <4>1, <1>1 DEF TokenInv, Held
        <3>2. CASE o = c
            <4>1. Calm(s)
                BY <3>2, <1>1, <2>2, CalmFacts
            <4>2. CASE RowOf(s).refresh = accepted[s]
                BY <3>2, <4>2, <1>1, <2>2
            <4>3. ASSUME grant = "rotating",
                         NEW x \in Caller, reader[x].at = "save", reader[x].id = s
                  PROVE  FALSE
                <5>1. s \in overlapped'
                    BY <4>3, <1>1, <2>3 DEF Under
                <5> QED
                    BY <5>1, <3>2, <2>2, <4>3 DEF Calm, Raced
            <4> QED
                BY <2>1, <4>1, <4>2, <4>3 DEF TokenInv, Current
        <3> QED
            BY <3>1, <3>2
    <2>7. Given'
        <3> SUFFICES ASSUME NEW o \in Caller, reader'[o].at = "drop", Calm(reader[o].id)'
                     PROVE  reader'[o].refresh = 0
            BY DEF Given
        <3>1. o # c /\ reader'[o] = reader[o] /\ Calm(reader[o].id)
            BY <1>1, <1>2, <2>2, CalmFacts DEF Others
        <3> QED
            BY <3>1 DEF TokenInv, Given
    <2> QED
        BY <1>3, <2>4, <2>5, <2>6, <2>7 DEF TokenInv
<1> QED
    BY <1>4, <1>5 DEF Find

\* The provider takes the token of one request: of others that refresh the
\* same session the first's was the last use, or the token stays good.
LEMMA RefreshStep ==
    ASSUME OAuthTyped, Numbered, TokenInv, UNCHANGED grant, NEW c \in Caller, Refresh(c)
    PROVE  TokenInv'
<1> DEFINE s == reader[c].id
           token == reader[c].refresh
<1>0. /\ reader[c] \in Reader /\ s \in Id /\ token \in Nat /\ accepted[s] \in Nat
      /\ reader[c].at = "refresh" /\ Under(c)
    BY DEF Refresh, OAuthTyped, Reader, Numbered, Under
<1>1. UNCHANGED <<table, broken, overlapped>> /\ Grows
    BY DEF Refresh, Whole, Grows
<1>2. PICK r : reader' = [reader EXCEPT ![c] = r] /\ r.id = s /\ r.at \in {"save", "drop"}
    <2> DEFINE saving == [reader[c] EXCEPT !.at = "save", !.refresh = Merged(token, Issues(s))]
               dropping == [reader[c] EXCEPT !.at = "drop"]
    <2>1. saving.id = s /\ saving.at = "save" /\ dropping.id = s /\ dropping.at = "drop"
        BY <1>0 DEF Reader
    <2>2. reader' = [reader EXCEPT ![c] = saving] \/ reader' = [reader EXCEPT ![c] = dropping]
        BY DEF Refresh, Go
    <2> HIDE DEF saving, dropping
    <2> QED
        BY <2>1, <2>2
<1>3. Others(c) /\ reader'[c].id = s /\ reader'[c].at \in {"save", "drop"}
    BY <1>2 DEF Others, OAuthTyped
<1>4. Alone'
    BY <1>0, <1>1, <1>3 DEF TokenInv, Alone, Others, Under
<1>5. Fits'
    BY <1>1, <1>3 DEF TokenInv, Fits, Others
<1>6. \A x : Calm(x)' <=> Calm(x)
    BY <1>1 DEF Calm, Raced
<1>7. CASE token # 0 /\ Accepts(s, token)
           /\ Go(c, [reader[c] EXCEPT !.at = "save", !.refresh = Merged(token, Issues(s))])
           /\ accepted' = [accepted EXCEPT ![s] = Merged(token, Issues(s))]
    <2>1. reader'[c].at = "save" /\ reader'[c].refresh = accepted'[s]
        BY <1>0, <1>7 DEF Go, OAuthTyped, Reader
    <2>2. \A x \in Id : x # s => accepted'[x] = accepted[x]
        BY <1>7 DEF OAuthTyped
    <2>3. grant # "rotating" => accepted' = accepted
        BY <1>0, <1>7 DEF Merged, Issues, Accepts, OAuthTyped
    <2>4. Held'
        <3> SUFFICES ASSUME NEW o \in Caller, reader'[o].at \in {"refresh", "save"},
                            Calm(reader[o].id)'
                     PROVE  reader'[o].refresh = accepted'[reader'[o].id]
            BY DEF Held
        <3>1. CASE o = c
            BY <3>1, <1>3, <2>1
        <3>2. CASE o # c
            <4>1. reader'[o] = reader[o] /\ Calm(reader[o].id) /\ Under(o)
                BY <3>2, <1>3, <1>6 DEF Others, Under
            <4>2. reader[o].refresh = accepted[reader[o].id] /\ reader[o].id \in Id
                BY <4>1 DEF TokenInv, Held, Numbered
            <4>3. reader[o].id = s => grant # "rotating"
                BY <3>2, <4>1, <1>0 DEF TokenInv, Alone, Calm, Raced
            <4> QED
                BY <4>1, <4>2, <4>3, <2>2, <2>3
        <3> QED
            BY <3>1, <3>2
    <2>5. Current'
        <3> SUFFICES ASSUME NEW x \in table, Calm(x.id)
                     PROVE  \/ x.refresh = accepted'[x.id]
                            \/ /\ grant' = "rotating"
                               /\ \E o \in Caller : reader'[o].at = "save" /\ reader'[o].id = x.id
            BY <1>1, <1>6 DEF Current
        <3>1. \/ x.refresh = accepted[x.id]
              \/ grant = "rotating" /\ \E o \in Caller : reader[o].at = "save" /\ reader[o].id = x.id
            BY DEF TokenInv, Current
        <3>2. CASE x.id = s
            BY <3>1, <3>2, <1>1, <1>3, <2>1, <2>3 DEF Grows
        <3>3. CASE x.id # s
            <4>1. x.id \in Id
                BY DEF OAuthTyped, Row
            <4> QED
                BY <3>1, <3>3, <4>1, <1>0, <1>1, <1>3, <2>2 DEF Others, Grows
        <3> QED
            BY <3>2, <3>3
    <2>6. Given'
        BY <1>3, <1>6, <2>1 DEF TokenInv, Given, Others
    <2> QED
        BY <1>4, <1>5, <2>4, <2>5, <2>6 DEF TokenInv
<1>8. CASE /\ token = 0 \/ ~Accepts(s, token) \/ (reader[c].who # "mcp" /\ s \in IdsFor("mcp"))
           /\ Go(c, [reader[c] EXCEPT !.at = "drop"]) /\ UNCHANGED accepted
    <2>1. reader'[c].at = "drop" /\ reader'[c].refresh = token
        BY <1>0, <1>8 DEF Go, OAuthTyped, Reader
    <2>2. token = 0 \/ ~Calm(s)
        <3>1. CASE ~Accepts(s, token)
            BY <3>1, <1>0 DEF Accepts, TokenInv, Held
        <3>2. ~(reader[c].who # "mcp" /\ s \in IdsFor("mcp"))
            BY <1>0 DEF TokenInv, Fits, IdsFor
        <3> QED
            BY <1>8, <3>1, <3>2
    <2>3. Held'
        BY <1>3, <1>6, <1>8, <2>1 DEF TokenInv, Held, Others
    <2>4. Current'
        BY <1>0, <1>1, <1>3, <1>8, CurrentStep
    <2>5. Given'
        BY <1>3, <1>6, <2>1, <2>2 DEF TokenInv, Given, Others
    <2> QED
        BY <1>4, <1>5, <2>3, <2>4, <2>5 DEF TokenInv
<1> QED
    BY <1>7, <1>8 DEF Refresh

\* A lost answer excuses the session, whatever the provider has accepted.
LEMMA RefreshFailsStep ==
    ASSUME OAuthTyped, Numbered, TokenInv, UNCHANGED grant, NEW c \in Caller, RefreshFails(c)
    PROVE  TokenInv'
<1> DEFINE s == reader[c].id
           dropping == [reader[c] EXCEPT !.at = "drop"]
<1>0. reader[c] \in Reader /\ reader[c].at = "refresh" /\ Under(c)
    BY DEF RefreshFails, OAuthTyped, Under
<1>1. UNCHANGED <<table, overlapped>> /\ Grows /\ s \in broken'
    BY DEF RefreshFails, Break, Grows
<1>2. \A x \in Id : x # s => accepted'[x] = accepted[x]
    BY DEF RefreshFails, OAuthTyped
<1>3. Others(c) /\ reader'[c].id = s /\ reader'[c].at = "drop"
    <2>1. dropping.id = s /\ dropping.at = "drop"
        BY <1>0 DEF Reader
    <2>2. reader' = [reader EXCEPT ![c] = dropping]
        BY DEF RefreshFails, Go
    <2> HIDE DEF dropping
    <2> QED
        BY <2>1, <2>2 DEF Others, OAuthTyped
<1>4. Alone'
    BY <1>0, <1>1, <1>3 DEF TokenInv, Alone, Others, Under, Grows
<1>5. Fits'
    BY <1>1, <1>3 DEF TokenInv, Fits, Others
<1>6. ASSUME NEW x, Calm(x)' PROVE Calm(x) /\ x # s
    BY <1>1, <1>6, CalmFacts DEF Calm
<1>7. Held'
    <2> SUFFICES ASSUME NEW o \in Caller, reader'[o].at \in {"refresh", "save"},
                        Calm(reader[o].id)'
                 PROVE  reader'[o].refresh = accepted'[reader'[o].id]
        BY DEF Held
    <2>1. reader'[o] = reader[o] /\ Calm(reader[o].id) /\ reader[o].id # s /\ Under(o)
        BY <1>3, <1>6 DEF Others, Under
    <2> QED
        BY <2>1, <1>2 DEF TokenInv, Held, Numbered
<1>8. Current'
    <2> SUFFICES ASSUME NEW x \in table, Calm(x.id)'
                 PROVE  \/ x.refresh = accepted'[x.id]
                        \/ /\ grant' = "rotating"
                           /\ \E o \in Caller : reader'[o].at = "save" /\ reader'[o].id = x.id
        BY <1>1 DEF Current
    <2>1. Calm(x.id) /\ x.id # s /\ x.id \in Id
        BY <1>6 DEF OAuthTyped, Row
    <2> QED
        BY <2>1, <1>0, <1>1, <1>2, <1>3 DEF TokenInv, Current, Others, Grows
<1>9. Given'
    <2> SUFFICES ASSUME NEW o \in Caller, reader'[o].at = "drop", Calm(reader[o].id)'
                 PROVE  reader'[o].refresh = 0
        BY DEF Given
    <2>1. reader'[o] = reader[o] /\ Calm(reader[o].id)
        BY <1>3, <1>6 DEF Others
    <2> QED
        BY <2>1 DEF TokenInv, Given
<1> QED
    BY <1>4, <1>5, <1>7, <1>8, <1>9 DEF TokenInv

\* The row takes the token that the provider accepts.
LEMMA SaveTokenStep ==
    ASSUME OAuthTyped, Numbered, TokenInv, UNCHANGED grant, NEW c \in Caller, SaveToken(c)
    PROVE  TokenInv'
<1>1. Unique /\ reader[c].at = "save" /\ reader[c].refresh \in Nat
    BY DEF Numbered, Unique, SaveToken, OAuthTyped, Reader
<1>2. UNCHANGED <<accepted, broken, overlapped>> /\ Grows
    BY DEF SaveToken, Whole, Grows
<1>3. Others(c) /\ NumbersKept /\ reader'[c].at \notin {"refresh", "save", "drop"}
    <2>1. Leaves(c)
        BY MissLeaves, AnswerLeaves DEF SaveToken
    <2> QED
        BY <2>1, <1>1, RequestFacts, LeavesFacts DEF Request, Others
<1>4. Current'
    <2> SUFFICES ASSUME NEW x \in table', Calm(x.id)'
                 PROVE  \/ x.refresh = accepted'[x.id]
                        \/ /\ grant' = "rotating"
                           /\ \E o \in Caller : reader'[o].at = "save" /\ reader'[o].id = x.id
        BY DEF Current
    <2>1. PICK r \in table : /\ x.id = r.id
                             /\ x.refresh = IF r.id = reader[c].id THEN reader[c].refresh ELSE r.refresh
        BY <1>1, UpdateRows DEF SaveToken
    <2>2. Calm(r.id)
        BY <1>2, <2>1, CalmFacts
    <2>3. CASE r.id = reader[c].id
        BY <1>1, <1>2, <2>1, <2>2, <2>3 DEF TokenInv, Held
    <2>4. CASE r.id # reader[c].id
        BY <1>2, <1>3, <2>1, <2>2, <2>4 DEF TokenInv, Current, Others, Grows
    <2> QED
        BY <2>3, <2>4
<1> QED
    BY <1>2, <1>3, <1>4, OthersStep DEF TokenInv

\* No step of a request spoils a token: the cases of Request.
LEMMA RequestStep ==
    ASSUME OAuthTyped, Numbered, TokenInv, UNCHANGED grant, NEW c \in Caller, Request(c)
    PROVE  TokenInv'
<1>0. Unique
    BY DEF Numbered, Unique
<1>1. Others(c) /\ NumbersKept
    BY <1>0, RequestFacts DEF Others
<1>2. ASSUME NEW who \in Who, NEW d \in Device \cup {"none"}, Seek(c, who, d) PROVE TokenInv'
    <2>1. UNCHANGED <<table, accepted>> /\ Grows /\ reader[c].at = "idle"
        BY <1>2 DEF Seek, Spend, Grows, Request
    <2>2. reader'[c].at \notin {"refresh", "save", "drop"}
        <3> DEFINE known == who # "mcp" /\ d # "none" /\ cookie[d] # 0
                   next == [Idle EXCEPT !.who = who,
                                        !.at = IF who = "mcp" \/ known THEN "find" ELSE "list",
                                        !.id = IF known THEN cookie[d] ELSE 0,
                                        !.retried = who # "mcp" /\ ~known]
        <3>1. reader' = [reader EXCEPT ![c] = next]
            BY <1>2 DEF Seek, Go
        <3>2. next.at \in {"find", "list"}
            BY IdleReader DEF Reader
        <3> HIDE DEF next
        <3> QED
            BY <3>1, <3>2 DEF OAuthTyped
    <2> QED
        BY <1>1, <2>1, <2>2, OthersStep, CurrentStep DEF TokenInv
<1>3. CASE Drop(c) \/ FindFails(c) \/ DropFails(c) \/ Fallback(c) \/ FallbackFails(c)
    <2>1. table' \subseteq table /\ UNCHANGED accepted /\ Grows /\ reader[c].at # "save"
        BY <1>3 DEF Drop, FindFails, DropFails, Fallback, FallbackFails, Delete, Break, Whole, Grows
    <2>2. reader'[c].at \notin {"refresh", "save", "drop"}
        <3>1. CASE Leaves(c)
            BY <3>1, LeavesFacts
        <3>2. ASSUME NEW best, Go(c, [reader[c] EXCEPT !.at = "find", !.id = best.id])
              PROVE  reader'[c].at = "find"
            BY <3>2 DEF Go, OAuthTyped, Reader
        <3> QED
            BY <1>3, <3>1, <3>2, MissLeaves, AnswerLeaves
               DEF Drop, FindFails, DropFails, Fallback, FallbackFails
    <2> QED
        BY <1>1, <2>1, <2>2, OthersStep, CurrentStep DEF TokenInv
<1>4. CASE SaveTokenFails(c)
    <2>1. /\ UNCHANGED <<table, accepted>> /\ Grows /\ reader[c].id \in broken'
          /\ reader'[c].at \notin {"refresh", "save", "drop"}
        BY <1>4, MissLeaves, LeavesFacts DEF SaveTokenFails, Break, Grows
    <2>2. Current'
        <3> SUFFICES ASSUME NEW x \in table, Calm(x.id)'
                     PROVE  \/ x.refresh = accepted'[x.id]
                            \/ /\ grant' = "rotating"
                               /\ \E o \in Caller : reader'[o].at = "save" /\ reader'[o].id = x.id
            BY <2>1 DEF Current
        <3>1. Calm(x.id) /\ x.id # reader[c].id
            BY <2>1, CalmFacts DEF Calm
        <3> QED
            BY <1>1, <2>1, <3>1 DEF TokenInv, Current, Others, Grows
    <2> QED
        BY <1>1, <2>1, <2>2, OthersStep DEF TokenInv
<1> QED
    BY <1>2, <1>3, <1>4, FindStep, RefreshStep, RefreshFailsStep, SaveTokenStep DEF Request

\* A new session has a token of its own; other changes only remove rows.
LEMMA ManageStep ==
    ASSUME OAuthTyped, Numbered, TokenInv, UNCHANGED <<grant, reader, overlapped>>, Manage
    PROVE  TokenInv'
<1>0. Unique
    BY DEF Numbered, Unique
<1>1. Grows
    BY <1>0, ManageFacts DEF Grows
<1>2. Alone'
    BY <1>1 DEF TokenInv, Alone, Under, Grows
<1>3. Given'
    <2> SUFFICES ASSUME NEW o \in Caller, reader[o].at = "drop", Calm(reader[o].id)'
                 PROVE  reader[o].refresh = 0
        BY DEF Given
    <2>1. Calm(reader[o].id)
        BY <1>1, CalmFacts
    <2> QED
        BY <2>1 DEF TokenInv, Given
<1>4. ASSUME table' \subseteq table, UNCHANGED accepted PROVE TokenInv'
    <2>1. Fits'
        BY <1>4 DEF TokenInv, Fits
    <2>2. Held'
        <3> SUFFICES ASSUME NEW o \in Caller, reader[o].at \in {"refresh", "save"},
                            Calm(reader[o].id)'
                     PROVE  reader[o].refresh = accepted[reader[o].id]
            BY <1>4 DEF Held
        <3>1. Calm(reader[o].id)
            BY <1>1, CalmFacts
        <3> QED
            BY <3>1 DEF TokenInv, Held
    <2>3. Current'
        <3> SUFFICES ASSUME NEW x \in table, Calm(x.id)'
                     PROVE  \/ x.refresh = accepted[x.id]
                            \/ /\ grant = "rotating"
                               /\ \E o \in Caller : reader[o].at = "save" /\ reader[o].id = x.id
            BY <1>4 DEF Current
        <3>1. Calm(x.id)
            BY <1>1, CalmFacts
        <3> QED
            BY <3>1 DEF TokenInv, Current
    <2> QED
        BY <1>2, <1>3, <2>1, <2>2, <2>3 DEF TokenInv
<1>5. ASSUME NEW d \in Device, Create(d) PROVE TokenInv'
    <2> DEFINE n == created + 1
               new == [id |-> n, provider |-> writer[d].what, refresh |-> FirstToken,
                       fresh |-> TRUE, updated |-> clock']
    <2>1. n \in Id /\ created \in Nat
        BY <1>5, Bound DEF Create, OAuthTyped, Id
    <2>2. /\ table' = table \cup {new} /\ new.id = n /\ new.refresh = FirstToken
          /\ accepted' = [accepted EXCEPT ![n] = FirstToken]
        BY <1>5 DEF Create
    <2>3. accepted'[n] = FirstToken /\ \A x \in Id : x # n => accepted'[x] = accepted[x]
        BY <2>1, <2>2 DEF OAuthTyped
    <2>4. \A o \in Caller : Under(o) => reader[o].id \in Id /\ reader[o].id # n
        BY <2>1 DEF Numbered, Id
    <2>5. \A r \in table : r.id \in Id /\ r.id # n
        BY <2>1 DEF Numbered, OAuthTyped, Row, Id
    <2> HIDE DEF n, new
    <2>6. Fits'
        BY <2>2, <2>4 DEF TokenInv, Fits, Under
    <2>7. Held'
        <3> SUFFICES ASSUME NEW o \in Caller, reader[o].at \in {"refresh", "save"},
                            Calm(reader[o].id)'
                     PROVE  reader[o].refresh = accepted'[reader[o].id]
            BY DEF Held
        <3>1. Calm(reader[o].id) /\ Under(o)
            BY <1>1, CalmFacts DEF Under
        <3> QED
            BY <3>1, <2>3, <2>4 DEF TokenInv, Held
    <2>8. Current'
        <3> SUFFICES ASSUME NEW x \in table', Calm(x.id)'
                     PROVE  \/ x.refresh = accepted'[x.id]
                            \/ /\ grant = "rotating"
                               /\ \E o \in Caller : reader[o].at = "save" /\ reader[o].id = x.id
            BY DEF Current
        <3>1. CASE x \in table
            <4>1. Calm(x.id)
                BY <1>1, CalmFacts
            <4> QED
                BY <3>1, <4>1, <2>3, <2>5 DEF TokenInv, Current
        <3>2. CASE x = new
            BY <3>2, <2>2, <2>3
        <3> QED
            BY <3>1, <3>2, <2>2
    <2> QED
        BY <1>2, <1>3, <2>6, <2>7, <2>8 DEF TokenInv
<1> QED
    BY <1>0, <1>4, <1>5, ManageFacts

\* An expiry spoils no token.
LEMMA ExpireStep ==
    ASSUME OAuthTyped, TokenInv, UNCHANGED grant, NEW s \in Id, Expire(s)
    PROVE  TokenInv'
<1>1. UNCHANGED <<accepted, reader, overlapped, broken>> /\ Grows
    BY DEF Expire, Grows
<1>2. \A x \in table' : \E r \in table :
         x.id = r.id /\ x.provider = r.provider /\ x.refresh = r.refresh
    BY ExpireRows
<1>3. Alone' /\ Held' /\ Given'
    BY <1>1 DEF TokenInv, Alone, Held, Given, Under, Calm, Raced
<1>4. Fits'
    BY <1>1, <1>2 DEF TokenInv, Fits
<1>5. Current'
    BY <1>1, <1>2 DEF TokenInv, Current, Calm, Raced
<1> QED
    BY <1>3, <1>4, <1>5 DEF TokenInv

\* No step of any kind spoils a token.
LEMMA TokenStep == OAuthTyped /\ Numbered /\ TokenInv /\ [OAuthNext]_oauthVars => TokenInv'
<1>1. CASE UNCHANGED oauthVars
    BY <1>1 DEF oauthVars, TokenInv, Alone, Fits, Held, Current, Given, Under, Calm, Raced
<1> QED
    BY <1>1, RequestStep, ManageStep, ExpireStep DEF OAuthNext, Quiet

-----------------------------------------------------------------------------
(* The results                                                             *)

\* The invariant holds initially: there is no session.
LEMMA InitIInv == OAuthInit => IInv
<1> SUFFICES ASSUME OAuthInit PROVE IInv
    OBVIOUS
<1>1. /\ table = {} /\ ended = {} /\ created = 0 /\ Ids = {}
      /\ \A c \in Caller : reader[c].at = "idle"
    BY DEF OAuthInit, Idle, Ids
<1>2. OAuthTyped
    BY Bound, IdleReader DEF OAuthInit, OAuthTyped, Resting
<1>3. Deleting
    BY DEF OAuthInit, Resting, Deleting
<1> QED
    BY <1>1, <1>2, <1>3
       DEF IInv, Numbered, Unique, TokenInv, Alone, Fits, Held, Current, Given, Under, LogoutFinal

\* The inductive invariant: of the numbers of sessions, of what a callback or
\* a logout has left to delete, and of the tokens that rows and requests hold
\* against the one the provider accepts.
THEOREM Inductive == OAuthSpec => []IInv
<1>1. IInv /\ [OAuthNext]_oauthVars => IInv'
    BY OAuthTypedStep, NumberedStep, DeletingStep, LogoutStep, TokenStep DEF IInv
<1> QED
    BY <1>1, InitIInv, PTL DEF OAuthSpec

\* However requests interleave with callbacks, logouts and each other, the
\* token _perform_token_refresh merges and update_session_by_id stores is the
\* one the provider accepts, and _refresh_token's caller deletes no session
\* that can be refreshed, unless a call failed or two requests raced with a
\* token good for one use.
THEOREM Refreshes == OAuthSpec => []RefreshSound
<1>1. IInv => RefreshSound
    <2> SUFFICES ASSUME IInv PROVE RefreshSound
        OBVIOUS
    <2>1. \A s : ~Calm(s) => s \in broken \/ Raced(s)
        BY DEF Calm
    <2> QED
        BY <2>1 DEF IInv, TokenInv, Current, Given, RefreshSound
<1> QED
    BY <1>1, Inductive, PTL

\* After a back-channel logout has deleted the sessions it listed, no refresh
\* under way brings one of them back: update_session_by_id inserts no row.
THEOREM Logouts == OAuthSpec => []LogoutFinal
<1>1. IInv => LogoutFinal
    BY DEF IInv
<1> QED
    BY <1>1, Inductive, PTL

-----------------------------------------------------------------------------
(* The limit on a user's sessions                                          *)

Provider == {"sso", "mcp"}
Limit(p) == IF p = "sso" THEN MaxSessions ELSE 1

\* Callbacks that have decided what to delete and are yet to create a session.
Creating(p) == {d \in Device : writer[d].what = p /\ writer[d].at \in {"prune", "create"}}
DoomedBy(Q) == UNION {writer[d].doomed : d \in Q}

\* If some of these finish first there is room for what they create: each of
\* them spares fewer sessions than the limit, and there are only so many.
Room ==
    broken = {} =>
        \A p \in Provider : \A Q \in SUBSET Creating(p) :
            Cardinality(IdsFor(p) \ DoomedBy(Q)) + Cardinality(Q) < Limit(p) + Cardinality(Device)

\* A set of numbers has a least one.
LEMMA Least ==
    ASSUME NEW T \in SUBSET Nat, T # {}
    PROVE  \E x \in T : \A y \in T : x <= y
<1> DEFINE R == {ss \in Nat \X Nat : ss[1] < ss[2]}
<1>1. IsWellFoundedOn(OpToRel(<, Nat), Nat)
    BY NatLessThanWellFounded
<1>2. R = OpToRel(<, Nat)
    BY DEF OpToRel
<1>3. PICK x \in T : \A y \in T : ~ (<<y, x>> \in R)
    <2>1. IsWellFoundedOn(R, Nat)
        BY <1>1, <1>2
    <2> HIDE DEF R
    <2> QED
        BY <2>1, WFMin
<1>4. ASSUME NEW y \in T PROVE x <= y
    <2>1. <<y, x>> \in Nat \X Nat /\ <<y, x>>[1] = y /\ <<y, x>>[2] = x
        OBVIOUS
    <2>2. ~ (y < x)
        BY <1>3, <2>1
    <2> QED
        BY <2>2
<1> QED
    BY <1>4

\* Of the sessions that are kept, all but the oldest are newer than it.
LEMMA NewestFew ==
    ASSUME NEW S \in SUBSET Nat, IsFiniteSet(S), NEW n \in Nat
    PROVE  Cardinality(S \ Oldest(S, n)) <= n
<1> DEFINE newer(s) == {t \in S : t > s}
           rest == S \ Oldest(S, n)
<1>1. \A s \in rest : s \in S /\ ~ (Cardinality(newer(s)) >= n)
    BY DEF Oldest
<1>2. CASE rest = {}
    BY <1>2, FS_EmptySet
<1>3. CASE rest # {}
    <2>1. rest \in SUBSET Nat
        BY <1>1
    <2>2. PICK m \in rest : \A s \in rest : m <= s
        BY <1>3, <2>1, Least
    <2>3. IsFiniteSet(newer(m)) /\ Cardinality(newer(m)) \in Nat
        <3>1. newer(m) \in SUBSET S
            OBVIOUS
        <3> QED
            BY <3>1, FS_Subset, FS_CardinalityType
    <2>4. Cardinality(newer(m)) < n
        BY <1>1, <2>3
    <2>5. rest \subseteq newer(m) \cup {m}
        BY <1>1, <2>1, <2>2
    <2>6. /\ IsFiniteSet(newer(m) \cup {m})
          /\ Cardinality(newer(m) \cup {m}) = IF m \in newer(m) THEN Cardinality(newer(m)) ELSE Cardinality(newer(m)) + 1
        BY <2>3, FS_AddElement
    <2> HIDE DEF newer, rest
    <2>7. Cardinality(rest) <= Cardinality(newer(m) \cup {m})
        BY <2>5, <2>6, FS_Subset
    <2>8. IsFiniteSet(rest) /\ Cardinality(rest) \in Nat
        BY <2>5, <2>6, FS_Subset, FS_CardinalityType
    <2> QED
        BY <2>3, <2>4, <2>6, <2>7, <2>8 DEF rest
<1> QED
    BY <1>2, <1>3

LEMMA IdsFinite ==
    ASSUME OAuthTyped, NEW p, NEW S \in SUBSET IdsFor(p)
    PROVE  IdsFor(p) \subseteq Id /\ Id \subseteq Nat /\ IsFiniteSet(S) /\ Cardinality(S) \in Nat
<1>1. IdsFor(p) \subseteq Id /\ Id \subseteq Nat
    BY DEF IdsFor, OAuthTyped, Row, Id
<1>2. IsFiniteSet(Id)
    BY Bound, FS_Interval DEF Id
<1> QED
    BY <1>1, <1>2, FS_Subset, FS_CardinalityType

LEMMA DevicesFinite ==
    ASSUME NEW Q \in SUBSET Device
    PROVE  /\ IsFiniteSet(Q) /\ Cardinality(Q) \in Nat /\ Cardinality(Device) \in Nat
           /\ Cardinality(Q) <= Cardinality(Device)
    BY SessionsAssumption, FS_Subset, FS_CardinalityType

\* A callback spares fewer sessions of its provider than the limit.
LEMMA Spared ==
    ASSUME OAuthTyped, NEW p \in Provider
    PROVE  Cardinality(IdsFor(p) \ Doomed(p)) < Limit(p)
<1>0. IdsFor(p) \in SUBSET Nat /\ IsFiniteSet(IdsFor(p)) /\ Cardinality(IdsFor(p)) \in Nat
    BY IdsFinite
<1>1. CASE p = "mcp"
    <2>1. IdsFor(p) \ Doomed(p) = {}
        BY <1>1 DEF Doomed
    <2> QED
        BY <1>1, <2>1, FS_EmptySet DEF Limit
<1>2. CASE p = "sso" /\ Cardinality(IdsFor(p)) >= MaxSessions
    <2>1. Doomed(p) = Oldest(IdsFor(p), MaxSessions - 1) /\ Limit(p) = MaxSessions
        BY <1>2 DEF Doomed, Limit
    <2>2. MaxSessions - 1 \in Nat
        BY SessionsAssumption
    <2>3. Cardinality(IdsFor(p) \ Doomed(p)) <= MaxSessions - 1
        BY <1>0, <2>1, <2>2, NewestFew
    <2>4. Cardinality(IdsFor(p) \ Doomed(p)) \in Nat
        BY IdsFinite
    <2> QED
        BY <2>1, <2>3, <2>4, SessionsAssumption
<1>3. CASE p = "sso" /\ ~ (Cardinality(IdsFor(p)) >= MaxSessions)
    <2>1. IdsFor(p) \ Doomed(p) = IdsFor(p) /\ Limit(p) = MaxSessions
        BY <1>3 DEF Doomed, Limit
    <2> QED
        BY <1>0, <1>3, <2>1, SessionsAssumption
<1> QED
    BY <1>1, <1>2, <1>3 DEF Provider

\* A step after which no more sessions are spared than before, of the
\* callbacks that were there before.
LEMMA RoomKept ==
    ASSUME OAuthTyped, Room, broken \subseteq broken', IdsFor("sso")' \subseteq IdsFor("sso"),
           IdsFor("mcp")' \subseteq IdsFor("mcp"),
           \A d \in Device, p \in Provider : d \in Creating(p)' =>
               /\ d \in Creating(p)
               /\ writer[d].doomed \subseteq writer'[d].doomed \cup (Id \ (Ids'))
    PROVE  Room'
<1> SUFFICES ASSUME broken' = {}, NEW p \in Provider, NEW Q \in SUBSET Creating(p)'
             PROVE  Cardinality(IdsFor(p)' \ DoomedBy(Q)') + Cardinality(Q) < Limit(p) + Cardinality(Device)
    BY DEF Room, Limit
<1>1. broken = {} /\ Q \in SUBSET Creating(p) /\ Q \in SUBSET Device
    BY DEF Creating
<1>2. IdsFor(p)' \subseteq IdsFor(p) /\ IdsFor(p)' \subseteq Ids'
    BY DEF Provider, IdsFor, Ids
<1>3. IdsFor(p)' \ DoomedBy(Q)' \subseteq IdsFor(p) \ DoomedBy(Q)
    BY <1>1, <1>2 DEF DoomedBy
<1> DEFINE before == IdsFor(p) \ DoomedBy(Q)
           after == IdsFor(p)' \ DoomedBy(Q)'
<1>4. IsFiniteSet(before) /\ Cardinality(before) \in Nat
    BY IdsFinite
<1>5. Cardinality(before) + Cardinality(Q) < Limit(p) + Cardinality(Device)
    BY <1>1 DEF Room
<1>6. after \in SUBSET before
    BY <1>3
<1> HIDE DEF before, after
<1>7. Cardinality(after) <= Cardinality(before) /\ Cardinality(after) \in Nat
    BY <1>4, <1>6, FS_Subset, FS_CardinalityType
<1>8. Limit(p) \in Nat
    BY SessionsAssumption DEF Limit
<1>9. Cardinality(after) + Cardinality(Q) < Limit(p) + Cardinality(Device)
    BY <1>1, <1>4, <1>5, <1>7, <1>8, DevicesFinite
<1> QED
    BY <1>9 DEF after

\* Listing leaves room for the new session.
LEMMA RoomListed ==
    ASSUME OAuthTyped, Room, NEW d \in Device, List(d)
    PROVE  Room'
<1> SUFFICES ASSUME broken' = {}, NEW p \in Provider, NEW Q \in SUBSET Creating(p)'
             PROVE  Cardinality(IdsFor(p)' \ DoomedBy(Q)') + Cardinality(Q) < Limit(p) + Cardinality(Device)
    BY DEF Room, Limit
<1>1. broken = {} /\ IdsFor(p)' = IdsFor(p) /\ Q \in SUBSET Device
    BY DEF List, Whole, IdsFor, Creating
<1>2. \A o \in Device : o # d => writer'[o] = writer[o]
    BY DEF List, Move, OAuthTyped
<1>3. writer'[d].what = writer[d].what /\ writer'[d].doomed = Doomed(writer[d].what)
    BY DEF List, Move, OAuthTyped
<1>4. CASE d \in Q
    <2>1. writer[d].what = p
        BY <1>3, <1>4 DEF Creating
    <2>2. IdsFor(p)' \ DoomedBy(Q)' \in SUBSET (IdsFor(p) \ Doomed(p))
        BY <1>1, <1>3, <1>4, <2>1 DEF DoomedBy
    <2> DEFINE after == IdsFor(p)' \ DoomedBy(Q)'
               spared == IdsFor(p) \ Doomed(p)
    <2>3. IsFiniteSet(spared) /\ Cardinality(spared) \in Nat /\ Cardinality(spared) < Limit(p)
        BY IdsFinite, Spared
    <2>4. after \in SUBSET spared
        BY <2>2
    <2> HIDE DEF after, spared
    <2>5. Cardinality(after) <= Cardinality(spared) /\ Cardinality(after) \in Nat
        BY <2>3, <2>4, FS_Subset, FS_CardinalityType
    <2>6. Limit(p) \in Nat
        BY SessionsAssumption DEF Limit
    <2>7. Cardinality(after) + Cardinality(Q) < Limit(p) + Cardinality(Device)
        BY <1>1, <2>3, <2>5, <2>6, DevicesFinite
    <2> QED
        BY <2>7 DEF after
<1>5. CASE d \notin Q
    <2>1. Q \in SUBSET Creating(p) /\ DoomedBy(Q)' = DoomedBy(Q)
        BY <1>1, <1>2, <1>5 DEF Creating, DoomedBy
    <2> QED
        BY <1>1, <2>1 DEF Room
<1> QED
    BY <1>4, <1>5

\* A session that is created takes the room that was left for it.
LEMMA RoomCreated ==
    ASSUME OAuthTyped, Deleting, Room, NEW d \in Device, Create(d)
    PROVE  Room'
<1> SUFFICES ASSUME broken' = {}, NEW p \in Provider, NEW Q \in SUBSET Creating(p)'
             PROVE  Cardinality(IdsFor(p)' \ DoomedBy(Q)') + Cardinality(Q) < Limit(p) + Cardinality(Device)
    BY DEF Room, Limit
<1>1. broken = {} /\ Q \in SUBSET Device
    BY DEF Create, Whole, Creating
<1>2. /\ \A o \in Device : o # d => writer'[o] = writer[o]
      /\ writer'[d].at = "idle"
    BY DEF Create, Move, Resting, OAuthTyped
<1>3. d \notin Q /\ Q \in SUBSET Creating(p) /\ DoomedBy(Q)' = DoomedBy(Q)
    BY <1>1, <1>2 DEF Creating, DoomedBy
<1>4. writer[d].doomed = {} /\ writer[d].at = "create"
    BY DEF Deleting, Create
<1>5. CASE writer[d].what # p
    <2>1. IdsFor(p)' = IdsFor(p)
        BY <1>5 DEF Create, IdsFor
    <2> QED
        BY <1>1, <1>3, <2>1 DEF Room
<1>6. CASE writer[d].what = p
    <2> DEFINE both == Q \cup {d}
               before == IdsFor(p) \ DoomedBy(both)
               after == IdsFor(p)' \ DoomedBy(Q)'
               s == created + 1
    <2>1. both \in SUBSET Creating(p) /\ DoomedBy(both) = DoomedBy(Q)
        BY <1>3, <1>4, <1>6 DEF Creating, DoomedBy
    <2>2. Cardinality(before) + Cardinality(both) < Limit(p) + Cardinality(Device)
        BY <1>1, <2>1 DEF Room
    <2>3. IdsFor(p)' \subseteq IdsFor(p) \cup {s}
        BY DEF Create, IdsFor
    <2>4. after \in SUBSET (before \cup {s})
        BY <1>3, <2>1, <2>3
    <2>5. Cardinality(both) = Cardinality(Q) + 1
        BY <1>1, <1>3, DevicesFinite, FS_AddElement
    <2>6. IsFiniteSet(before) /\ Cardinality(before) \in Nat
        BY IdsFinite
    <2> HIDE DEF both, before, after, s
    <2>7. /\ IsFiniteSet(before \cup {s})
          /\ Cardinality(before \cup {s}) = IF s \in before THEN Cardinality(before) ELSE Cardinality(before) + 1
        BY <2>6, FS_AddElement
    <2>8. Cardinality(after) <= Cardinality(before \cup {s}) /\ Cardinality(after) \in Nat
        BY <2>4, <2>7, FS_Subset, FS_CardinalityType
    <2>9. Limit(p) \in Nat
        BY SessionsAssumption DEF Limit
    <2>10. Cardinality(after) + Cardinality(Q) < Limit(p) + Cardinality(Device)
        BY <1>1, <2>2, <2>5, <2>6, <2>7, <2>8, <2>9, DevicesFinite
    <2> QED
        BY <2>10 DEF after
<1> QED
    BY <1>5, <1>6

\* Every step leaves room for the sessions that are yet to be created.
LEMMA RoomStep == OAuthTyped /\ Numbered /\ Deleting /\ Room /\ [OAuthNext]_oauthVars => Room'
<1> SUFFICES ASSUME OAuthTyped, Numbered, Deleting, Room, [OAuthNext]_oauthVars PROVE Room'
    OBVIOUS
<1>0. Unique
    BY DEF Numbered
<1>1. ASSUME broken \subseteq broken', NumbersKept, writer' = writer PROVE Room'
    <2>1. IdsFor("sso")' \subseteq IdsFor("sso") /\ IdsFor("mcp")' \subseteq IdsFor("mcp")
        BY <1>1 DEF NumbersKept, IdsFor
    <2> QED
        BY <1>1, <2>1, RoomKept DEF Creating
<1>2. CASE UNCHANGED oauthVars
    BY <1>1, <1>2 DEF oauthVars, NumbersKept
<1>3. ASSUME NEW c \in Caller, Request(c), UNCHANGED <<cookie, writer, created, ended>> PROVE Room'
    BY <1>0, <1>1, <1>3, RequestFacts
<1>4. ASSUME NEW s \in Id, Expire(s) PROVE Room'
    <2>1. NumbersKept
        BY <1>4, ExpireRows DEF NumbersKept
    <2> QED
        BY <1>1, <1>4, <2>1 DEF Expire
<1>5. CASE Manage
    <2>1. ASSUME NEW d \in Device, ListFails(d) \/ CreateFails(d) \/ (\E s \in Id : PruneFails(d, s)) PROVE Room'
        <3>1. broken' # {}
            BY <2>1 DEF ListFails, CreateFails, PruneFails, Break
        <3> QED
            BY <3>1 DEF Room
    <2>2. ASSUME NEW d \in Device,
                 (\E what \in {"sso", "mcp", "logout"} : Begin(d, what)) \/ Pruned(d)
          PROVE  Room'
        <3>1. broken \subseteq broken' /\ table' = table
            BY <2>2 DEF Begin, Pruned, Whole
        <3>2. IdsFor("sso")' = IdsFor("sso") /\ IdsFor("mcp")' = IdsFor("mcp")
            BY <3>1 DEF IdsFor
        <3>3. \A o \in Device : o # d => writer'[o] = writer[o]
            BY <2>2 DEF Begin, Pruned, Move, OAuthTyped
        <3>4. CASE Pruned(d)
            <4>1. \/ writer'[d].at = "idle"
                  \/ /\ writer'[d].what = writer[d].what /\ writer'[d].doomed = writer[d].doomed
                     /\ writer[d].at = "prune"
                BY <3>4 DEF Pruned, Move, Resting, OAuthTyped
            <4> QED
                BY <3>1, <3>2, <3>3, <4>1, RoomKept DEF Creating
        <3>5. ASSUME NEW what \in {"sso", "mcp", "logout"}, Begin(d, what) PROVE Room'
            <4>1. writer'[d].at = "list"
                BY <3>5 DEF Begin, Move, Resting, OAuthTyped
            <4> QED
                BY <3>1, <3>2, <3>3, <4>1, RoomKept DEF Creating
        <3> QED
            BY <2>2, <3>4, <3>5
    <2>3. ASSUME NEW d \in Device, NEW s \in Id, Prune(d, s) PROVE Room'
        <3>1. broken' = broken /\ table' = {r \in table : r.id \notin {s}}
            BY <2>3 DEF Prune, Whole, Delete
        <3>2. /\ IdsFor("sso")' \subseteq IdsFor("sso") /\ IdsFor("mcp")' \subseteq IdsFor("mcp")
              /\ s \notin Ids'
            BY <3>1 DEF IdsFor, Ids
        <3>3. /\ \A o \in Device : o # d => writer'[o] = writer[o]
              /\ writer'[d].what = writer[d].what /\ writer'[d].at = writer[d].at
              /\ writer'[d].doomed = writer[d].doomed \ {s}
            BY <2>3 DEF Prune, Move, OAuthTyped
        <3> QED
            BY <3>1, <3>2, <3>3, RoomKept DEF Creating
    <2>4. ASSUME NEW d \in Device, SignOut(d) PROVE Room'
        BY <1>1, <2>4 DEF SignOut, NumbersKept
    <2>5. ASSUME NEW p \in Provider, Disconnect(p) PROVE Room'
        BY <1>1, <2>5 DEF Disconnect, Delete, NumbersKept
    <2> QED
        BY <1>5, <2>1, <2>2, <2>3, <2>4, <2>5, RoomListed, RoomCreated DEF Manage, Provider
<1> QED
    BY <1>2, <1>3, <1>4, <1>5 DEF OAuthNext, Quiet

LEMMA RoomInit == OAuthInit => Room
<1> SUFFICES ASSUME OAuthInit, NEW p \in Provider, NEW Q \in SUBSET Creating(p)
             PROVE  Cardinality(IdsFor(p) \ DoomedBy(Q)) + Cardinality(Q) < Limit(p) + Cardinality(Device)
    BY DEF Room
<1>1. IdsFor(p) \ DoomedBy(Q) = {} /\ Cardinality({}) = 0 /\ Q \in SUBSET Device
    BY FS_EmptySet DEF OAuthInit, IdsFor, Creating
<1>2. Limit(p) \in Nat /\ Limit(p) > 0
    BY SessionsAssumption DEF Limit
<1> QED
    BY <1>1, <1>2, DevicesFinite

\* However often callbacks that list, prune and create sessions overlap, a
\* user has at most one session more than OAUTH_MAX_SESSIONS_PER_USER (one,
\* for MCP servers) for each other callback there can be at once.
THEOREM LimitKept == OAuthSpec => []SessionsBounded
<1>1. IInv /\ Room => SessionsBounded
    <2> SUFFICES ASSUME IInv, Room, broken = {}
                 PROVE  /\ Cardinality(IdsFor("sso")) < MaxSessions + Cardinality(Device)
                        /\ Cardinality(IdsFor("mcp")) <= Cardinality(Device)
        BY DEF SessionsBounded
    <2>1. ASSUME NEW p \in Provider PROVE Cardinality(IdsFor(p)) < Limit(p) + Cardinality(Device)
        <3>1. IdsFor(p) \ DoomedBy({}) = IdsFor(p) /\ {} \in SUBSET Creating(p)
            BY DEF DoomedBy
        <3>2. Cardinality(IdsFor(p) \ DoomedBy({})) + Cardinality({}) < Limit(p) + Cardinality(Device)
            BY <3>1 DEF Room
        <3>3. Cardinality(IdsFor(p)) \in Nat
            BY IdsFinite DEF IInv
        <3> QED
            BY <3>1, <3>2, <3>3, FS_EmptySet
    <2>2. Cardinality(IdsFor("sso")) < MaxSessions + Cardinality(Device)
        BY <2>1 DEF Provider, Limit
    <2>3. Cardinality(IdsFor("mcp")) < 1 + Cardinality(Device) /\ Cardinality(IdsFor("mcp")) \in Nat
        BY <2>1, IdsFinite DEF Provider, Limit, IInv
    <2> QED
        BY <2>2, <2>3, DevicesFinite
<1>2. IInv /\ Room /\ [OAuthNext]_oauthVars => Room'
    BY RoomStep DEF IInv
<1> QED
    BY <1>1, <1>2, RoomInit, Inductive, PTL DEF OAuthSpec

-----------------------------------------------------------------------------
(* Requests that go without a token                                        *)

Seeking == {"completion", "pipe"}

\* What explains that a request has none.
Why(c) == c \in excused \/ grant = "bare" \/ broken # {} \/ \E s \in Id : Raced(s)

\* A session without a refresh token expires only under a "bare" grant.
Rows ==
    \A r \in table : /\ r.refresh = 0 => grant \in {"bare", "lasting"}
                     /\ grant = "lasting" => r.fresh
Barren == \A c \in Caller : Under(c) /\ reader[c].refresh = 0 => grant = "bare"
Renewable == Rows /\ Barren

\* A request keeps the session it has settled on unless another deletes it.
Looks(c) ==
    reader[c].who \in Seeking =>
        /\ reader[c].at = "done" /\ ~reader[c].got => Why(c)
        /\ reader[c].at = "find" /\ reader[c].retried => c \in excused \/ reader[c].id \in IdsFor("sso")
        /\ reader[c].at \in {"refresh", "save"} => c \in excused \/ reader[c].id \in Ids
Looking == \A c \in Caller : Looks(c)

\* The request of the step, afterwards.
LEMMA GoFacts ==
    ASSUME OAuthTyped, NEW c \in Caller, NEW r, Go(c, r)
    PROVE  reader'[c] = r
    BY DEF Go, OAuthTyped

LEMMA AnswerFacts ==
    ASSUME OAuthTyped, NEW c \in Caller, NEW found \in BOOLEAN, Answer(c, found)
    PROVE  reader'[c].at = "done" /\ reader'[c].who = reader[c].who /\ reader'[c].got = found
<1> DEFINE next == [Idle EXCEPT !.at = "done", !.who = reader[c].who, !.got = found]
<1>1. reader'[c] = next
    BY GoFacts DEF Answer
<1>2. next.at = "done" /\ next.who = reader[c].who /\ next.got = found
    BY DEF Idle
<1> QED
    BY <1>1, <1>2

LEMMA MissFacts ==
    ASSUME OAuthTyped, NEW c \in Caller, Miss(c)
    PROVE  /\ reader'[c].who = reader[c].who
           /\ \/ reader'[c].at = "list"
              \/ /\ reader'[c].at = "done"
                 /\ reader[c].who \in Seeking => reader[c].retried
<1>1. CASE reader[c].who \in Seeking /\ ~reader[c].retried
    <2> DEFINE next == [Idle EXCEPT !.at = "list", !.who = reader[c].who, !.retried = TRUE]
    <2>1. reader'[c] = next
        BY <1>1, GoFacts DEF Miss, Seeking
    <2>2. next.at = "list" /\ next.who = reader[c].who
        BY DEF Idle
    <2> QED
        BY <2>1, <2>2
<1>2. CASE ~(reader[c].who \in Seeking /\ ~reader[c].retried)
    <2>1. Answer(c, FALSE)
        BY <1>2 DEF Miss, Seeking
    <2> QED
        BY <1>2, <2>1, AnswerFacts DEF OAuthTyped, Reader
<1> QED
    BY <1>1, <1>2

\* What a session that is looked for is found to be.
LEMMA FindFacts ==
    ASSUME OAuthTyped, NEW c \in Caller, NEW s \in Wanted(c),
           Go(c, [reader[c] EXCEPT !.at = "refresh", !.id = s, !.refresh = RowOf(s).refresh])
    PROVE  /\ s \in Ids /\ RowOf(s) \in table /\ RowOf(s).id = s
           /\ reader'[c].at = "refresh" /\ reader'[c].id = s /\ reader'[c].refresh = RowOf(s).refresh
<1>1. s \in Ids
    BY DEF Wanted, Ids, IdsFor
<1>2. reader[c] \in Reader
    BY DEF OAuthTyped
<1> DEFINE next == [reader[c] EXCEPT !.at = "refresh", !.id = s, !.refresh = RowOf(s).refresh]
<1>3. next.at = "refresh" /\ next.id = s /\ next.refresh = RowOf(s).refresh
    BY <1>2 DEF Reader
<1>4. reader'[c] = next
    BY GoFacts
<1> QED
    BY <1>1, <1>3, <1>4, RowFacts

\* A refresh keeps the session, and a token it got.
LEMMA RefreshFacts ==
    ASSUME OAuthTyped, NEW c \in Caller, Refresh(c) \/ RefreshFails(c)
    PROVE  /\ reader'[c].at \in {"save", "drop"}
           /\ reader'[c].who = reader[c].who /\ reader'[c].id = reader[c].id
           /\ reader'[c].refresh = 0 => reader[c].refresh = 0
<1> DEFINE token == reader[c].refresh
           new == Merged(token, Issues(reader[c].id))
           saved == [reader[c] EXCEPT !.at = "save", !.refresh = new]
           dropped == [reader[c] EXCEPT !.at = "drop"]
<1>1. reader[c] \in Reader
    BY DEF OAuthTyped
<1>2. /\ saved.at = "save" /\ saved.who = reader[c].who /\ saved.id = reader[c].id /\ saved.refresh = new
      /\ dropped.at = "drop" /\ dropped.who = reader[c].who /\ dropped.id = reader[c].id
      /\ dropped.refresh = token
    BY <1>1 DEF Reader
<1>3. new = 0 => token = 0
    BY DEF Merged
<1>4. reader'[c] \in {saved, dropped}
    BY GoFacts DEF Refresh, RefreshFails
<1> HIDE DEF saved, dropped, new
<1> QED
    BY <1>2, <1>3, <1>4

\* Rows that are there stay there, with their providers.
Stay == Ids \subseteq Ids' /\ IdsFor("sso") \subseteq IdsFor("sso")'

LEMMA UpdateStays == ASSUME NEW s, NEW token, Update(s, token) PROVE Stay
<1>1. table' = {After(r, s, token) : r \in table}
    BY DEF Update, After
<1>2. \A r : After(r, s, token).id = r.id /\ After(r, s, token).provider = r.provider
    BY DEF After
<1> QED
    BY <1>1, <1>2 DEF Stay, Ids, IdsFor

LEMMA RenewableStep ==
    OAuthTyped /\ Numbered /\ Deleting /\ Renewable /\ [OAuthNext]_oauthVars => Renewable'
<1> SUFFICES ASSUME OAuthTyped, Numbered, Deleting, Renewable, [OAuthNext]_oauthVars PROVE Renewable'
    OBVIOUS
<1>0. Unique
    BY DEF Numbered
<1>1. CASE UNCHANGED oauthVars
    BY <1>1 DEF oauthVars, Renewable, Rows, Barren, Under
<1>2. ASSUME UNCHANGED grant, NEW c \in Caller, Request(c) PROVE Renewable'
    <2>1. Others(c)
        BY <1>0, <1>2, RequestFacts DEF Others
    <2>2. ASSUME table' \subseteq table, reader'[c].at \notin {"refresh", "save", "drop"} PROVE Renewable'
        BY <1>2, <2>1, <2>2 DEF Renewable, Rows, Barren, Under, Others
    <2>3. ASSUME NEW who \in Who, NEW d \in Device \cup {"none"}, Seek(c, who, d) PROVE Renewable'
        <3> DEFINE known == who # "mcp" /\ d # "none" /\ cookie[d] # 0
                   next == [Idle EXCEPT !.who = who,
                                        !.at = IF who = "mcp" \/ known THEN "find" ELSE "list",
                                        !.id = IF known THEN cookie[d] ELSE 0,
                                        !.retried = who # "mcp" /\ ~known]
        <3>1. reader'[c] = next /\ table' = table
            BY <2>3, GoFacts DEF Seek
        <3>2. next.at \in {"find", "list"}
            BY DEF Idle
        <3> HIDE DEF next
        <3> QED
            BY <2>2, <3>1, <3>2
    <2>4. CASE Find(c)
        <3>1. table' = table
            BY <2>4 DEF Find
        <3>2. CASE Leaves(c)
            BY <2>2, <3>1, <3>2, LeavesFacts
        <3>3. ASSUME NEW s \in Wanted(c), ~RowOf(s).fresh,
                     Go(c, [reader[c] EXCEPT !.at = "refresh", !.id = s, !.refresh = RowOf(s).refresh])
              PROVE  Renewable'
            <4>1. RowOf(s) \in table /\ reader'[c].refresh = RowOf(s).refresh
                BY <3>3, FindFacts
            <4>2. reader'[c].refresh = 0 => grant = "bare"
                BY <3>3, <4>1 DEF Renewable, Rows
            <4> QED
                BY <1>2, <2>1, <3>1, <4>2 DEF Renewable, Rows, Barren, Under, Others
        <3> QED
            BY <2>4, <3>2, <3>3, MissLeaves, AnswerLeaves DEF Find
    <2>5. CASE Refresh(c) \/ RefreshFails(c)
        <3>1. table' = table /\ Under(c)
            BY <2>5 DEF Refresh, RefreshFails, Under
        <3>2. reader'[c].refresh = 0 => grant = "bare"
            BY <2>5, <3>1, RefreshFacts DEF Renewable, Barren
        <3> QED
            BY <1>2, <2>1, <3>1, <3>2 DEF Renewable, Rows, Barren, Under, Others
    <2>6. CASE SaveToken(c)
        <3>1. reader'[c].at \notin {"refresh", "save", "drop"}
            BY <2>6, MissLeaves, AnswerLeaves, LeavesFacts DEF SaveToken
        <3>2. /\ reader[c].refresh \in Nat /\ Update(reader[c].id, reader[c].refresh)
              /\ reader[c].refresh = 0 => grant = "bare"
            BY <2>6 DEF SaveToken, OAuthTyped, Reader, Renewable, Barren, Under
        <3>3. Rows'
            <4> SUFFICES ASSUME NEW x \in table'
                         PROVE  /\ x.refresh = 0 => grant \in {"bare", "lasting"}
                                /\ grant = "lasting" => x.fresh
                BY <1>2 DEF Rows
            <4>1. PICK r \in table : /\ x.refresh = IF r.id = reader[c].id THEN reader[c].refresh ELSE r.refresh
                                     /\ x = After(r, reader[c].id, reader[c].refresh)
                BY <3>2, UpdateRows
            <4>2. r \in Row
                BY DEF OAuthTyped
            <4>3. r.fresh => x.fresh
                BY <4>1, <4>2 DEF After, Row
            <4> QED
                BY <3>2, <4>1, <4>3 DEF Renewable, Rows
        <3> QED
            BY <1>2, <2>1, <3>1, <3>3 DEF Renewable, Barren, Under, Others
    <2>7. CASE FindFails(c) \/ SaveTokenFails(c) \/ Drop(c) \/ DropFails(c) \/ FallbackFails(c)
        <3>1. Leaves(c) /\ table' \subseteq table
            BY <2>7, MissLeaves, AnswerLeaves DEF FindFails, SaveTokenFails, Drop, DropFails, FallbackFails, Delete
        <3> QED
            BY <2>2, <3>1, LeavesFacts
    <2>8. CASE Fallback(c)
        <3>1. table' = table
            BY <2>8 DEF Fallback
        <3>2. ASSUME NEW best, Go(c, [reader[c] EXCEPT !.at = "find", !.id = best.id])
              PROVE  reader'[c].at = "find"
            BY <3>2 DEF Go, OAuthTyped, Reader
        <3> QED
            BY <2>2, <2>8, <3>1, <3>2, AnswerLeaves, LeavesFacts DEF Fallback
    <2> QED
        BY <1>2, <2>3, <2>4, <2>5, <2>6, <2>7, <2>8 DEF Request
<1>3. ASSUME UNCHANGED grant, Manage, UNCHANGED reader PROVE Renewable'
    <2>1. Barren'
        BY <1>3 DEF Renewable, Barren, Under
    <2>2. ASSUME table' \subseteq table PROVE Rows'
        BY <1>3, <2>2 DEF Renewable, Rows
    <2>3. ASSUME NEW d \in Device, Create(d) PROVE Rows'
        <3> DEFINE new == [id |-> created + 1, provider |-> writer[d].what, refresh |-> FirstToken,
                          fresh |-> TRUE, updated |-> clock']
        <3>1. table' = table \cup {new} /\ new.refresh = FirstToken /\ new.fresh = TRUE
            BY <2>3 DEF Create
        <3>2. FirstToken = 0 => grant \in {"bare", "lasting"}
            BY DEF FirstToken, OAuthTyped, Grant
        <3> HIDE DEF new
        <3> QED
            BY <1>3, <3>1, <3>2 DEF Renewable, Rows
    <2> QED
        BY <1>0, <1>3, <2>1, <2>2, <2>3, ManageFacts DEF Renewable
<1>4. ASSUME UNCHANGED grant, NEW s \in Id, Expire(s) PROVE Renewable'
    <2>1. grant # "lasting" /\ UNCHANGED reader
        BY <1>4 DEF Expire
    <2>2. Rows'
        BY <1>4, <2>1, ExpireRows DEF Renewable, Rows
    <2> QED
        BY <1>4, <2>1, <2>2 DEF Renewable, Barren, Under
<1> QED
    BY <1>1, <1>2, <1>3, <1>4 DEF OAuthNext, Quiet

\* A request that others' steps leave alone.
LEMMA LooksKept ==
    ASSUME Grows, excused \subseteq excused', NEW c \in Caller, reader'[c] = reader[c],
           Stay \/ (c \in Active => c \in excused'), Looks(c)
    PROVE  Looks(c)'
<1>1. Why(c) => Why(c)'
    BY DEF Why, Grows, Raced
<1>2. CASE Stay
    BY <1>1, <1>2 DEF Looks, Stay
<1>3. CASE c \in Active => c \in excused'
    BY <1>1, <1>3 DEF Looks, Active
<1> QED
    BY <1>2, <1>3

\* A request that is told there is no token has an explanation, or looks for
\* another session.
LEMMA LooksMissed ==
    ASSUME OAuthTyped, NEW c \in Caller, Miss(c),
           reader[c].who \in Seeking /\ reader[c].retried => Why(c)'
    PROVE  Looks(c)'
    BY MissFacts DEF Looks

LEMMA LooksAnswered ==
    ASSUME OAuthTyped, NEW c \in Caller, NEW found \in BOOLEAN, Answer(c, found), found \/ Why(c)'
    PROVE  Looks(c)'
    BY AnswerFacts DEF Looks

\* Each step of the request itself.
LEMMA LooksFind ==
    ASSUME OAuthTyped, Unique, NEW c \in Caller, Find(c), Looks(c)
    PROVE  Looks(c)'
<1>1. UNCHANGED <<table, excused>>
    BY DEF Find, Whole
<1>2. ASSUME reader[c].who \in Seeking, reader[c].retried
      PROVE  c \in excused \/ reader[c].id \in IdsFor("sso")
    BY <1>2 DEF Looks, Find
<1>3. reader[c].who \in Seeking => Wanted(c) = {reader[c].id} \cap Ids
    BY DEF Wanted, Seeking
<1>4. CASE Wanted(c) = {} /\ Miss(c)
    <2>1. reader[c].who \in Seeking /\ reader[c].retried => Why(c)'
        BY <1>1, <1>2, <1>3, <1>4 DEF IdsFor, Ids, Why
    <2> QED
        BY <1>4, <2>1, LooksMissed
<1>5. ASSUME NEW s \in Wanted(c), Refused(c, RowOf(s)), Miss(c) PROVE Looks(c)'
    <2>1. s \in Ids /\ RowOf(s) \in table /\ RowOf(s).id = s
        BY RowFacts DEF Wanted, Ids, IdsFor
    <2>2. RowOf(s).provider = "mcp"
        BY <1>5 DEF Refused
    <2>3. s \notin IdsFor("sso")
        BY <2>1, <2>2 DEF IdsFor, Unique
    <2>4. reader[c].who \in Seeking /\ reader[c].retried => Why(c)'
        BY <1>1, <1>2, <1>3, <2>3 DEF Why
    <2> QED
        BY <1>5, <2>4, LooksMissed
<1>6. CASE Answer(c, TRUE)
    BY <1>6, LooksAnswered
<1>7. ASSUME NEW s \in Wanted(c),
             Go(c, [reader[c] EXCEPT !.at = "refresh", !.id = s, !.refresh = RowOf(s).refresh])
      PROVE  Looks(c)'
    <2>1. reader'[c].at = "refresh" /\ reader'[c].id = s /\ s \in Ids
        BY <1>7, FindFacts
    <2> QED
        BY <1>1, <2>1 DEF Looks, Ids
<1> QED
    BY <1>4, <1>5, <1>6, <1>7 DEF Find

LEMMA LooksFallback ==
    ASSUME OAuthTyped, NEW c \in Caller, Fallback(c)
    PROVE  Looks(c)'
<1>1. table' = table
    BY DEF Fallback
<1>2. CASE Answer(c, FALSE) /\ excused' = excused \cup {c}
    BY <1>2, LooksAnswered DEF Why
<1>3. ASSUME NEW best \in Latest(Candidates(c)),
             Go(c, [reader[c] EXCEPT !.at = "find", !.id = best.id]),
             excused' = IF reader[c].who = "pipe" /\ best.provider = "mcp" THEN excused \cup {c} ELSE excused
      PROVE  Looks(c)'
    <2> DEFINE next == [reader[c] EXCEPT !.at = "find", !.id = best.id]
    <2>1. next.at = "find" /\ next.id = best.id /\ next.who = reader[c].who
        BY DEF OAuthTyped, Reader
    <2>2. reader'[c] = next
        BY <1>3, GoFacts
    <2>3. best \in table /\ best.provider \in {"sso", "mcp"}
        BY DEF Latest, Candidates, OAuthTyped, Row
    <2>4. reader[c].who = "completion" => best.provider = "sso"
        BY DEF Latest, Candidates
    <2>5. reader[c].who \in Seeking => c \in excused' \/ best.id \in IdsFor("sso")'
        BY <1>1, <1>3, <2>3, <2>4 DEF Seeking, IdsFor
    <2> HIDE DEF next
    <2> QED
        BY <2>1, <2>2, <2>5 DEF Looks
<1> QED
    BY <1>2, <1>3 DEF Fallback

LEMMA LooksRequest ==
    ASSUME OAuthTyped, Numbered, TokenInv, Renewable, UNCHANGED grant, NEW c \in Caller, Request(c), Looks(c)
    PROVE  Looks(c)'
<1>0. Unique
    BY DEF Numbered
<1>1. ASSUME NEW who \in Who, NEW d \in Device \cup {"none"}, Seek(c, who, d) PROVE Looks(c)'
    <2> DEFINE known == who # "mcp" /\ d # "none" /\ cookie[d] # 0
               next == [Idle EXCEPT !.who = who,
                                    !.at = IF who = "mcp" \/ known THEN "find" ELSE "list",
                                    !.id = IF known THEN cookie[d] ELSE 0,
                                    !.retried = who # "mcp" /\ ~known]
    <2>1. reader'[c] = next
        BY <1>1, GoFacts DEF Seek
    <2>2. next.at \in {"find", "list"} /\ next.who = who
        BY DEF Idle
    <2>3. next.retried <=> who # "mcp" /\ ~known
        BY DEF Idle
    <2>4. who # "mcp" /\ next.at = "find" => known
        BY DEF Idle
    <2> HIDE DEF next, known
    <2> QED
        BY <2>1, <2>2, <2>3, <2>4 DEF Looks, Seeking
<1>2. CASE Refresh(c) \/ RefreshFails(c)
    <2>1. UNCHANGED <<table, excused>> /\ reader[c].at = "refresh"
        BY <1>2 DEF Refresh, RefreshFails, Whole
    <2> QED
        BY <1>2, <2>1, RefreshFacts DEF Looks, Ids
<1>3. CASE SaveToken(c)
    <2>1. excused' = excused /\ reader[c].at = "save"
        BY <1>3 DEF SaveToken
    <2>2. CASE reader[c].id \in Ids
        BY <1>3, <2>2, LooksAnswered DEF SaveToken
    <2>3. CASE reader[c].id \notin Ids
        <3>1. reader[c].who \in Seeking => Why(c)'
            BY <2>1, <2>3 DEF Looks, Why
        <3> QED
            BY <1>3, <2>3, <3>1, LooksMissed DEF SaveToken
    <2> QED
        BY <2>2, <2>3
<1>4. CASE FindFails(c) \/ SaveTokenFails(c) \/ DropFails(c) \/ FallbackFails(c)
    <2>1. broken' # {}
        BY <1>4 DEF FindFails, SaveTokenFails, DropFails, FallbackFails, Break
    <2>2. Why(c)'
        BY <2>1 DEF Why
    <2> QED
        BY <1>4, <2>2, LooksMissed, LooksAnswered DEF FindFails, SaveTokenFails, DropFails, FallbackFails
<1>5. CASE Drop(c)
    <2>1. UNCHANGED <<broken, overlapped>> /\ excused \subseteq excused' /\ Under(c) /\ reader[c].at = "drop"
        BY <1>5 DEF Drop, Whole, Under
    <2>2. reader[c].id \in Id
        BY <2>1 DEF Numbered
    <2>3. grant = "bare" \/ ~Calm(reader[c].id)
        BY <2>1 DEF TokenInv, Given, Renewable, Barren
    <2>4. Why(c)'
        BY <2>1, <2>2, <2>3 DEF Why, Calm, Raced
    <2> QED
        BY <1>5, <2>4, LooksMissed DEF Drop
<1> QED
    BY <1>0, <1>1, <1>2, <1>3, <1>4, <1>5, LooksFind, LooksFallback DEF Request

\* What a request does to the others.
LEMMA RequestSpares ==
    ASSUME OAuthTyped, UNCHANGED grant, NEW c \in Caller, Request(c), NEW o \in Caller \ {c}
    PROVE  Grows /\ excused \subseteq excused' /\ (Stay \/ (o \in Active => o \in excused'))
<1>1. CASE Drop(c)
    BY <1>1 DEF Drop, Whole, Grows
<1>2. CASE SaveToken(c)
    BY <1>2, UpdateStays DEF SaveToken, Whole, Grows
<1>3. CASE \/ \E who \in Who, d \in Device \cup {"none"} : Seek(c, who, d)
           \/ Find(c) \/ FindFails(c) \/ Refresh(c) \/ RefreshFails(c) \/ SaveTokenFails(c)
           \/ DropFails(c) \/ Fallback(c) \/ FallbackFails(c)
    <2>1. table' = table /\ Grows /\ excused \subseteq excused'
        BY <1>3 DEF Seek, Spend, Find, FindFails, Refresh, RefreshFails, SaveTokenFails, DropFails,
                    Fallback, FallbackFails, Break, Whole, Grows
    <2> QED
        BY <2>1 DEF Stay, Ids, IdsFor
<1> QED
    BY <1>1, <1>2, <1>3 DEF Request

\* Callbacks and logouts that delete a session excuse whoever may use it.
LEMMA ManageSpares ==
    ASSUME UNCHANGED <<grant, reader, overlapped>>, Manage
    PROVE  Grows /\ excused \subseteq excused' /\ (Stay \/ Active \subseteq excused')
<1>1. ASSUME table \subseteq table' PROVE Stay
    BY <1>1 DEF Stay, Ids, IdsFor
<1>2. ASSUME NEW d \in Device, NEW s \in Id, Prune(d, s) PROVE Grows /\ Active \subseteq excused' /\ excused \subseteq excused'
    BY <1>2 DEF Prune, Whole, Grows
<1>3. ASSUME NEW p \in {"sso", "mcp"}, Disconnect(p) PROVE Grows /\ Active \subseteq excused' /\ excused \subseteq excused'
    BY <1>3 DEF Disconnect, Grows
<1>4. ASSUME NEW d \in Device,
             \/ \E what \in {"sso", "mcp", "logout"} : Begin(d, what)
             \/ List(d) \/ ListFails(d) \/ (\E s \in Id : PruneFails(d, s))
             \/ Pruned(d) \/ Create(d) \/ CreateFails(d) \/ SignOut(d)
      PROVE  table \subseteq table' /\ Grows /\ excused \subseteq excused'
    BY <1>4 DEF Begin, List, ListFails, PruneFails, Pruned, Create, CreateFails, SignOut, Break, Whole, Grows
<1> QED
    BY <1>1, <1>2, <1>3, <1>4 DEF Manage

LEMMA LookingStep == IInv /\ Renewable /\ Looking /\ [OAuthNext]_oauthVars => Looking'
<1> SUFFICES ASSUME IInv, Renewable, Looking, [OAuthNext]_oauthVars, NEW c \in Caller PROVE Looks(c)'
    BY DEF Looking
<1>0. OAuthTyped /\ Numbered /\ TokenInv /\ Unique /\ Looks(c)
    BY DEF IInv, Numbered, Looking
<1>1. CASE UNCHANGED oauthVars
    BY <1>0, <1>1 DEF oauthVars, Looks, Why, Raced, Ids, IdsFor
<1>2. ASSUME UNCHANGED grant, NEW o \in Caller, Request(o) PROVE Looks(c)'
    <2>1. CASE o = c
        BY <1>0, <1>2, <2>1, LooksRequest
    <2>2. CASE o # c
        <3>1. reader'[c] = reader[c]
            BY <1>0, <1>2, <2>2, RequestFacts
        <3> QED
            BY <1>0, <1>2, <2>2, <3>1, RequestSpares, LooksKept
    <2> QED
        BY <2>1, <2>2
<1>3. ASSUME UNCHANGED grant, Manage, UNCHANGED <<reader, overlapped>> PROVE Looks(c)'
    BY <1>0, <1>3, ManageSpares, LooksKept
<1>4. ASSUME UNCHANGED grant, NEW s \in Id, Expire(s) PROVE Looks(c)'
    <2>1. table' = {Expired(r, s) : r \in table}
        BY <1>4 DEF Expire, Expired
    <2>2. \A r \in Row : Expired(r, s).id = r.id /\ Expired(r, s).provider = r.provider
        BY DEF Expired, Row
    <2>3. Stay
        BY <1>0, <2>1, <2>2 DEF Stay, Ids, IdsFor, OAuthTyped
    <2>4. Grows /\ excused' = excused /\ reader' = reader
        BY <1>4 DEF Expire, Grows
    <2> QED
        BY <1>0, <2>3, <2>4, LooksKept
<1> QED
    BY <1>1, <1>2, <1>3, <1>4 DEF OAuthNext, Quiet

LEMMA LookingInit == OAuthInit => Renewable /\ Looking
    BY DEF OAuthInit, Idle, Renewable, Rows, Barren, Under, Looking, Looks

\* get_system_oauth_token finds a token wherever there is one: a stale cookie,
\* a session of an MCP server or a refused refresh sends a completion or a
\* pipe on to the session it can use, unless others delete sessions meanwhile,
\* a call fails, or the tokens cannot be renewed.
THEOREM TokensFound == OAuthSpec => []TokenFound
<1>1. Looking => TokenFound
    BY DEF Looking, Looks, TokenFound, Why, Seeking
<1>2. IInv /\ Renewable /\ Looking /\ [OAuthNext]_oauthVars => (Renewable /\ Looking)'
    BY RenewableStep, LookingStep DEF IInv
<1> QED
    BY <1>1, <1>2, LookingInit, Inductive, PTL DEF OAuthSpec
=============================================================================
