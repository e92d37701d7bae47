----------------------------- MODULE Completion -----------------------------
(***************************************************************************)
(* One chat completion: process_chat (main.py) with                        *)
(* process_chat_response (utils/middleware.py), which writes one assistant *)
(* message.  It streams an answer, runs the tools the model calls and the  *)
(* code it writes, asks the model to continue after each, and stores what  *)
(* it has when it ends, fails or is stopped.                               *)
(*                                                                         *)
(* A step runs from one await to the next.  A stop cancels the coroutine   *)
(* at the await it is in.  The answer is a list of items; of a text the    *)
(* model keeps whether it is blank, of code whether it has run.            *)
(***************************************************************************)
EXTENDS Naturals, Sequences, FiniteSets, SequencesExt

CONSTANTS
    Call,         \* tool calls, numbered in the order the provider makes them
    Delegate,     \* calls of delegate_task, which run together after the others
    Left,         \* what an interrupted run may have left in a message to continue
    MaxRounds,    \* CHAT_RESPONSE_MAX_TOOL_CALL_ITERATIONS
    MaxRetries,   \* MAX_RETRIES (5 in the code)
    MaxItems,     \* bound: items of one stream
    MaxStops,     \* bound: stop requests
    MaxFailures   \* bound: calls that raise and writes that fail

ASSUME CallAssumption == Call \subseteq Nat /\ 0 \notin Call /\ Delegate \subseteq Call
ASSUME BoundAssumption == {MaxRounds, MaxRetries, MaxItems, MaxStops, MaxFailures} \subseteq Nat

Item == [kind: {"text", "code"}, id: {0, 1}] \cup [kind: {"call", "result"}, id: Call]
Text == [kind |-> "text", id |-> 1]
Blank == [kind |-> "text", id |-> 0]
Code == [kind |-> "code", id |-> 0]
Ran == [kind |-> "code", id |-> 1]
CallItem(c) == [kind |-> "call", id |-> c]
Result(c) == [kind |-> "result", id |-> c]

IdsOf(s, kind) == {x.id : x \in {y \in ToSet(s) : y.kind = kind}}

\* The elements of s that are in S, in their order.
Pick(s, S) ==
    LET at == {i \in 1..Len(s) : s[i] \in S}
    IN  [n \in 1..Cardinality(at) |->
            s[CHOOSE i \in at : Cardinality({j \in at : j <= i}) = n]]

\* An interrupted run made calls of its own, each once.
ASSUME LeftAssumption ==
    /\ Left \subseteq Seq(Item)
    /\ \A left \in Left :
          /\ \A i, j \in 1..Len(left) : left[i].kind = "call" /\ left[i] = left[j] => i = j
          /\ \A x \in ToSet(left) : x.kind \in {"call", "result"} => ~(1..x.id \subseteq Call)

VARIABLES
    mode,    \* provider's interface, code interpreter, ENABLE_REALTIME_CHAT_SAVE
    pc,      \* where the coroutine is
    loop,    \* whose stream it reads: "first", "tool" or "code"
    output,  \* the local list of items
    prior,   \* prior_output: the items before the stream of a continuation
    sent,    \* items the current stream has delivered
    asked,   \* response_tool_calls: calls the current stream has delivered
    pending, \* tool_calls: batches of calls to execute
    batch,   \* the batch being executed
    got,     \* places of the batch whose calls have returned
    rounds,  \* tool_call_iterations
    retries, \* of the code interpreter
    stored,  \* the message in the database
    shield,  \* the shielded save of a cancelled completion is under way
    made,    \* how many calls the provider has made
    runs,    \* runs[c]: how often call c was executed
    shown,   \* calls whose results the browser was shown
    short,   \* why the answer is shorter than the model wanted
    silent,  \* the completion ended on a path that stores nothing
    unsaved, \* a write of the message failed
    stops, failures

stream == <<sent, asked>>
tools == <<pending, batch, got, rounds>>
ghosts == <<made, runs, shown>>
ends == <<short, silent>>
faults == <<stops, failures>>
vars == <<mode, pc, loop, output, prior, stream, tools, retries, stored, shield,
          ghosts, ends, unsaved, faults>>

\* Where the except clause of response_handler catches a stop.
Handling == {"stream", "run", "ask", "say", "limit", "code", "askCode", "save",
             "finish", "outlet", "background"}
Place == Handling \cup {"prepare", "load", "plain", "filter", "error", "closing",
                        "stopped", "over"}
\* Where a stop ends a completion that has stored nothing.
Bare == {"prepare", "load", "plain", "error"}

TypeOK ==
    /\ mode \in [api: {"chat", "responses"}, detect: BOOLEAN, realtime: BOOLEAN, left: Left]
    /\ pc \in Place
    /\ loop \in {"first", "tool", "code"}
    /\ output \in Seq(Item) /\ prior \in Seq(Item) /\ sent \in Seq(Item)
    /\ asked \in Seq(Call)
    /\ pending \in Seq(Seq(Call))
    /\ batch \in Seq(Call)
    /\ got \in SUBSET Nat
    /\ rounds \in 0..MaxRounds /\ retries \in 0..MaxRetries
    /\ stored \in [output: Seq(Item), done: BOOLEAN, error: BOOLEAN]
    /\ shield \in BOOLEAN
    /\ made \in Nat /\ shown \in SUBSET Call
    /\ runs \in [Call -> Nat]
    /\ short \in {"no", "raised", "refused", "limit"}
    /\ silent \in BOOLEAN /\ unsaved \in BOOLEAN
    /\ stops \in 0..MaxStops /\ failures \in 0..MaxFailures

\* process_chat starts after the placeholder was stored, which keeps the items
\* of a message that is being continued.
Init ==
    /\ mode \in [api: {"chat", "responses"}, detect: BOOLEAN, realtime: BOOLEAN, left: Left]
    /\ pc = "prepare"
    /\ loop = "first"
    /\ output = <<>> /\ prior = <<>> /\ sent = <<>> /\ asked = <<>>
    /\ pending = <<>> /\ batch = <<>> /\ got = {}
    /\ rounds = 0 /\ retries = 0
    /\ stored = [output |-> mode.left, done |-> FALSE, error |-> FALSE]
    /\ shield = FALSE
    /\ made = 0 /\ shown = {}
    /\ runs = [c \in Call |-> IF c \in IdsOf(mode.left, "result") THEN 1 ELSE 0]
    /\ short = "no" /\ silent = FALSE /\ unsaved = FALSE
    /\ stops = 0 /\ failures = 0

-----------------------------------------------------------------------------
(* Operators                                                               *)

EndsWith(s, kind) == s # <<>> /\ Last(s).kind = kind

\* The last message item without its text if that is blank.
Trim(s) == IF s # <<>> /\ Last(s) = Blank THEN Front(s) ELSE s

\* Calls in the list of the stream that have no result in it or before it.
Unhandled_All(s) == Pick(s, {CallItem(c) : c \in Call})  \* mutant: handled ones, too
Unhandled(s) == Pick(s, {CallItem(c) : c \in Call \ IdsOf(prior \o s, "result")})

\* Where the handler goes once no further round of tools runs.
AfterTools(out) ==
    IF mode.detect /\ EndsWith(out, "code") /\ retries < MaxRetries THEN "code" ELSE "save"

\* The condition of the while loop over tool_calls, and the check after it.
NextRound(out, calls) ==
    IF calls = <<>> THEN AfterTools(out)
    ELSE IF rounds < MaxRounds THEN "run" ELSE "limit"

\* Chats.upsert_message_to_chat_by_id_and_message_id merges the given keys into
\* the message; it returns None when the statement fails.
Upsert(message) ==
    \/ /\ stored' = message
       /\ UNCHANGED <<unsaved, failures>>
    \/ /\ failures < MaxFailures
       /\ failures' = failures + 1
       /\ unsaved' = TRUE
       /\ UNCHANGED stored

Fail == failures < MaxFailures /\ failures' = failures + 1

\* The first step of a round: call items that are not yet in the list.
WithCalls(out, calls) ==
    LET new == Pick(calls, Call \ IdsOf(out, "call"))
    IN  out \o [i \in 1..Len(new) |-> CallItem(new[i])]

\* Goes on with list out and batches calls: starts a round, reports the limit,
\* runs code or saves.
Proceed(out, calls) ==
    /\ pc' = NextRound(out, calls)
    /\ IF pc' = "run"
          THEN /\ batch' = Head(calls)
               /\ pending' = Tail(calls)
               /\ rounds' = rounds + 1
               /\ output' = WithCalls(out, Head(calls))
          ELSE /\ pending' = calls
               /\ output' = out
               /\ UNCHANGED <<batch, rounds>>
    /\ short' = IF pc' = "limit" THEN "limit" ELSE short
    /\ got' = {}

-----------------------------------------------------------------------------
(* process_chat                                                            *)

\* process_chat_payload and the first request to the provider.
Prepared ==
    /\ pc = "prepare"
    /\ pc' \in {"load", "plain"}
    /\ UNCHANGED <<mode, loop, output, prior, stream, tools, retries, stored, shield,
                   ghosts, ends, unsaved, faults>>

\* They raise, or the provider answers with an error status.
PrepareRaises ==
    /\ pc = "prepare" /\ Fail
    /\ pc' = "error"
    /\ UNCHANGED <<mode, loop, output, prior, stream, tools, retries, stored, shield,
                   ghosts, ends, unsaved, stops>>

\* except Exception of process_chat: the error becomes part of the message.
Error ==
    /\ pc = "error"
    /\ Upsert([stored EXCEPT !.error = TRUE])
    /\ pc' = "over"
    /\ UNCHANGED <<mode, loop, output, prior, stream, tools, retries, shield,
                   ghosts, ends, stops>>

\* A reply that is not streamed: an error, an answer, or neither of them.
PlainError ==
    /\ pc = "plain"
    /\ Upsert([stored EXCEPT !.error = TRUE])
    /\ pc' = "over"
    /\ UNCHANGED <<mode, loop, output, prior, stream, tools, retries, shield,
                   ghosts, ends, stops>>

PlainAnswer ==
    /\ pc = "plain"
    /\ Upsert([stored EXCEPT !.done = TRUE, !.output = <<Text>>])
    /\ pc' = "filter"
    /\ UNCHANGED <<mode, loop, output, prior, stream, tools, retries, shield,
                   ghosts, ends, stops>>

\* outlet_filter_handler, which may write the message's text again.
Filter ==
    \/ UNCHANGED <<stored, unsaved, failures>>
    \/ Upsert(stored)

\* The background tasks' exceptions are only logged here.
PlainOutlet ==
    /\ pc = "filter"
    /\ Filter
    /\ pc' = "over"
    /\ UNCHANGED <<mode, loop, output, prior, stream, tools, retries, shield,
                   ghosts, ends, stops>>

\* An empty answer, or an exception that the handler only logs.
PlainSilent ==
    /\ pc = "plain"
    /\ pc' = "over"
    /\ silent' = TRUE
    /\ UNCHANGED <<mode, loop, output, prior, stream, tools, retries, stored, shield,
                   ghosts, short, unsaved, faults>>

-----------------------------------------------------------------------------
(* The stream: stream_body_handler                                         *)

\* The handler continues with the items that the message has.
Load ==
    /\ pc = "load"
    /\ output' = stored.output
    /\ pc' = "stream"
    /\ UNCHANGED <<mode, loop, prior, stream, tools, retries, stored, shield,
                   ghosts, ends, unsaved, faults>>

Deliver(item) ==
    /\ pc = "stream"
    /\ Len(sent) + Len(asked) < MaxItems
    /\ sent' = Append(sent, item)
    /\ UNCHANGED <<mode, pc, loop, prior, tools, retries, shield, ends, stops>>

\* Text extends the last item if that is text or unfinished code.
WithText(out) ==
    IF EndsWith(out, "text") THEN Append(Front(out), Text)
    ELSE IF out # <<>> /\ Last(out) = Code THEN out
    ELSE Append(out, Text)

\* With ENABLE_REALTIME_CHAT_SAVE each piece of text saves the items so far.
RealtimeSave(out) ==
    IF mode.realtime THEN Upsert([stored EXCEPT !.output = prior \o out])
                     ELSE UNCHANGED <<stored, unsaved, failures>>

ChatText ==
    /\ mode.api = "chat"
    /\ Deliver(Text)
    /\ output' = WithText(output)
    /\ RealtimeSave(WithText(output))
    /\ UNCHANGED <<asked, ghosts>>

ChatCall ==
    /\ mode.api = "chat" /\ pc = "stream"
    /\ Len(sent) + Len(asked) < MaxItems
    /\ made + 1 \in Call
    /\ made' = made + 1
    /\ asked' = Append(asked, made + 1)
    /\ UNCHANGED <<mode, pc, loop, output, prior, sent, tools, retries, stored, shield,
                   runs, shown, ends, unsaved, faults>>

\* The tag <code_interpreter>.
ChatCode ==
    /\ mode.api = "chat" /\ mode.detect
    /\ ~(output # <<>> /\ Last(output) = Code)
    /\ Deliver(Code)
    /\ output' = Append(Trim(output), Code)
    /\ RealtimeSave(Append(Trim(output), Code))
    /\ UNCHANGED <<asked, ghosts>>

\* An item of the Responses API: output_item.added appends it, output_item.done
\* puts it at its index in the response.
ResponseItem(item) ==
    /\ mode.api = "responses"
    /\ Deliver(item)
    /\ output' = [Append(output, item) EXCEPT ![Len(sent) + 1] = item]
    /\ UNCHANGED <<asked, stored, unsaved, failures, runs, shown>>

ResponseText == ResponseItem(Text) /\ UNCHANGED made

ResponseCall ==
    /\ made + 1 \in Call
    /\ ResponseItem(CallItem(made + 1))
    /\ made' = made + 1

\* response.completed carries the whole output of the response.
ResponseCompleted ==
    /\ pc = "stream" /\ mode.api = "responses"
    /\ output' = sent
    /\ UNCHANGED <<mode, pc, loop, prior, stream, tools, retries, stored, shield,
                   ghosts, ends, unsaved, faults>>

\* An error in the stream, which does not end it. response.failed of the
\* Responses API is shown and not stored.
ErrorChunk ==
    /\ pc = "stream" /\ mode.api = "chat"
    /\ Upsert([stored EXCEPT !.error = TRUE])
    /\ UNCHANGED <<mode, pc, loop, output, prior, stream, tools, retries, shield,
                   ghosts, ends, stops>>

\* The stream ends by itself or at </code_interpreter>; then a new text item holds
\* what the chunk has left, and code that is empty goes.
Closings(out) ==
    {out} \cup
        IF mode.api = "chat" /\ mode.detect /\ out # <<>> /\ Last(out) = Code
           THEN {Append(code, rest) : code \in {out, Front(out)}, rest \in {Blank, Text}}
           ELSE {}

Ending(out) ==
    LET trimmed == Trim(out) IN IF trimmed = <<>> /\ out # <<>> THEN <<Blank>> ELSE trimmed

Batches(out) ==
    LET found == IF asked # <<>> THEN asked
                 ELSE [i \in 1..Len(Unhandled(out)) |-> Unhandled(out)[i].id]
    IN  IF found = <<>> THEN pending ELSE Append(pending, found)

StreamEnds ==
    /\ pc = "stream"
    /\ \E closing \in Closings(output) :
          LET out == Ending(closing)
          IN  \/ loop = "first" /\ Proceed(out, Batches(out)) /\ UNCHANGED prior
              \/ loop = "tool" /\ Proceed(prior \o out, Batches(out)) /\ prior' = <<>>
              \/ /\ loop = "code"
                 /\ output' = out
                 /\ pending' = Batches(out)
                 /\ pc' = AfterTools(out)
                 /\ UNCHANGED <<prior, batch, got, rounds, short>>
    /\ sent' = <<>> /\ asked' = <<>>
    /\ UNCHANGED <<mode, loop, retries, stored, shield, ghosts, silent, unsaved, faults>>

\* The connection breaks. The first stream's error ends the completion, the
\* error of a continuation is reported in the message.
StreamRaises ==
    /\ pc = "stream" /\ Fail
    /\ pc' = IF loop = "first" THEN "error" ELSE "say"
    /\ short' = IF loop = "first" THEN short ELSE "raised"
    /\ UNCHANGED <<mode, loop, output, prior, stream, tools, retries, stored, shield,
                   ghosts, silent, unsaved, stops>>

-----------------------------------------------------------------------------
(* Tool calls                                                              *)

\* One call after the other, then those of delegate_task together. Whatever a
\* tool raises becomes its result.
Ready(i) ==
    /\ i \notin got
    /\ IF batch[i] \in Delegate
          THEN \A j \in 1..Len(batch) : batch[j] \in Delegate \/ j \in got
          ELSE \A j \in 1..i - 1 : batch[j] \in Delegate \/ j \in got

Execute(i) ==
    /\ pc = "run" /\ Ready(i)
    /\ got' = got \cup {i}
    /\ runs' = [runs EXCEPT ![batch[i]] = @ + 1]
    /\ UNCHANGED <<mode, pc, loop, output, prior, stream, pending, batch, rounds, retries,
                   stored, shield, made, shown, ends, unsaved, faults>>

\* The results enter the list in the order of the calls, and a text item for
\* what the model says next.
Results ==
    /\ pc = "run" /\ got = 1..Len(batch)
    /\ output' = (output \o [i \in 1..Len(batch) |-> Result(batch[i])]) \o <<Blank>>
    /\ shown' = shown \cup ToSet(batch)
    /\ batch' = <<>> /\ got' = {}
    /\ pc' = "ask"
    /\ UNCHANGED <<mode, loop, prior, stream, pending, rounds, retries, stored, shield,
                   made, runs, ends, unsaved, faults>>

\* process_tool_result raises (a file that cannot be stored, say).
ResultsRaise ==
    /\ pc = "run" /\ got = 1..Len(batch) /\ Fail
    /\ pc' = "error"
    /\ UNCHANGED <<mode, loop, output, prior, stream, tools, retries, stored, shield,
                   ghosts, ends, unsaved, stops>>

\* The model is asked to go on: it streams, it answers something else (an error
\* status, or a reply that is no stream), or the call raises.
Ask_Fresh ==  \* mutant: the items of the earlier rounds are dropped
    /\ pc = "ask"
    /\ output' = <<>>
    /\ loop' = "tool"
    /\ pc' = "stream"
    /\ UNCHANGED <<mode, prior, stream, tools, retries, stored, shield, ghosts, ends,
                   unsaved, faults>>
Ask ==
    /\ pc = "ask"
    /\ prior' = Trim(output)
    /\ output' = <<>>
    /\ loop' = "tool"
    /\ pc' = "stream"
    /\ UNCHANGED <<mode, stream, tools, retries, stored, shield, ghosts, ends, unsaved, faults>>

AskRefused ==
    /\ pc \in {"ask", "askCode"} /\ Fail
    /\ short' = "refused"
    /\ pc' = IF pc = "ask" THEN AfterTools(output) ELSE "save"
    /\ UNCHANGED <<mode, loop, output, prior, stream, tools, retries, stored, shield,
                   ghosts, silent, unsaved, stops>>

AskRaises ==
    /\ pc \in {"ask", "askCode"} /\ Fail
    /\ loop' = IF pc = "ask" THEN "tool" ELSE "code"
    /\ short' = "raised"
    /\ pc' = "say"
    /\ UNCHANGED <<mode, output, prior, stream, tools, retries, stored, shield,
                   ghosts, silent, unsaved, stops>>

\* emit_message_error, after which the loop is left.
Say ==
    /\ pc = "say"
    /\ Upsert([stored EXCEPT !.error = TRUE])
    /\ pc' = IF loop = "tool" THEN AfterTools(output) ELSE "save"
    /\ UNCHANGED <<mode, loop, output, prior, stream, tools, retries, shield,
                   ghosts, ends, stops>>

SayLimit ==
    /\ pc = "limit"
    /\ Upsert([stored EXCEPT !.error = TRUE])
    /\ pc' = AfterTools(output)
    /\ UNCHANGED <<mode, loop, output, prior, stream, tools, retries, shield,
                   ghosts, ends, stops>>

\* The code of the last item runs, although it may have run before: the text
\* item after it is gone when the continuation had no text.
RunCode ==
    /\ pc = "code"
    /\ retries' = retries + 1
    /\ output' = Append(Front(output), Ran) \o <<Blank>>
    /\ pc' = "askCode"
    /\ UNCHANGED <<mode, loop, prior, stream, tools, stored, shield, ghosts, ends,
                   unsaved, faults>>

AskCode ==
    /\ pc = "askCode"
    /\ loop' = "code"
    /\ pc' = "stream"
    /\ UNCHANGED <<mode, output, prior, stream, tools, retries, stored, shield, ghosts,
                   ends, unsaved, faults>>

-----------------------------------------------------------------------------
(* The end                                                                 *)

\* With realtime saving the items themselves are not saved again.
Final == [stored EXCEPT !.done = TRUE, !.output = IF mode.realtime THEN @ ELSE output]

Save ==
    /\ pc = "save"
    /\ Upsert(Final)
    /\ pc' = "finish"
    /\ UNCHANGED <<mode, loop, output, prior, stream, tools, retries, shield,
                   ghosts, ends, stops>>

\* The last events.
Finish ==
    /\ pc = "finish"
    /\ pc' = "outlet"
    /\ UNCHANGED <<mode, loop, output, prior, stream, tools, retries, stored, shield,
                   ghosts, ends, unsaved, faults>>

Outlet ==
    /\ pc = "outlet"
    /\ Filter
    /\ pc' = "background"
    /\ UNCHANGED <<mode, loop, output, prior, stream, tools, retries, shield,
                   ghosts, ends, stops>>

\* background_tasks_handler: follow-ups, title and tags.
Background ==
    /\ pc = "background"
    /\ pc' = "over"
    /\ UNCHANGED <<mode, loop, output, prior, stream, tools, retries, stored, shield,
                   ghosts, ends, unsaved, faults>>

LateRaises ==
    /\ pc \in {"finish", "background"} /\ Fail
    /\ pc' = "error"
    /\ UNCHANGED <<mode, loop, output, prior, stream, tools, retries, stored, shield,
                   ghosts, ends, unsaved, stops>>

-----------------------------------------------------------------------------
(* Stops                                                                   *)

\* A stop cancels the coroutine. response_handler closes the stream and saves
\* under a shield; anywhere else the completion just ends, and a stop during
\* the shielded save leaves that running.
Stop_Shieldless ==  \* mutant: a second stop ends the save
    /\ stops < MaxStops /\ stops' = stops + 1
    /\ pc # "over"
    /\ pc' = IF pc \in Handling THEN "closing" ELSE "over"
    /\ shield' = FALSE
    /\ silent' = (silent \/ pc \in Bare)
    /\ UNCHANGED <<mode, loop, output, prior, stream, tools, retries, stored,
                   ghosts, short, unsaved, failures>>
Stop ==
    /\ stops < MaxStops /\ stops' = stops + 1
    /\ pc # "over"
    /\ pc' = CASE pc \in Handling -> "closing"
               [] pc = "closing" -> "stopped"
               [] OTHER -> "over"
    /\ shield' = (shield \/ pc = "closing")
    /\ silent' = (silent \/ pc \in Bare)
    /\ UNCHANGED <<mode, loop, output, prior, stream, tools, retries, stored,
                   ghosts, short, unsaved, failures>>

Close ==
    /\ pc = "closing"
    /\ pc' = "stopped"
    /\ shield' = TRUE
    /\ UNCHANGED <<mode, loop, output, prior, stream, tools, retries, stored, ghosts,
                   ends, unsaved, faults>>

\* save_cancelled_state saves the items of the current stream.
SaveCancelled ==
    /\ shield
    /\ Upsert(Final)
    /\ shield' = FALSE
    /\ pc' = "over"
    /\ UNCHANGED <<mode, loop, output, prior, stream, tools, retries, ghosts, ends, stops>>

-----------------------------------------------------------------------------

Chunk == ChatText \/ ChatCall \/ ChatCode \/ ResponseText \/ ResponseCall
            \/ ResponseCompleted \/ ErrorChunk

Step ==
    \/ Prepared \/ PrepareRaises \/ Error \/ PlainError \/ PlainAnswer \/ PlainOutlet \/ PlainSilent
    \/ Load \/ StreamEnds \/ StreamRaises
    \/ (\E i \in 1..Len(batch) : Execute(i)) \/ Results \/ ResultsRaise
    \/ Ask \/ AskRefused \/ AskRaises \/ Say \/ SayLimit \/ RunCode \/ AskCode
    \/ Save \/ Finish \/ Outlet \/ Background \/ LateRaises
    \/ Close \/ SaveCancelled

\* Anything but this would be a completion that waits for ever.
Ended == pc = "over" /\ ~shield /\ UNCHANGED vars

Next == Chunk \/ Step \/ Stop \/ Ended

Spec == Init /\ [][Next]_vars

-----------------------------------------------------------------------------
(* Properties                                                              *)

\* The Responses API numbers the items of one response, so that continuing a
\* message that has items overwrites those; such completions are left out.
Indexed == mode.api = "chat" \/ mode.left = <<>>

\* No call is executed twice, one with a result from an earlier run not at all
\* (handled_call_ids).
RunOnce == Indexed => \A c \in Call : runs[c] <= 1

\* Whenever the model is asked to go on, each call it made has one result, later
\* in the list: providers refuse anything else.
CallsPaired ==
    Indexed /\ pc \in {"ask", "askCode"} =>
        \A i \in 1..Len(output) : output[i].kind = "call" /\ output[i].id <= made =>
            \E j \in i + 1..Len(output) :
                /\ output[j] = Result(output[i].id)
                /\ \A k \in 1..Len(output) \ {j} : output[k] # output[j]

CallsSound == RunOnce /\ CallsPaired

\* A finished message keeps every tool result that was shown, unless a stop or
\* a broken connection hit the stream of a continuation.  Two cases are exempt:
\* with realtime saving the last write leaves the items to the writes made while
\* the answer streamed, and a write of the message may have failed.
ResultsKept ==
    stored.done /\ prior = <<>> /\ ~mode.realtime /\ ~unsaved =>
        shown \subseteq IdsOf(stored.output, "result")

\* The message ends as done or with an error, however often it is stopped,
\* unless the path taken stores nothing.
Settled == pc = "over" /\ ~shield /\ ~silent /\ ~unsaved => stored.done \/ stored.error

\* "chats that hit the cap now show a clear error" (CHANGELOG.md:689), and so do
\* continuations that raise.
Explained ==
    pc = "over" /\ short \in {"limit", "raised"} /\ stops = 0 /\ ~unsaved => stored.error

EndsExplained == Settled /\ Explained

\* "A reply that fails while continuing after a tool call or a code interpreter
\* run now says so, instead of stopping mid-answer" (CHANGELOG.md:270).
FailuresSaid ==
    pc = "over" /\ short # "no" /\ stops = 0 /\ ~unsaved => stored.error
=============================================================================
