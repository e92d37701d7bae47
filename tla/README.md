# Open WebUI (Material edition): a TLA+ verification project

The repository holds a Python server (`src/backend/open_webui`), the upstream
Svelte client (`src/src`), a local single-page application (`src/app`), an
Electron shell (`src/electron`) and build scripts. This project models the
parts whose correctness depends on the order in which several actors act: the
server's chat completions and background tasks, its timers and schedules,
delegation to sub-agents, sessions, OAuth tokens, collaborative editing, and the two places
where one fact is stored twice without a transaction (chats, knowledge bases).
TLC checks small instances; TLAPS proves selected properties for every value of
the constants.

Paths below are relative to `src/backend/open_webui` unless they start with
`app/` or `electron/`.

## 1. Inventory

| Component | State | Operations | Hard behaviour | What makes it correct | Modules |
|---|---|---|---|---|---|
| Task registry, `tasks.py` | tables per process; a Redis hash of tasks, a set per item, a pub/sub channel | `create_task`, `cleanup_task`, `stop_task`, `stop_item_tasks`, `has_active_tasks`, command listener | every instance shares the structures without transactions; cleanups run from three places; stop commands are messages; processes die | the structures agree; a running task stays stoppable; no handle is lost or leaks | `TaskRegistry`, `LocalTasks` |
| Chat timers, `utils/timers.py` | rows of the chat table with a status; locks per timer and per parent | create, claim, cancel, execute, requeue, delete with the parent | schedulers of all instances poll one table; metadata is read, changed and written back; SQLite has no row locks; jobs live in memory | fires at most once; the status is true; no timer is stranded | `OneShotTimer`, `ChatTimers` |
| Automations and calendar alerts, `utils/automations.py`, `models/automations.py`, `routers/automations.py`, `models/calendar.py` | a row with `next_run_at`, records of runs, an event's alert mark | claim, execute, update, toggle, delete, run now; alert, edit | as timers; a claim is not the execution; alerts are emitted before they are marked | one claim per schedule; paused means quiet; a due one is claimed; outcomes are true; alerts are bounded | `Scheduler` |
| Sub-agents, `utils/subagents.py` | reserved set, semaphore, internal chats, parent locks, pending results | delegate, background run, delivery, answering turn | cancellation and failure between reservation and release; many actors look for pending results | capacity is returned exactly once; each result is answered once and some day | `Subagents` |
| Session and usage pools, `socket/main.py`, `RedisLock`, `RedisDict` | two hashes, two leases | connect, user-join, heartbeat, usage, disconnect, two periodic sweeps | a lease shorter than its holder's sleep; whole-value writes; sweeps that end on an error | sweeps exclude each other; what a lost session leaves is removed | `SessionPool` |
| Collaborative documents, `socket/utils.py`, `socket/main.py` | list of Yjs updates, set of users, reverse index, rooms | join, update, compaction, leave, disconnect, clear | every call of the Redis store is a suspension between handlers of all sessions | an edit is lost only when nobody is left; members see one document | `YdocStore` |
| Chat history, `models/chats.py`, `models/chat_messages.py`, `main.py` | a tree of messages in one JSON value, and rows | send, finish, edit, delete, save the whole history, walk | whole-value read-modify-write; the rows are written afterwards and may fail; a deletion relinks | the tree stays a tree; the rows follow; gaps heal | `ChatHistory` |
| Knowledge bases and files, `routers/knowledge.py`, `routers/files.py`, `routers/retrieval.py` | rows of files and links; chunks in a vector database | upload, process, add, batch add, update, remove, edit, delete, reset, reindex | two databases, no transaction; every step may fail; deduplication by hash | what is linked is found, what is found is linked and current | `KnowledgeFiles` |
| Chat completion, `process_chat` in `main.py`, `process_chat_response` in `utils/middleware.py` | the list of output items, the items before a continuation, batches of tool calls, the stored message | stream, tool rounds, code interpreter, continuation, save, outlet filter, clean-up | a stop at any await, a second one in the clean-up; streams that break; two provider interfaces; continued messages | a call runs once and has its result before the model goes on; what was shown is stored; the message ends done or with an error | `Completion` |
| OAuth sessions, `models/oauth_sessions.py`, `utils/oauth.py`, `get_system_oauth_token` in `utils/middleware.py` | rows with an encrypted token, the cookie of each browser | sign-in, connection to an MCP server, lookup, refresh, deletion, sign-out, disconnection, back-channel logout | requests refresh one row at once; refresh tokens may be good for one use; callbacks list, prune and create in separate transactions | a stored token stays usable; logouts are final; the limit holds; a usable session is found | `OAuthSessions` |
| Rate limiter, `utils/rate_limit.py` | buckets in Redis or memory | count, limit | failing over between stores; increment and expiry are two calls | never more than the limit in a window | not modelled |
| Desktop shell, `electron/` | child process, status | start, health poll, exit, stop | exit of an old child, stop during start | the status tells the truth about the child | not modelled |
| Local application, `app/js` | local storage, hash-chained change log, locks, schedule | record, verify, prune, unlock | fire-and-forget records, a capped log | the log verifies; undo restores | not modelled |
| Configuration, access control, the rest of authentication, retrieval adapters, storage, other routers, migrations, client | rows and files | create, read, update, delete | adapters to libraries and services | | not modelled (reasons in `PROJECT.json`) |

How they meet: the scheduler loop of each instance polls timers, automations
and calendar events in turn; a timer, an automation, a sub-agent and a user's
message all start a chat completion, which is a task of the registry;
`has_active_tasks` decides when timers and results of sub-agents may enter a
chat; completions write the chat's history and are given the user's OAuth token; sessions
carry the events. The
models meet in these interfaces: busy or idle chats in `ChatTimers`, turns in
`Subagents`, sent messages in `ChatHistory`, sessions of the pool in
`YdocStore`.

The hazards, each at its line and with the properties that watch it, are listed
in `PROJECT.json`.

## 2. Plan

Done, in this order: `TaskRegistry`, `LocalTasks` and their proofs;
`ChatTimers` with the abstract `OneShotTimer` and the proof that the one
implements the other; `YdocStore`; `SessionPool`; `Subagents`; `Scheduler`;
`ChatHistory`; `KnowledgeFiles`; the proofs about `SessionPool` and
`Scheduler`; `Completion`; `OAuthSessions` and its proofs; the proofs about
`Subagents`, `YdocStore` and `Completion`, about `ChatHistory` and `LocalTasks`,
about the timers of a single process, and about `KnowledgeFiles`.

Left, most useful first:

1. Folders, tags and shares of chats, whose counts and links are kept by hand in
   several routes; `LocalHistory` (the change log of the local application), `DesktopBackend`,
   `ToyLocks`, `RateLimiter`.
2. The debounced note save of collaborative documents; several documents per
   session.
3. An abstract `SharedDocument` implemented by the in-memory `YdocStore`, and
   an abstract exactly-once inbox implemented by `Subagents`.

## 3. Modules and runs

Conventions: one action is what a coroutine does from one suspension to the
next, since the event loop interleaves there and nowhere else; a call of Redis
or of a database is a suspension. Where a component is a set of long handlers
(`ChatHistory`, `KnowledgeFiles`) a request is the sequence of its remaining
steps, so that each handler is one definition that reads like the route.
Definitions named `X_Something` above `X` and marked "mutant" are wrong
versions of `X`; no specification uses them. They document which mistake the
properties would expose. Every module has a `TypeOK` that says which values its
variables take; it is a theorem, or the first part of the inductive invariant,
of the eight proof modules (`OAuthTypeOK`, `SubagentsTypeOK`, `LocalTypeOK` and `PoolTypeOK` where
two modules meet; `OAuthTyped` in `TurnProofs`, `Types` in `ChatHistoryProofs` and `Typed` in
`KnowledgeFilesProofs` are the parts the proofs need). Properties of a run that consist of named parts
(`RowsSound`, `UsersExact`, `TablesHonest`, ...) are conjunctions of the definitions above them.
`completion` checks for deadlock: only a completion that is over, or a server
with no request or callback under way, may stay as it is. The other runs say `CHECK_DEADLOCK FALSE` because their instances
are finite: once every task, timer, request or edit has been used up the system
rests.

Most `MC` modules restrict the next-state relation of their instance (`MCNext`,
`BothNext`, `Bounds`), with a comment that names each bound. They keep a run to
a minute or two; the theorems of section 5 hold without them.

Three modules of runs hold several instances side by side, each with variables
of its own: `MCDeployments` (tasks in one process or with Redis, or the session pools), `MCChatTimers` (timers on
PostgreSQL, timers on SQLite, or sub-agents: what comes back to a chat later)
and `MCTurn` (a completion, or its OAuth token). The initial state says which
part acts; the others stay as they are.

| Run | States | Question | Result |
|---|---|---|---|
| `task_safety` | 2.0 million | two instances, a delegation and a completion in its chat, failing Redis calls of a save, a cleanup or a stop, crashes, dying listeners | the structures agree, running tasks are stoppable, tables drain unless the last cleanup's own call failed |
| `deployments` | 101 thousand | tasks in one process: three and a stop, or two and two concurrent stops; with Redis: one task, crashes, failing calls, a dying listener; pools of sessions: one process, and two with a crash and expiring leases | lists exact, handles sound, every stop returns; a stop ends its task unless it raises, the instance that serves it dies or the listener does; sweeps are sound, disconnects clean, ghosts are reaped |
| `local_allstopped` | | "All tasks for item {item_id} stopped." | violated: the iteration skips a task |
| `timers` | 91 thousand | PostgreSQL, two instances that may crash; SQLite, one process, polls of one row, two chats; a background delegation with another or with two foreground ones, one stop, failure or deletion | at most once, status true, implements `OneShotTimer`; no exit strands a timer; due timers are resolved; capacity and answers sound, no wake-up lost but by a named fault |
| `ydoc_safety` | 882 thousand | both stores | members see one document; users are exact; edits go only with the last user |
| `schedule` | 193 thousand | PostgreSQL, two instances, one request, one event edit | claimed once, quiet when paused, claimed when due, alerts bounded |
| `history` | 407 thousand | two requests at a time, three in all (sends, regenerations and continuations with fresh or stale links, edits, deletions, saves), one failing read, commit or row write, with and without old rows | tree and rows sound until something disturbs them; deletions spare; gaps heal |
| `knowledge` | 836 thousand | two bases, two requests at a time, three in all, one failing call, raised or swallowed, or a crash | found is linked is current; no duplicates; uploads resolve |
| `deleted_embeddings` | | "Deleting files now properly removes associated knowledge base embeddings" (`CHANGELOG.md:1782`) | violated: a removal that deletes the file leaves its chunks in the other bases |
| `completion` | 1.5 million | both interfaces, code interpreter and realtime saving on and off, three messages to start from (one, empty, with realtime saving), up to two stops and a failure; tokens: two browsers, two requests, four kinds of grants, up to four callbacks | calls run once and are answered; shown results are stored; every ending settles the message; refreshes keep sessions usable, logouts are final, the limit holds, a usable session is found |
| `completion_failures` | | "A reply that fails while continuing ... now says so" (`CHANGELOG.md:270`) | violated: a continuation that the provider refuses ends the reply silently |
| `oauth_protection` | | "Refresh an OAuth token if needed, with concurrency protection." (`utils/oauth.py:1061`, `:1355`) | violated: of two requests that refresh at once, the second deletes the session |

### TaskRegistry (Redis mode)

State: `pc` follows a task's coroutine (body, `finally` block, done), `owner`
its instance, `creator` the progress of `create_task`, `cleaner[t][c]` the three
concurrent runs of `cleanup_task` (cause `finally`, `callback`, `stop`);
`hash` and `itemSet` are Redis; `mailbox[i]` the commands a listener has
received; `local[i]` the process tables. `Save` is the pipeline of
`redis_save_task`; a cleanup is `CleanupRemove` (HDEL and SREM), `CleanupCount`
(SCARD), `CleanupDrop` (DELETE of the set, whatever it holds by now) and
`CleanupPop` (local tables). `MayFail` switches crashes, a dying listener, a
failing save and any other failing Redis call on: of a cleanup (`CleanupFails`),
of the look for other tasks (`CheckFails`) and of a stop's command
(`StopPublishFails`). A call that raises may have taken effect or not, and
nothing after it is run: a cleanup ends before its `tasks.pop`
(`tasks.py:91`, `:93`). `cut[t]` records whose work on t ended that way.

`NoLocalLeak` says what that costs. A failure in the `finally` block leaves the
handle to the done callback's cleanup, a failure in a stop's cleanup leaves the
owner's table alone; only when the callback's own cleanup fails the handle
stays in `tasks` and `item_tasks` for as long as the process lives.

Two behaviours that the model shows and no run checks, because the code has
them: a registration that reaches Redis after the task's own cleanup stays
listed for ever (`tasks.py:120`), and `chat:active=false` can be emitted while
another task of the chat runs (`main.py:1654`; the check and the emission are
separated by awaits, and so are the count and the deletion of the item's set).
With a dying listener `StopEndsTask` (in `StopsEnd`) does not hold: nothing restarts the
listener, and `stop_task` removes the registration and reports success while
the task runs on.

With a failing `PUBLISH` it does not hold either: `stop_task` raises, and the
task may run on.

Two tasks of one item are what the set logic distinguishes (last one or not),
two instances whether a command is local or remote; each process runs the same
code, so a third adds no new pair. In `task_safety` one of the tasks is being
stopped at a time, and one call or listener fails; crashes are free. The theorems
hold for any number of each.

### LocalTasks (no Redis)

`list` is `item_tasks[id]` as a sequence, `stop[s]` a call of `stop_item_tasks`
with its list iterator (`next`, and `stale` once the list it iterates over has
been emptied and dropped). Three tasks, one of which does not deregister itself,
with one stop, or two tasks with two concurrent stops: enough for a stop to meet
a task that goes, and another stop, in the middle of the list. `local_allstopped` shows that the iteration skips the task that moves
into the place of one that removed itself, although the call then reports that
all were stopped (`tasks.py:182`, `tasks.py:193`).

### OneShotTimer and ChatTimers

`ChatTimers`: `status` and `claim` of each timer's row, `claimer[i]` the
transaction of a poll between its read and its commit (`take` what it will
claim, `lock` all the pending rows its query locks), `cancel[p]` the rows a
cancellation has read, `doomed`/`deleting` the deletion of a chat, `jobs` the
running `execute_due_timer` tasks with their position, `delivered` how often a
prompt entered the parent. `Postgres = FALSE` removes every row lock.

`OneShotTimer` is what a timer promises whoever set it, without servers, claims,
locks and jobs: its prompt enters the chat once, only after its time, and once
it has fired no server is offered it again. It does not promise that cancelling
comes in time, because the code does not: `cancel_timers_for_chat` reads without
a lock, and a job neither re-reads the status nor preserves it
(`timers.py:239`, `timers.py:293`), so that a timer cancelled after its claim was
read fires, or is put back. `ImplementsOneShot` maps the rows and deliveries of
`ChatTimers` to it; `timers` checks it, `Refinement` proves it.

The properties stop where the code's guarantees stop. `AtMostOnce` fails for two
instances with `Postgres = FALSE`: both claim one row and both jobs see their
own claim before the other overwrites it. `RunningIsOwned` (in `SqliteSound`)
and `DueIsResolved` fail with `"crash"` in `MayFail`: only pending rows are claimed, and nothing
returns a running row whose process died to pending.

Bounds: `ClaimId` is finite; an id is reused once no job holds it, which no
comparison can tell from a new UUID. `Limit` (10 in the code) is 1 where the
order of claims matters. `DueIsResolved` (`SqliteResolves` in the run) assumes
that the chats eventually stay idle: with `Limit` earlier timers that stay busy, later ones of other chats are
never claimed, because a requeued timer keeps its place at the head. On SQLite one of
the two chats is never deleted; the PostgreSQL instance deletes its only one.

### Scheduler

One automation and one event under every instance's loop. `ClaimRead` is
`claim_due`'s query (on PostgreSQL `FOR UPDATE SKIP LOCKED`, which is `locker`),
`ClaimCommit` its commit, which creates the execution; `JobStarts` to
`JobErrorFails` are `execute_automation` with its two ways to record an outcome;
`RequestRead`, `RequestLoad` and the commits are the four routes, which compute
in one step, load the row in another and write only the columns that differ
from the loaded ones. `armed` numbers the values of `next_run_at`, so that
"claimed at most once" speaks of a schedule and not of a point in time.

What the code does not guarantee, and the properties leave out: on SQLite two
processes can claim one schedule twice; an update or toggle that read the row
before a claim or another request overwrites it (`raced`), and an automation can
then be active without a next run; two concurrent toggles can lose one; records
of an execution that outlives its automation stay; a crash between claim and
execution loses the occurrence, not the schedule. Alerts: an event moved after
its alert is never announced again, because `alerted_at` is neither compared
with the start nor reset (comment at `utils/automations.py:635`); if marking
keeps failing, every poll alerts.

Bounds: time 0..2 with a daily and a one-time rule, so that a rule can run out;
one request of any of the four kinds; one edit; one fault. Automations and
alerts share no state, so that each instance of the run enables one of them. A
crash or a failing claim hits one named instance, as instances are
interchangeable.

### Subagents

`call[d]` is the `delegate` coroutine, `child[d]` the delegated task (`created`
until its first step), `result[d]` the pending message; `turn[k]` a completion of the parent chat,
either the user's or one that answers results; `drain[a]` is
`process_pending_internal_messages`, which finished background tasks and
finished turns both run. `permits` is the semaphore's value and `ahead[d]` who
waited for it when d began to: all of its queue that decides who is next.

A turn ends in the `finally` block of `process_chat`, which is several awaits
(`main.py:1648` to `:1700`): `EndTurn` is its deregistration, `CloseTurn` its
look for other tasks, and what follows the drain. `HasActiveTasks` is what the
registry lists: a turn until it is deregistered by that block, by a stop
(`Unlist`: `stop_task` with Redis does so at once) or by the done callback
(`Callback`). `CutShort` is the block left early. A stop that arrives while it
awaits `cleanup_task` (`main.py:1653`) raises a `CancelledError` past
`except Exception` (`:1671`), so that the drain is skipped; a failing
`cleanup_task` leaves the turn listed, for the callback to remove (`entry`) or,
if that fails as well, for good (`left`), and the drain finds the chat busy; a
failing call of the drain is logged at `:1700`.

`CapacitySound` names the three leaks of the code: a delegation whose turn is
stopped while the internal chat is inserted keeps its place for ever
(`dropped`: `except Exception` does not catch `CancelledError`,
`subagents.py:404`), and so does a run that is stopped before its first step,
which never enters the `try` whose `finally` would give the place back
(`unbegun`, `subagents.py:413`); one whose registration fails after the run
began gives it back twice (`unsaved`, `subagents.py:641`), so that one run too
many is let in. `DelegationsEnd` speaks of a parent chat that is not deleted,
deliveries that are not stopped, answers that start, `finally` blocks that are
not cut short, and foreground places that have not leaked: in each of these
cases (`Disturbed`) the code does leave a stored result unanswered. Everything
else (who was busy when the result came, which of several actors looks first)
is free.

Bounds: capacity one of either kind; two background delegations, or one with two
in the foreground, all from one turn; one stop, failure or deletion. A second user turn adds no new actor:
answering turns already overlap with it.

### SessionPool

A RedisDict command is an action, and `sec[i]` is the handler or sweep an
instance is in the middle of: a process runs a handler without a suspension, so
that commands interleave with other processes only, and with one process a
handler is effectively one step. The run starts from either deployment. Names that
`YdocStore` has as well carry the prefix `Pool`.

What is claimed of both: sweeps of the session pool exclude each other, although
the lease lives 60 s and its holder sleeps 120 s, because a holder that wakes up
without the lease stops and asks again; and a session that left (its process
crashed, or connect entered it after the disconnect) leaves the pool. Assumed:
a sweep is shorter than the lease. Of one process only: no session with a
heartbeat is reaped, a disconnect leaves no usage behind, and usage of a lost
session ends. With several processes usage can be written back after a
disconnect, whole-value writes lose each other, and the sweep of the usage pool
ends for good on the KeyError of `del USAGE_POOL[model]` (`main.py:241`) or
after three failed attempts (`main.py:212`); a session known to no pool is not
cleaned up (`main.py:879`).

Bounds: two sessions; two processes report no usage, of which nothing is promised
there, and the second session joins once. One crash, one retry of a lease.

### YdocStore

A list entry is the set of edits it carries, because Yjs merges updates in any
order; compaction is the union of the older half. With Redis every store call
is an action; without, `JoinMemory`, `PushMemory` and `LeaveMemory` do in one
step what the coroutines do without suspending (the recipients of a local
broadcast are chosen in that step, too). The run starts from either mode: in
memory two sessions with early departures and sessions dropped from the pool,
or three that leave after their join was answered; with Redis two such sessions,
one of which goes by disconnecting only.

With Redis an edit can be lost in two ways, in a compaction (`socket/utils.py:207`
replaces the list by what it read some awaits earlier) and when a document
is cleared under a session that is just joining (the count of the users and the
clearing are separate calls); `SameDocument` therefore speaks of members none of
whose edits was ever lost, and `DropOnlyWhenEmpty` of memory. "Ever", which the
history variable `lost` records, and not "at present": a compaction that has read
its list before the document was cleared writes it back, so that an edit may be
stored again after some member has joined without it. A session that
disconnects between its SADD to the users and to the reverse index stays a user
for ever.

`Threshold` is 500 in the code; 2 makes compaction happen, 500 makes it
impossible for three edits. A session joins once (a reconnect is a new id).

### ChatHistory

`history` is the JSON value, `rows` the table, `tab` what a browser loaded. A
request is a sequence of steps, each of which reads the whole value, writes it
whole, and then upserts rows one by one; a failing upsert is logged, a failing
deletion ends the request. `Merged`, `Deletions` and `Upserted` are
`merge_history`, `delete_message_from_history` and `upsert_message_to_history`
without the order of siblings. `Send`, `Regenerate` and `Resume` are a new
message, another answer to an old one and the continuation of an answer
(`sendMessage`, `regenerateResponse` and `continueResponse` of `Chat.svelte`); all three make the
same steps in `process_chat` (`TurnSteps`, `main.py:1394`): the user message with
the links the tab has for it, its link from above, its links to the answers,
and a placeholder for each. `CallFails` is a read or commit of the document that
fails: the methods of `models/chats.py` return `None` and `process_chat` goes
on, or the exception ends the request.

`TreeSound`, `RowsFollow` and `DeletionSpares` hold until something disturbs the
tree (`disturbed`), which the code allows in three ways:

- Requests overlap. They lose each other's changes (the last whole value wins);
  an upsert of a message deleted meanwhile re-creates it as a root; a stale tab
  brings deleted messages back; a late row write re-inserts a deleted row.
- A user message is sent again with links that are no longer the document's
  (`Stale`). They overwrite it (`models/chats.py:839`), so that children which
  the tab does not know of are unlisted, and a later deletion of the message
  cuts their path. With fresh links a regeneration or continuation is harmless,
  and is covered.
- A call fails by which a turn grows the tree (`Grows`): an answer is listed and
  missing, or stored and not listed. Failing deletions, edits, saves and walks do no harm
  to the tree.

What remains true in the first two cases is `RowsKeepAll`: without deletions and
failures the table loses nothing. `GapsHeal`: walks repair the rows of old chats
from the document, one generation of ancestors for each walk.

The tab changes by loading only: what a browser adds to its own history before
the server has it is part of the request that sends it.

Bounds: two turns of one answer each, one of them there from the start (rows of
all, of its user message only, or of none), three requests, of which the first two
overlap, one failing call.

### KnowledgeFiles

A request is the set of its remaining calls, each with its place in the handler
(`at`: try block or iteration, then the order in it); the first one (`First`) is
the one it is in, and a call that raises skips the rest of its block (`skips`).
`Upload` to `Reindex` are the routes,
`Load`, `Check`, `Insert`, `Finish` are `process_file` with
`save_docs_to_vector_db`, `Propagation` is what an edit does for each base. The
clean-up of files that a directory synchronisation removed makes the calls of
`RemoveFile` with `delete_file`, and is covered by it. A call fails in one of two
ways. The vector database and the embedding raise (`VectorFails`, `StoreFails`:
any stage of `process_file`). The methods of `models/knowledge.py` and
`models/files.py` catch what they raise and return `None` or `False`, which most
callers do not look at (`Unwritten`, and `Finish` for the final status): the
routes go on as if the link, the removal of the link, the hash or the status had
been written.

`Searchable` is the crash-safety of these routes: at every moment, whichever call
fails, a linked file has chunks. It exempts what the routes do not guarantee:
handlers that empty a collection in order to fill it (`wiped`: update
of a file, reset, reindexing), a link whose removal failed while its chunks went
(`wiped` as well: `models/knowledge.py:761` returns `False`, and
`routers/knowledge.py:1604` and `routers/files.py:1017` delete the chunks all the
same; `FoundIsCurrent` counts it among the `unfinished`), a deletion by hash that takes another file's
equal chunks (`spilled`), and files that several requests are busy with
(`raced`: adding and removing a file at once can leave a link without chunks,
two edits a chunk of the older text). `NoStray` exempts the links that went with a
file's row when it was removed from another base (`stranded`): the chunks there
stay, which `DeletedIsGone` shows. Chunks of a batch carry no hash and are
not deduplicated. A process that dies leaves a file pending for ever, and so does
a lost write of its final status (`unsaved`); the
status stream of an upload ends with "completed" before the file is linked
(`files.py:227`, `files.py:229`). Not modelled: a request's reads, whose failure
ends it before it writes; a lost write of a row's new content; the swallowed
failure to delete a file's own collection before its new content is stored; and
a lost write of the status `failed`, which the handler of an upload repeats.

Bounds: two files, two texts, two bases, so that files can share a text and a
file can be in both bases. A first request prepares one file and one base; two
more of any kind overlap.

### Completion

`output`, `prior` and `pending` are `output`, `prior_output` and `tool_calls` of
`response_handler`; `pc` is the await it is in and `loop` whose stream it reads
(the first one, that of a continuation after tools, or after code). `sent` and
`asked` belong to one stream. `stored` is the message in the database. An item
is a text (blank or not), code (run or not), a call or a result; reasoning and
the text inside tags count as text, deltas of one item as the item, and
`_split_tool_calls` as calls that were separate from the start. Tools and code
are external: they return. `made`, `runs`, `shown`, `short`, `silent` and
`unsaved` only record what happened, for the properties.

What the properties leave out, because the code does not do it:

- Continuing a message with the Responses API: the indices of a response count
  from its own first item, so that a new item overwrites the one the message has
  in that place, and a call can appear and run twice (`Indexed`).
- A stop or an error during the stream of a continuation: `prior_output` is put
  back in front only when that stream has ended (`utils/middleware.py:5306`), so
  that the saved list lacks the earlier rounds (`ResultsKept` asks for
  `prior = <<>>`). With `ENABLE_REALTIME_CHAT_SAVE` the final save leaves the
  items alone, and results after the last text are not stored.
- A stop before the handler's try block, an empty reply that is not streamed and
  an exception while that is handled store nothing (`silent`); a failing write
  of the message is swallowed (`unsaved`).
- An exception after the final save, in the last events or the background tasks,
  marks a finished message with an error. What the outlet filter writes is text,
  which no property is about: `Filter` is the write that may fail.
- A continuation that the provider refuses: `generate_chat_completion` returns a
  `JSONResponse`, and the loops leave without a word. `completion_failures`
  shows it against the changelog. Also, `response.failed` is shown and not
  stored (`CHANGELOG.md:271` says errors are kept).
- Calls that arrive in a continuation after code are put in `tool_calls`, which
  nobody reads any more; code whose continuation brings no text runs again.

Bounds: three calls, of which one is a delegation, two items for each stream,
two rounds, two code runs: a second round meets the results of the first, a
third is refused. Two stops reach the clean-up and the shielded save. One call
that raises or write that fails. A message to continue is empty, or holds a call
that a stop interrupted and one with its result, or code that never ran; with
realtime saving it is always empty, and only a new message that is saved at its
end sees two stops and a failure, any other one of them; a continuation delivers
one item.

### OAuthSessions

One user. `table` is the set of rows, ordered by `updated`; `reader[c]` is a
request that looks for a token (`find` to `drop` is `get_oauth_token` of either
manager, `list` the fallback), `writer[d]` a sign-in, a connection to an MCP
server or a back-channel logout between its listing, its deletions and its
insertion. The identity provider is external: `accepted[s]` is the refresh token
it takes for a session, and `grant` what it issues, from refresh tokens good for
one use to tokens without any. It does not end grants by itself. A failing call
costs one of the `breaks`: every method of the table catches its exceptions and
returns nothing, and a lost request to the provider may have been served.
`updated_at` is in seconds, so that two writes may tie and `max` takes either;
`created_at` is assumed to differ from session to session, as sign-ins do.

`RefreshSound` is what holds without locks: with a reusable refresh token
concurrent refreshes are harmless, and without concurrency or failures nothing
is lost. With one-time tokens two concurrent requests do lose the session
(`oauth_protection`): the refused one deletes what the other is about to store,
or has stored. So does any single failure of the request or of the update,
because every failed refresh deletes the session (`utils/oauth.py:1344`,
`:1051`), and a failing update leaves the used token behind. `TokenFound` exempts
pipe functions whose most recently updated session is an MCP server's:
`functions.py:252` lacks the filter that `utils/middleware.py:3182` has.

Bounds: `MaxSessions` 2 (10 in the code); each behaviour has one of the budgets
of `MCOAuthSessions`, which let two requests meet with a deletion or a failure,
with two stale sessions, or with a session that is pushed out, and four
sign-ins meet each other. With n browsers the limit is exceeded by n - 1; two
show it.

## 4. Fairness

Weak fairness on the steps of coroutines: the event loop resumes whatever can
be resumed, and calls return or raise. A task body is fair only after it was
cancelled, because a completion may stream for as long as its upstream does
(`Subagents` assumes that completions end). The scheduler polls for ever
(`while True`, exceptions logged), hence weak fairness of a poll. The two sweeps
of `SessionPool` share a process with each other and with handlers, and wake up
again and again: strong fairness, because the other's section disables a wake-up
in between. There time passes, too: entries age and leases expire. Nothing is
assumed of users, of chats becoming busy or idle, of crashes, failures and
restarts beyond the switches of a run.

## 5. Proofs

`TaskRegistryProofs` proves the five invariants of `task_safety` for any number
of instances, tasks and items and any failures. They are not inductive: the
strengthening `IInv` adds in which phase a task is while its cleanups run, that
only saved tasks are stopped, what a stop knows that found no item, and that a
published stop has reached the owner. A failing cleanup ends in the same phases,
and is why `NoLocalLeak` has to name its cause.

`ChatTimersProofs` proves `TypeOK` on either database and, for PostgreSQL,
`AtMostOnce` and `StatusHonest`. A second delivery would need a second job that
may still deliver or a delivered timer that is claimed again; `LoneJob` and
`OpenJob` exclude the first, `WaitingUndelivered` the second, and
`LockedPending` with `LockExclusive` carry them through a poll's commit: this is
where the row locks are needed, and on SQLite with two processes the theorem is
false. From the same invariant and `RInv` (what was claimed was due, what is
read exists) `RefinesInit` and `RefinesStep` map the initial states and each
action to `OneShotTimer`: a commit claims or abandons, a delivery fires, a
cancellation, requeue or deletion is the abstract one or a stutter. `Refinement`
is their temporal conclusion.

For SQLite the same module proves two theorems. `OneShotSingle` assumes
one process and no locks: `Taken` replaces the two lock invariants, for what the
process's poll has read may be cancelled or deleted before the commit, but no job
holds it and nobody else claims it. `Owned` proves `RunningIsOwned` on either database
and for any number of instances, from the assumption that none crashes and that
the lookup of active tasks does not raise: every other exit of
`execute_due_timer` changes the status, or leaves a timer that another job owns.

`SingleProcessProofs` is about what one process keeps by itself. Its first part
proves both safety properties of `Subagents`. For
`CapacitySound` the invariant adds that a delegation without a chat has no run
(`Begun`), so that what holds a place is released by one coroutine only. For
`AnswersSound` it follows `_parent_locks`: whoever is past the second look at the
active tasks holds the lock (`LockHeld`), what it has selected nobody else takes
(`Selected`), and no answering turn is active (`Alone`). The second part proves
`TablesHonest` of `LocalTasks` for any tasks and any number of concurrent stops. It
is nearly inductive: `Lifecycle` adds that a task without a coroutine has no handle
and that only ended tasks have a callback to run, `FailedMet` that a stop gives up
at a task of the list; that removing a task from a list without repetitions leaves one without it
(`RemoveFirstLacks`) is where the list's order matters. The third part applies
`OneShotSingle` and `Owned` to the instance of `MCChatTimers` that stands for SQLite:
`SingleProcess` is `SqliteSound` for any timers and chats, from the assumption
`SingleAssumption` that this instance is one process whose only fault is a failing lookup
of a chat.

`ChatHistoryProofs` proves `TreeSound`, `RowsSound` and `DeletionSpares` for any
messages, turns and requests and any number of failing statements. Two thirds of it are about the
tree. A request writes the document several times, and only before the first
and after the last of them is it a forest (`Forest`: parents exist and have no
cycle, by sets as in `TreeSound`, and the children lists are the inverse). `TreeInv` therefore
says at which stage of a request which part is missing (`Sending`, `Hung`: the
parent does not list the message; `Listing`; `Filling`: answers are listed that
are not there), and `CommitStage` that every write leads to the next stage. For that
a request must find the document as it left it, which `Alone` (no two requests in
flight while `disturbed` is false) gives, and the ids of unsent turns must be unused. What
a turn resends must be what the document has, which is how `CommitSending` splits the first
write: a new message (`CommitNew`), or one whose parent and children it finds as they are,
and whose new answers are the ones still missing (`CommitAgain`). A call of a turn that
fails has disturbed the tree; any other one leaves a request at a stage it could be in
(`TreeCallFails`). Merging
two forests gives a forest (`MergedForest`), and so does a deletion (`LeftForest`), which
`AncestorsSpared` shows to take nothing else out of a path; that the walk to the message
shown next ends somewhere is `EndExists`, from the finiteness of the tree. For
`RowsFollow`, `RowsInv` says that the rows mirror the document once what the
request still has to put and drop is applied (`Mirror`). `RowsKeepAll` holds with
overlapping requests, where the tree invariant does not: in `KeepInv` whatever the
document holds, or a request is about to overwrite it with (`Held`), is in a row or in
one about to be written (`Stored`).

`SocketProofs` proves the three properties of `YdocStore` for any sessions,
edits, deployments and threshold. An edit reaches a member by the broadcast or in
the state it loads: `Told` says that one of them is still to come until it has
arrived, and `Copied` that a compaction brings back only what was stored. That
compaction changes how edits are grouped and nothing else is the lemma
`EditsSquash`. In memory, `Members` says that what a member sees is what is stored
and what it has just typed. `Orderly` follows the order in which a session enters
and leaves the users, the index and the pool.

It also proves `SweepsSound` and `DisconnectCleans` for any set of
deployments, sessions and crashes. `SweepHolds` (whoever is in a sweep of the
session pool has the lease) carries the exclusion: a sweep starts with the lease
and, by the assumption that it is shorter than the lease, ends with it. The
parts about a single process are in `AloneInv`: no two of its sections overlap
(`OneSection`), hence what a handler has read is still there when it writes
(`ViewCurrent`) and its session has not been closed by another (`Handled`).
`DeploymentAssumption` says that deployments are finite and host every session.

`SchedulerProofs` proves `NoDoubleClaim`, `NotStranded`, `OutcomeHonest` and
`PausedStaysQuiet` on PostgreSQL. `Locked`: between the query of a claim and its
commit the row stays as it was read, due and active. A commit moves
`next_run_at` past the present (`NextRunFacts`), which makes it a new schedule
that nobody has claimed (`Unclaimed`). Requests read without a lock; `Current`
says that what one has read is true as long as the version is the one it saw,
and the write of any other request is `raced`, which `NotStranded` exempts.
`AlertsBounded` needs no lock: `Budget` counts an alert from the moment an
instance decides to send it, against the versions of the event and the faults.
It assumes that the instances and edits are finite in number
(`FiniteAssumption`), as a bound on a count has to.

`TurnProofs` proves, of `OAuthSessions`, `RefreshSound` and `LogoutFinal` for any number of
browsers, requests and sessions. `RefreshSound` speaks of rows and of refused
requests; the invariant adds what requests under way know: as long as nothing
excuses a session (`Calm`), a request that refreshes it holds the token the
provider accepts (`Held`), and its row holds it too, unless a request that used a
one-time token is about to store its successor (`Current`). A request that reads
the row in that moment has raced with it (`Alone`), and what the sign-in's manager
refreshes is no MCP server's session (`Fits`). `LogoutFinal` needs that a number is
used once (`Numbered`) and that a logout's list lasts until its sessions are gone
(`Deleting`). `SessionsBounded` rests on `Room`: whichever set of the callbacks
that have made their lists finishes first, what they create fits, since each
spares fewer sessions than the limit and deletes the others before it inserts.
`TokenFound` rests on `Looking`, what a request knows of the session it has
settled on, and `Renewable`, which grants leave a session without a refresh token.

It also proves the three properties of `Completion` for any calls, limits, streams
and failures. `EndsExplained`: `Honest` says which places a
completion reaches with what it has stored. `ResultsKept`: the shown results are
in the list or, while a continuation streams, in the items before it (`Kept`), and
only texts and code are taken off a list; that the Responses API overwrites items
does no harm because with results shown its lists never end with code, so the code
interpreter's loop is not entered (`NoCode`). `CallsSound` needs the most: the calls
of a round differ and have no result yet. They are either new, and then nothing in
the state has seen them (`Unmade`), or items of the list without a result there or
before it (`Streaming`); what was executed has its result in the list or is in the
round (`Running`); after the round every call has its one result (`Asking`), which the
code interpreter and its streams keep (`Coding`). Most lemmas are about lists:
which numbers they hold, and that a change of texts and code moves no call and no
result (`SameCalls`). `LeftAssumption` says that the calls an interrupted run left differ
and are not among those the provider makes now: call ids are unique.

`KnowledgeFilesProofs` proves `Searchable`, `NoDuplicates` and `FoundIsCurrent` for
any files, bases, texts and requests and any number of failing calls and crashes.
Nothing is locked, and the two databases have no transaction in common; what keeps
a base right is what a request still has ahead of it, so the invariants speak of
the calls to come. `Shape` says which calls a request can hold, in which order, and
that two requests with calls about one file have raced (`Overlap`). For `Searchable`,
`SearchInv` adds the order of each handler: `UnlinkFirst` (a link goes before its
chunks), `StoreFirst` (a link waits for the store before it, or has its chunks),
`Stored` (an inserted chunk is there until its store ends) and `NewFirst`, which
follows a propagation through its three calls. Each outlives a raise because the
raise skips the rest of the block. `Rivalry` does the same for `NoDuplicates`: what
the search before an insertion did not find can be brought only by a request that
overlaps. `CurrentInv` explains, for `FoundIsCurrent`, every chunk that is not yet
as it should be by a call that is still ahead. A chunk without a link has a call that
links or drops it (`Strays`), one deleted to be stored anew has its store (`Filled`),
one with an older text has its propagation (`UpToDate`), and what a store holds is the
text of the row (`Texts`). A failure, raised or swallowed, moves the file among the
`unfinished`, and a link whose removal is lost among the `wiped` as well. The step lemmas
distinguish nine kinds of requests and eighteen kinds of calls, and most cases end because
two calls about one file are in one request, or have raced.

Each proof has one step per action and below it one per conjunct the action can
disturb. Assumptions: the typing and finiteness of the
constants (named `ASSUME`s of the modules, which TLC evaluates in every run), and
`Postgres`, a single process or no crashes where a theorem says so. The bounds of
the runs are not among them.

Only model-checked: liveness (`StopsEnd`, `SqliteResolves`,
`LeftoversReaped`, `DueClaimed`, `DelegationsEnd`, `GapsHeal`, `UploadResolves`),
which is beyond the prover.

## 6. Not modelled

Inside the modelled components: contents of messages, prompts and notes, and
the order of sibling messages; authorisation checks that depend on database rows
only (a refusal is an early return without effect); logging and notification
events, except `chat:active`; the debounced note save of the update handler;
several documents per session (the disconnect handler treats them one after the
other and independently); Redis Cluster mode; `RedisDict.set` for the list of
models.

Components without a module, because their behaviour can be checked by tests or
their state is trivial: `process_chat_payload` and the conversions of
`utils/middleware.py`, `utils/payload.py` and the retrieval and storage
adapters, which map one request or document to another; configuration, access control, passwords and JWTs,
the exchange with identity providers, roles and groups, and the routers of
prompts, notes and the like, each of which is a
statement or two on one row; migrations; the clients' components. They are by
far the larger part of the lines, so that the modules cover a small share of the
text and most of what several actors change together.

Components that deserve a module and have none yet: the rate limiter
(increment and expiry are separate calls, and it fails over to memory), the
desktop shell (an old child's exit against a new child's start), the local
application's change log (`app/js/state.js` records without waiting, so that
two records can extend the same entry, and a log that has been capped no longer
verifies) and its locks.
