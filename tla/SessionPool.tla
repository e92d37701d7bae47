---------------------------- MODULE SessionPool -----------------------------
(***************************************************************************)
(* The session and usage pools of the Socket.IO server (socket/main.py).   *)
(* With several processes they are hashes in Redis (RedisDict) that every  *)
(* command reads or writes on its own; a process runs a handler's commands *)
(* without an await, so they interleave with other processes only.  One    *)
(* reaper (under RedisLock) removes sessions without a heartbeat, another  *)
(* removes usage entries.  The usage pool here holds one chat model.       *)
(***************************************************************************)
EXTENDS Naturals, FiniteSets

CONSTANTS
    Instance, Sid,
    MaxRetries, \* max_retries of periodic_usage_pool_cleanup
    MaxCrashes, \* bound
    Deployment, \* the deployments: their instances, and which of them serves a session
    Nobody

ASSUME DeploymentAssumption ==
    /\ IsFiniteSet(Instance) /\ Nobody \notin Instance
    /\ Deployment \subseteq [running : SUBSET Instance, host : [Sid -> Instance \cup {Nobody}]]

VARIABLES
    running, \* the instances of this deployment
    up,      \* those that live
    host,    \* host[s]: the instance that serves s
    sock,    \* sock[s]: its socket
    joining, \* s's token is being verified by connect or user-join
    sessionPool, \* SESSION_POOL[s]; "stale": last_seen_at is too old
    usage,   \* sessions in USAGE_POOL[model]; {}: the model has no entry
    old,     \* those whose updated_at is too old
    sec,     \* sec[i]: the handler or sweep in the middle of its commands
    reaper,  \* reaper[i]: periodic_session_pool_cleanup
    cleaner, \* cleaner[i]: periodic_usage_pool_cleanup
    tries,   \* tries[i]: its attempts
    slock, ulock \* holders of session_cleanup_lock and usage_cleanup_lock

deployment == <<running, host>>
sockets == <<sock, joining>>
loops == <<reaper, cleaner, tries>>
locks == <<slock, ulock>>
poolVars == <<deployment, up, sockets, sessionPool, usage, old, sec, loops, locks>>

Idle == [op |-> "idle"]

PoolTypeOK ==
    /\ [running |-> running, host |-> host] \in Deployment
    /\ up \in SUBSET running
    /\ sock \in [Sid -> {"new", "open", "closing", "closed", "dropped"}]
    /\ joining \in SUBSET Sid
    /\ sessionPool \in [Sid -> {"absent", "fresh", "stale"}]
    /\ usage \in SUBSET Sid
    /\ old \in SUBSET usage
    /\ \A i \in running :
          sec[i].op \in {"idle", "heartbeat", "usage", "disc", "discRead", "discWrite", "reap", "reapDel", "clean"}
    /\ reaper \in [Instance -> {"acquire", "sleep"}]
    /\ cleaner \in [Instance -> {"acquire", "sleep", "gone"}]
    /\ tries \in [Instance -> 0..MaxRetries]
    /\ slock \in running \cup {Nobody}
    /\ ulock \in running \cup {Nobody}

PoolInit ==
    /\ \E d \in Deployment : running = d.running /\ host = d.host
    /\ up = running
    /\ sock = [s \in Sid |-> "new"]
    /\ joining = {}
    /\ sessionPool = [s \in Sid |-> "absent"]
    /\ usage = {}
    /\ old = {}
    /\ sec = [i \in Instance |-> Idle]
    /\ reaper = [i \in Instance |-> "acquire"]
    /\ cleaner = [i \in Instance |-> "acquire"]
    /\ tries = [i \in Instance |-> 0]
    /\ slock = Nobody
    /\ ulock = Nobody

Alone == Cardinality(running) = 1  \* a single process, without Redis
Free(i) == i \in up /\ sec[i] = Idle
Begin(i, section) == sec' = [sec EXCEPT ![i] = section]
EndSection(i) == Begin(i, Idle)

-----------------------------------------------------------------------------
(* connect, user-join, heartbeat, usage                                    *)

\* The socket opens, or a user joins on an open one.
Connect(s) ==
    /\ host[s] \in up
    /\ sock[s] \in {"new", "open"} /\ s \notin joining
    /\ sock' = [sock EXCEPT ![s] = "open"]
    /\ joining' = joining \cup {s}
    /\ UNCHANGED <<deployment, up, sessionPool, usage, old, sec, loops, locks>>

\* The token is verified, even if the socket has been closed meanwhile.
JoinWrite(s) ==
    /\ Free(host[s]) /\ s \in joining
    /\ joining' = joining \ {s}
    /\ sessionPool' = [sessionPool EXCEPT ![s] = "fresh"]
    /\ UNCHANGED <<deployment, up, sock, usage, old, sec, loops, locks>>

Heartbeat(s) ==
    /\ Free(host[s]) /\ sock[s] = "open"
    /\ sessionPool[s] # "absent"
    /\ Begin(host[s], [op |-> "heartbeat", s |-> s])
    /\ UNCHANGED <<deployment, up, sockets, sessionPool, usage, old, loops, locks>>

HeartbeatWrite(i) ==
    /\ sec[i].op = "heartbeat"
    /\ sessionPool' = [sessionPool EXCEPT ![sec[i].s] = "fresh"]
    /\ EndSection(i)
    /\ UNCHANGED <<deployment, up, sockets, usage, old, loops, locks>>

Usage(s) ==
    /\ Free(host[s]) /\ sock[s] = "open"
    /\ sessionPool[s] # "absent"
    /\ Begin(host[s], [op |-> "usage", s |-> s, view |-> usage])
    /\ UNCHANGED <<deployment, up, sockets, sessionPool, usage, old, loops, locks>>

UsageWrite(i) ==
    /\ sec[i].op = "usage"
    /\ usage' = sec[i].view \cup {sec[i].s}
    /\ old' = (old \cap usage') \ {sec[i].s}
    /\ EndSection(i)
    /\ UNCHANGED <<deployment, up, sockets, sessionPool, loops, locks>>

-----------------------------------------------------------------------------
(* disconnect                                                              *)

Close(s) ==
    /\ host[s] \in up /\ sock[s] = "open"
    /\ sock' = [sock EXCEPT ![s] = "closing"]
    /\ UNCHANGED <<deployment, up, joining, sessionPool, usage, old, sec, loops, locks>>

\* An unknown session is not cleaned up.
DiscCheck(s) ==
    /\ Free(host[s]) /\ sock[s] = "closing"
    /\ IF sessionPool[s] = "absent"
          THEN sock' = [sock EXCEPT ![s] = "dropped"] /\ UNCHANGED sec
          ELSE Begin(host[s], [op |-> "disc", s |-> s]) /\ UNCHANGED sock
    /\ UNCHANGED <<deployment, up, joining, sessionPool, usage, old, loops, locks>>

Closed(i, how) == EndSection(i) /\ sock' = [sock EXCEPT ![sec[i].s] = how]

\* HDEL of an entry that is gone is a KeyError, which ends the handler.
DiscDelete(i) ==
    /\ sec[i].op = "disc"
    /\ IF sessionPool[sec[i].s] = "absent"
          THEN Closed(i, "dropped") /\ UNCHANGED sessionPool
          ELSE /\ sessionPool' = [sessionPool EXCEPT ![sec[i].s] = "absent"]
               /\ Begin(i, [sec[i] EXCEPT !.op = "discRead"])
               /\ UNCHANGED sock
    /\ UNCHANGED <<deployment, up, joining, usage, old, loops, locks>>

DiscRead(i) ==
    /\ sec[i].op = "discRead"
    /\ IF sec[i].s \notin usage
          THEN Closed(i, "closed")
          ELSE Begin(i, [op |-> "discWrite", s |-> sec[i].s, view |-> usage]) /\ UNCHANGED sock
    /\ UNCHANGED <<deployment, up, joining, sessionPool, usage, old, loops, locks>>

DiscWrite_Others(i) ==  \* mutant: only the last session of a model is cleaned up
    /\ sec[i].op = "discWrite"
    /\ usage' = IF sec[i].view = {sec[i].s} THEN {} ELSE usage
    /\ old' = old \cap usage'
    /\ Closed(i, "closed")
    /\ UNCHANGED <<deployment, up, joining, sessionPool, loops, locks>>
DiscWrite(i) ==
    /\ sec[i].op = "discWrite"
    /\ usage' = sec[i].view \ {sec[i].s}
    /\ old' = old \cap usage'
    /\ Closed(i, IF usage' = {} /\ usage = {} THEN "dropped" ELSE "closed")
    /\ UNCHANGED <<deployment, up, joining, sessionPool, loops, locks>>

-----------------------------------------------------------------------------
(* Time: SESSION_POOL_TIMEOUT, TIMEOUT_DURATION and the locks' expiry      *)

AgeSession(s) ==
    /\ sessionPool[s] = "fresh"
    /\ sessionPool' = [sessionPool EXCEPT ![s] = "stale"]
    /\ UNCHANGED <<deployment, up, sockets, usage, old, sec, loops, locks>>

AgeUsage(s) ==
    /\ s \in usage \ old
    /\ old' = old \cup {s}
    /\ UNCHANGED <<deployment, up, sockets, sessionPool, usage, sec, loops, locks>>

\* The session reaper sleeps longer than its lock lives; a sweep is shorter.
\* A single process has no locks: its lock functions return True.
ExpireSession ==
    /\ ~Alone
    /\ slock # Nobody
    /\ slock \notin up \/ sec[slock].op \notin {"reap", "reapDel"}
    /\ slock' = Nobody
    /\ UNCHANGED <<deployment, up, sockets, sessionPool, usage, old, sec, loops, ulock>>

\* The usage cleaner renews in time while its process lives.
ExpireUsage ==
    /\ ulock # Nobody /\ ulock \notin up
    /\ ulock' = Nobody
    /\ UNCHANGED <<deployment, up, sockets, sessionPool, usage, old, sec, loops, slock>>

-----------------------------------------------------------------------------
(* periodic_session_pool_cleanup                                           *)

Sweep(i) == Begin(i, [op |-> "reap", todo |-> {s \in Sid : sessionPool[s] # "absent"}])

\* The lock is acquired, and renewed at once.
ReapAcquire(i) ==
    /\ Free(i) /\ reaper[i] = "acquire"
    /\ slock = Nobody
    /\ slock' = i
    /\ Sweep(i)
    /\ UNCHANGED <<deployment, up, sockets, sessionPool, usage, old, loops, ulock>>

\* Without the lock the loop breaks, and release_lock compares the lock's id.
ReapWake_ReleaseAny(i) ==  \* mutant: the lock is deleted without comparing its id
    /\ Free(i) /\ reaper[i] = "sleep"
    /\ IF slock = i
          THEN Sweep(i) /\ UNCHANGED <<reaper, slock>>
          ELSE reaper' = [reaper EXCEPT ![i] = "acquire"] /\ slock' = Nobody /\ UNCHANGED sec
    /\ UNCHANGED <<deployment, up, sockets, sessionPool, usage, old, cleaner, tries, ulock>>
ReapWake_Exit(i) ==  \* mutant: the loop ends once the lock is lost
    /\ Free(i) /\ reaper[i] = "sleep"
    /\ slock = i
    /\ Sweep(i)
    /\ UNCHANGED <<deployment, up, sockets, sessionPool, usage, old, loops, locks>>
ReapWake(i) ==
    /\ Free(i) /\ reaper[i] = "sleep"
    /\ IF slock = i
          THEN Sweep(i) /\ UNCHANGED reaper
          ELSE reaper' = [reaper EXCEPT ![i] = "acquire"] /\ UNCHANGED sec
    /\ UNCHANGED <<deployment, up, sockets, sessionPool, usage, old, cleaner, tries, locks>>

ReapLook_Any(i) ==  \* mutant: the age of an entry is not compared
    /\ sec[i].op = "reap"
    /\ IF sec[i].todo = {}
          THEN EndSection(i) /\ reaper' = [reaper EXCEPT ![i] = "sleep"]
          ELSE \E s \in sec[i].todo :
                  /\ Begin(i, [op |-> "reapDel", s |-> s, todo |-> sec[i].todo \ {s}])
                  /\ UNCHANGED reaper
    /\ UNCHANGED <<deployment, up, sockets, sessionPool, usage, old, cleaner, tries, locks>>
ReapLook(i) ==
    /\ sec[i].op = "reap"
    /\ IF sec[i].todo = {}
          THEN EndSection(i) /\ reaper' = [reaper EXCEPT ![i] = "sleep"]
          ELSE \E s \in sec[i].todo :
                  /\ Begin(i, [op |-> IF sessionPool[s] = "stale" THEN "reapDel" ELSE "reap",
                               s |-> s, todo |-> sec[i].todo \ {s}])
                  /\ UNCHANGED reaper
    /\ UNCHANGED <<deployment, up, sockets, sessionPool, usage, old, cleaner, tries, locks>>

ReapDelete(i) ==
    /\ sec[i].op = "reapDel"
    /\ sessionPool' = [sessionPool EXCEPT ![sec[i].s] = "absent"]
    /\ Begin(i, [sec[i] EXCEPT !.op = "reap"])
    /\ UNCHANGED <<deployment, up, sockets, usage, old, loops, locks>>

-----------------------------------------------------------------------------
(* periodic_usage_pool_cleanup                                             *)

Clean(i) == Begin(i, [op |-> "clean", view |-> usage, expired |-> old])

CleanAcquire(i) ==
    /\ Free(i) /\ cleaner[i] = "acquire"
    /\ IF ulock = Nobody
          THEN ulock' = i /\ Clean(i) /\ UNCHANGED <<cleaner, tries>>
          ELSE /\ IF tries[i] < MaxRetries
                     THEN tries' = [tries EXCEPT ![i] = @ + 1] /\ UNCHANGED cleaner
                     ELSE cleaner' = [cleaner EXCEPT ![i] = "gone"] /\ UNCHANGED tries
               /\ UNCHANGED <<ulock, sec>>
    /\ UNCHANGED <<deployment, up, sockets, sessionPool, usage, old, reaper, slock>>

\* An empty model is deleted, a KeyError if it is gone: that ends the cleaner.
CleanWrite_NotLast(i) ==  \* mutant: a model whose last session expired is skipped
    /\ sec[i].op = "clean"
    /\ usage' = IF sec[i].expired \in {{}, sec[i].view} THEN usage ELSE sec[i].view \ sec[i].expired
    /\ old' = old \cap usage'
    /\ cleaner' = [cleaner EXCEPT ![i] = "sleep"]
    /\ EndSection(i)
    /\ UNCHANGED <<deployment, up, sockets, sessionPool, reaper, tries, locks>>
CleanWrite(i) ==
    /\ sec[i].op = "clean"
    /\ LET rest == sec[i].view \ sec[i].expired
           raises == sec[i].expired # {} /\ rest = {} /\ usage = {}
       IN /\ usage' = IF sec[i].expired = {} THEN usage ELSE rest
          /\ cleaner' = [cleaner EXCEPT ![i] = IF raises THEN "gone" ELSE "sleep"]
          /\ ulock' = IF raises THEN Nobody ELSE ulock
    /\ old' = old \cap usage'
    /\ EndSection(i)
    /\ UNCHANGED <<deployment, up, sockets, sessionPool, reaper, tries, slock>>

CleanWake(i) ==
    /\ Free(i) /\ cleaner[i] = "sleep"
    /\ Clean(i)
    /\ UNCHANGED <<deployment, up, sockets, sessionPool, usage, old, loops, locks>>

-----------------------------------------------------------------------------
\* An instance of several dies: its sockets close without a handler.
Crash(i) ==
    /\ i \in up /\ up # {i}
    /\ Cardinality(running \ up) < MaxCrashes
    /\ up' = up \ {i}
    /\ sock' = [s \in Sid |-> IF host[s] = i /\ sock[s] # "closed" THEN "dropped" ELSE sock[s]]
    /\ joining' = {s \in joining : host[s] # i}
    /\ EndSection(i)
    /\ UNCHANGED <<deployment, sessionPool, usage, old, loops, locks>>

SectionStep(i) ==
    \/ HeartbeatWrite(i) \/ UsageWrite(i) \/ DiscDelete(i) \/ DiscRead(i) \/ DiscWrite(i)
    \/ ReapLook(i) \/ ReapDelete(i) \/ CleanWrite(i)
ReaperStep(i) == ReapAcquire(i) \/ ReapWake(i)
CleanerStep(i) == CleanAcquire(i) \/ CleanWake(i)

PoolNext ==
    \/ \E s \in Sid :
          \/ Connect(s) \/ JoinWrite(s) \/ Heartbeat(s) \/ Usage(s)
          \/ Close(s) \/ DiscCheck(s) \/ AgeSession(s) \/ AgeUsage(s)
    \/ \E i \in Instance : SectionStep(i) \/ ReaperStep(i) \/ CleanerStep(i) \/ Crash(i)
    \/ ExpireSession \/ ExpireUsage

\* A section's commands follow each other, each loop gets its process again and
\* again (strongly fair: the other loop takes it in between), and time passes.
PoolFairness ==
    /\ \A i \in Instance : WF_poolVars(SectionStep(i)) /\ SF_poolVars(ReaperStep(i)) /\ SF_poolVars(CleanerStep(i))
    /\ \A s \in Sid : WF_poolVars(AgeSession(s)) /\ WF_poolVars(AgeUsage(s))
    /\ WF_poolVars(ExpireSession)

PoolSpec == PoolInit /\ [][PoolNext]_poolVars /\ PoolFairness

-----------------------------------------------------------------------------
(* Properties                                                              *)

Left(s) == sock[s] \in {"closed", "dropped"} /\ s \notin joining

\* Two instances never sweep the session pool at once, although the lock
\* expires while its holder sleeps and the holder wakes up without it.
SweepsExclusive ==
    \A i, j \in Instance :
        sec[i].op \in {"reap", "reapDel"} /\ sec[j].op \in {"reap", "reapDel"} => i = j

\* In a single process no session is reaped in spite of a heartbeat.
ReapedMissedHeartbeats ==
    Alone => \A i \in Instance : sec[i].op = "reapDel" => sessionPool[sec[i].s] # "fresh"

\* One sweep at a time, and none takes a session that keeps its heartbeat.
SweepsSound == SweepsExclusive /\ ReapedMissedHeartbeats

\* In a single process a disconnect that found its session leaves no usage of
\* it behind, whatever usage the other sessions report.
DisconnectCleans == Alone => \A s \in Sid : sock[s] = "closed" => s \notin usage

\* A session that left, because its process crashed or because its entry was
\* written after the disconnect, leaves the pool while one instance lives.  In a
\* single process its usage ends as well, although a disconnect of an unknown
\* session does not clean it up.
LeftoversReaped ==
    \A s \in Sid :
        /\ (Left(s) /\ sessionPool[s] # "absent") ~> (sessionPool[s] = "absent")
        /\ (Alone /\ Left(s) /\ s \in usage) ~> (s \notin usage)
=============================================================================
