----------------------------- MODULE SharedStore -----------------------------
(***************************************************************************)
(* app/services/redis_client.py: the keys of Redis, and the dictionaries   *)
(* each process falls back to.  Every method first calls Redis and, on any *)
(* exception, does the same in the dictionary of its process; a call whose *)
(* reply was lost has still been executed by Redis.                        *)
(***************************************************************************)
EXTENDS Naturals

CONSTANTS
    Processes,   \* API and worker processes
    Keys,        \* the keys in use
    Absent       \* no entry

VARIABLES
    link,        \* "up", "down" or "flaky": what calls to Redis meet
    redis,       \* Redis: key -> entry
    memory       \* _InMemoryFallback of each process: key -> entry

storeVars == <<link, redis, memory>>

StoreInit ==
    /\ link \in {"up", "down", "flaky"}
    /\ redis = [k \in Keys |-> Absent]
    /\ memory = [p \in Processes |-> [k \in Keys |-> Absent]]

\* Both are functions on the keys; who uses a key says what it holds.
StoreShape ==
    /\ link \in {"up", "down", "flaky"}
    /\ redis = [k \in Keys |-> redis[k]]
    /\ memory = [p \in Processes |-> [k \in Keys |-> memory[p][k]]]

\* The key k holds entries of the set S.
Holds(k, S) == redis[k] \in S /\ \A p \in Processes : memory[p][k] \in S

\* Entries with a time to live, and without
Lasting(v) == [val |-> v, expires |-> FALSE]
Expiring(v) == [val |-> v, expires |-> TRUE]

\* How one command ends: answered by Redis; executed there and its reply lost;
\* or not executed there.  The last two are repeated in memory.
Routes ==
    CASE link = "up" -> {"redis"}
      [] link = "down" -> {"memory"}
      [] link = "flaky" -> {"redis", "lost", "memory"}

\* What a call of p on k that takes this route is answered from
Seen(p, k, route) == IF route = "redis" THEN redis[k] ELSE memory[p][k]

\* The same as the call leaves it
SeenNext(p, k, route) == IF route = "redis" THEN redis'[k] ELSE memory'[p][k]

\* The entry becomes r in Redis, m in the memory of p.
Write(p, k, route, r, m) ==
    /\ route \in Routes
    /\ redis' = IF route = "memory" THEN redis ELSE [redis EXCEPT ![k] = r]
    /\ memory' = IF route = "redis" THEN memory ELSE [memory EXCEPT ![p][k] = m]
    /\ UNCHANGED link

Read(p, k, route) == route \in Routes /\ UNCHANGED storeVars

CountOf(e) == IF e = Absent THEN 0 ELSE e.val

SetValue(p, k, route, v) == Write(p, k, route, Expiring(v), Expiring(v))

\* pop_value (GETDEL): the value is in Seen.
BugPopValue(p, k, route) ==   \* a bug: GET instead of GETDEL
    Write(p, k, route, redis[k], memory[p][k])
PopValue(p, k, route) == Write(p, k, route, Absent, Absent)

DeleteValue(p, k, route) == Write(p, k, route, Absent, Absent)

\* INCR leaves the time to live of the key as it is; memory sets it with a new
\* counter.
BugIncremented(e) ==   \* a bug: a new counter starts from zero
    IF e = Absent THEN Lasting(0) ELSE [e EXCEPT !.val = @ + 1]
Incremented(e) ==
    IF e = Absent THEN Lasting(1) ELSE [e EXCEPT !.val = @ + 1]
IncrementedInMemory(e) ==
    IF e = Absent THEN Expiring(1) ELSE [e EXCEPT !.val = @ + 1]

\* The first command of incr_with_ttl; SeenNext is the count it returns.
Increment(p, k, route) ==
    Write(p, k, route, Incremented(redis[k]), IncrementedInMemory(memory[p][k]))

\* Redis answered 1: the second command follows.
BugOwesExpiry(p, k, route) ==   \* a bug: compares with the count before
    route = "redis" /\ redis'[k].val = 0
OwesExpiry(p, k, route) == route = "redis" /\ redis'[k].val = 1

\* EXPIRE does nothing to a key that is gone; when it fails the call is
\* counted again, in memory.
BugTimed(e) == e   \* a bug: the expiry is set on another key
Timed(e) == IF e = Absent THEN Absent ELSE [e EXCEPT !.expires = TRUE]
SetExpiry(p, k, route) ==
    Write(p, k, route, Timed(redis[k]), IncrementedInMemory(memory[p][k]))

\* acquire_lock: SET NX PX
Acquire(p, k, route, token) ==
    Write(p, k, route,
          IF redis[k] = Absent THEN Expiring(token) ELSE redis[k],
          IF memory[p][k] = Absent THEN Expiring(token) ELSE memory[p][k])

\* release_lock: compare and delete
BugIsOwner(e, token) == TRUE   \* a bug: DEL without the comparison
IsOwner(e, token) == e # Absent /\ e.val = token
Release(p, k, route, token) ==
    Write(p, k, route,
          IF IsOwner(redis[k], token) THEN Absent ELSE redis[k],
          IF IsOwner(memory[p][k], token) THEN Absent ELSE memory[p][k])

\* The time to live of an entry ends.
LapseInRedis(k) ==
    /\ redis[k] # Absent /\ redis[k].expires
    /\ redis' = [redis EXCEPT ![k] = Absent]
    /\ UNCHANGED <<link, memory>>

LapseInMemory(p, k) ==
    /\ memory[p][k] # Absent /\ memory[p][k].expires
    /\ memory' = [memory EXCEPT ![p][k] = Absent]
    /\ UNCHANGED <<link, redis>>

Lapse(k) == LapseInRedis(k) \/ \E p \in Processes : LapseInMemory(p, k)

\* Where the store keeps what redis_client.py promises: Redis answers, or it
\* never does and there is one process.
Sound ==
    \/ link = "up"
    \/ link = "down" /\ \E p \in Processes : Processes = {p}

\* The entry that all processes see when the store is sound
Entry(k) == IF link = "up" THEN redis[k] ELSE memory[CHOOSE p \in Processes : TRUE][k]
=============================================================================
