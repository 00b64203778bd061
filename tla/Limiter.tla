------------------------------- MODULE Limiter -------------------------------
(***************************************************************************)
(* Two uses of the shared store: the rate limiter of app/main.py, which    *)
(* counts the requests of one address under /api/auth/ in a window, and    *)
(* the locks of app/services/redis_client.py.                              *)
(***************************************************************************)
EXTENDS SharedStore

CONSTANTS
    Callers,       \* requests and lock holders
    ProcessOf,     \* the process each of them runs in
    Limit,         \* _RATE_LIMIT
    MaxCount,      \* bound: the limiter counts no further than this
    LimitKey,      \* the counter of one address
    LockKey        \* the key of one lock

ASSUME LimiterAssumption ==
    /\ Limit \in Nat /\ MaxCount \in Nat
    /\ ProcessOf \in [Callers -> Processes]
    /\ LimitKey \in Keys /\ LockKey \in Keys /\ LimitKey # LockKey
    /\ Absent \notin Callers
    /\ \A n \in 1 .. MaxCount : \A b \in BOOLEAN : [val |-> n, expires |-> b] # Absent
    /\ \A c \in Callers : \A b \in BOOLEAN : [val |-> c, expires |-> b] # Absent

VARIABLES
    call,        \* where each caller is
    admitted     \* requests let through since the counter last had no entry

limiterVars == <<storeVars, call, admitted>>

Places == {"idle", "owing", "holding", "overdue"}

LimiterInit ==
    /\ StoreInit
    /\ call = [c \in Callers |-> "idle"]
    /\ admitted = 0

\* Bound: the counters and the requests counted
LimiterBounded(c) ==
    /\ CountOf(redis[LimitKey]) < MaxCount
    /\ CountOf(memory[ProcessOf[c]][LimitKey]) < MaxCount
    /\ admitted < MaxCount

\* A request is counted, and passed on while the count is within the limit.
BugPasses(n) == n - 1 <= Limit   \* a bug: the count before this request
Passes(n) == n <= Limit
RateLimit(c) ==
    /\ call[c] = "idle"
    /\ LimiterBounded(c)
    /\ \E route \in Routes :
          /\ Increment(ProcessOf[c], LimitKey, route)
          /\ admitted' = admitted +
                (IF Passes(SeenNext(ProcessOf[c], LimitKey, route).val)
                   THEN 1 ELSE 0)
          /\ call' = [call EXCEPT ![c] =
                IF OwesExpiry(ProcessOf[c], LimitKey, route)
                  THEN "owing" ELSE "idle"]

\* The second command of the same call
StartWindow(c) ==
    /\ call[c] = "owing"
    /\ \E route \in Routes :
          /\ route # "redis" => LimiterBounded(c)
          /\ SetExpiry(ProcessOf[c], LimitKey, route)
    /\ call' = [call EXCEPT ![c] = "idle"]
    /\ UNCHANGED admitted

\* acquire_lock returns the token, or None when the lock is taken.
TakeLock(c) ==
    /\ call[c] = "idle"
    /\ \E route \in Routes :
          /\ Acquire(ProcessOf[c], LockKey, route, c)
          /\ call' = [call EXCEPT ![c] =
                IF Seen(ProcessOf[c], LockKey, route) = Absent
                  THEN "holding" ELSE "idle"]
    /\ UNCHANGED admitted

\* Also by a holder that has run past the time to live of its lock.
GiveLock(c) ==
    /\ call[c] \in {"holding", "overdue"}
    /\ \E route \in Routes : Release(ProcessOf[c], LockKey, route, c)
    /\ call' = [call EXCEPT ![c] = "idle"]
    /\ UNCHANGED admitted

\* The window ends; the lock of a slow holder is given up.
LimiterLapse ==
    /\ \/ Lapse(LimitKey) /\ UNCHANGED call
       \/ /\ Lapse(LockKey)
          /\ call' = [c \in Callers |->
                IF call[c] = "holding" THEN "overdue" ELSE call[c]]
    /\ admitted' = IF Entry(LimitKey)' = Absent THEN 0 ELSE admitted

LimiterStep(c) == RateLimit(c) \/ StartWindow(c) \/ TakeLock(c) \/ GiveLock(c)

LimiterNext == LimiterLapse \/ \E c \in Callers : LimiterStep(c)

\* The second command follows the first unless the process dies; Redis and the
\* dictionary drop what has expired.
LimiterFairness ==
    /\ \A c \in Callers : WF_limiterVars(StartWindow(c))
    /\ WF_limiterVars(Lapse(LimitKey) /\ LimiterLapse)

LimiterSpec == LimiterInit /\ [][LimiterNext]_limiterVars

LimitEntries == [val : 1 .. MaxCount, expires : BOOLEAN]
LockEntries == [val : Callers, expires : BOOLEAN]

LimiterTypeOK ==
    /\ StoreShape
    /\ Holds(LimitKey, LimitEntries \cup {Absent})
    /\ Holds(LockKey, LockEntries \cup {Absent})
    /\ call \in [Callers -> Places]
    /\ admitted \in Nat

(***************************************************************************)
(* At most Limit requests pass in one window, whatever the processes do at *)
(* the same time (main.py:62, redis_client.py:247).                        *)
(***************************************************************************)
WindowBounded == Sound => admitted <= Limit

(***************************************************************************)
(* A counter that has no time to live is the work of a call that still     *)
(* owes it one: the window never stays open for good while the callers     *)
(* run (redis_client.py:257).                                              *)
(***************************************************************************)
CounterIsTimed ==
    Sound /\ Entry(LimitKey) # Absent /\ ~Entry(LimitKey).expires =>
        \E c \in Callers : call[c] = "owing"

(***************************************************************************)
(* A holder within its time to live is the one whose token the lock bears: *)
(* there is one such holder, and a late release by an earlier holder does  *)
(* not take the lock from it (redis_client.py:39).                         *)
(***************************************************************************)
HolderOwnsLock ==
    Sound => \A c \in Callers :
        call[c] = "holding" =>
            Entry(LockKey) # Absent /\ Entry(LockKey).val = c

(***************************************************************************)
(* A client that is turned away is not turned away for good: the counter   *)
(* runs out again and again.                                               *)
(***************************************************************************)
WindowEnds == link = "up" => []<>(redis[LimitKey] = Absent)
=============================================================================
