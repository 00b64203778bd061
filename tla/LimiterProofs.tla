---------------------------- MODULE LimiterProofs ----------------------------
(***************************************************************************)
(* Proofs about module Limiter: the limit of a window, the expiry of its   *)
(* counter and the owner of a lock, for any number of callers and          *)
(* processes and any limit.                                                *)
(***************************************************************************)
EXTENDS Limiter, TLAPS

-----------------------------------------------------------------------------
(* The store *)

\* A call writes entries of the kind the key holds, and no other key.
LEMMA WriteHolds ==
    ASSUME StoreShape, NEW p \in Processes, NEW k \in Keys, NEW route, NEW r, NEW m,
           Write(p, k, route, r, m), NEW S, Holds(k, S), r \in S, m \in S
    PROVE  Holds(k, S)'
<1>1. redis'[k] \in S
  BY DEF StoreShape, Write, Holds
<1>2. ASSUME NEW o \in Processes PROVE memory'[o][k] \in S
  <2>1. memory[o][k] \in S
    BY DEF Holds
  <2>2. memory' = memory \/ memory' = [memory EXCEPT ![p][k] = m]
    BY DEF Write
  <2>3. CASE memory' = memory
    BY <2>1, <2>3
  <2>4. CASE memory' = [memory EXCEPT ![p][k] = m]
    <3>1. memory = [q \in Processes |-> [j \in Keys |-> memory[q][j]]]
      BY DEF StoreShape
    <3>2. o = p => memory'[o][k] = m
      BY <2>4, <3>1
    <3>3. o # p => memory'[o][k] = memory[o][k]
      BY <2>4, <3>1
    <3> QED
      BY <2>1, <3>2, <3>3
  <2> QED
    BY <2>2, <2>3, <2>4
<1> QED
  BY <1>1, <1>2 DEF Holds

LEMMA WriteKeepsOthers ==
    ASSUME StoreShape, NEW p \in Processes, NEW k \in Keys, NEW route, NEW r, NEW m,
           Write(p, k, route, r, m), NEW j \in Keys, j # k
    PROVE  redis'[j] = redis[j] /\ \A o \in Processes : memory'[o][j] = memory[o][j]
<1>1. redis'[j] = redis[j]
  BY DEF StoreShape, Write
<1>2. ASSUME NEW o \in Processes PROVE memory'[o][j] = memory[o][j]
  <2>1. memory' = memory \/ memory' = [memory EXCEPT ![p][k] = m]
    BY DEF Write
  <2>2. memory = [q \in Processes |-> [i \in Keys |-> memory[q][i]]]
    BY DEF StoreShape
  <2>3. CASE memory' = [memory EXCEPT ![p][k] = m]
    BY <2>2, <2>3
  <2> QED
    BY <2>1, <2>3
<1> QED
  BY <1>1, <1>2

LEMMA WriteShape ==
    ASSUME StoreShape, NEW p \in Processes, NEW k \in Keys, NEW route, NEW r, NEW m,
           Write(p, k, route, r, m)
    PROVE  StoreShape'
<1>1. link' \in {"up", "down", "flaky"}
  BY DEF StoreShape, Write
<1>2. redis' = [j \in Keys |-> redis'[j]]
  BY DEF StoreShape, Write
<1>3. memory' = [o \in Processes |-> [j \in Keys |-> memory'[o][j]]]
  <2>1. memory' = memory \/ memory' = [memory EXCEPT ![p][k] = m]
    BY DEF Write
  <2>2. memory = [q \in Processes |-> [j \in Keys |-> memory[q][j]]]
    BY DEF StoreShape
  <2>3. CASE memory' = [memory EXCEPT ![p][k] = m]
    <3>1. memory' = [memory EXCEPT ![p] = [memory[p] EXCEPT ![k] = m]]
      BY <2>3
    <3> QED
      BY <2>2, <3>1
  <2> QED
    BY <2>1, <2>2, <2>3
<1> QED
  BY <1>1, <1>2, <1>3 DEF StoreShape

\* While the store is sound, a call reads and writes the one entry there is.
LEMMA SoundWrite ==
    ASSUME StoreShape, Sound, NEW p \in Processes, NEW k \in Keys, NEW route \in Routes,
           NEW r, NEW m, Write(p, k, route, r, m)
    PROVE  /\ route = IF link = "up" THEN "redis" ELSE "memory"
           /\ Seen(p, k, route) = Entry(k)
           /\ SeenNext(p, k, route) = Entry(k)'
           /\ Entry(k)' = IF link = "up" THEN r ELSE m
           /\ Entry(k) = IF link = "up" THEN redis[k] ELSE memory[p][k]
<1>1. link' = link
  BY DEF Write
<1>2. CASE link = "up"
  <2>1. route = "redis"
    BY <1>2 DEF Routes
  <2>2. redis'[k] = r
    BY <2>1 DEF Write, StoreShape
  <2> QED
    BY <1>1, <1>2, <2>1, <2>2 DEF Seen, SeenNext, Entry
<1>3. CASE link # "up"
  <2>1. link = "down" /\ Processes = {p}
    BY <1>3 DEF Sound
  <2>2. route = "memory" /\ (CHOOSE o \in Processes : TRUE) = p
    BY <2>1 DEF Routes
  <2>3. memory'[p][k] = m
    BY <2>2 DEF Write, StoreShape
  <2> QED
    BY <1>1, <2>1, <2>2, <2>3 DEF Seen, SeenNext, Entry
<1> QED
  BY <1>2, <1>3

LEMMA SoundKeepsOthers ==
    ASSUME StoreShape, Sound, NEW p \in Processes, NEW k \in Keys, NEW route \in Routes,
           NEW r, NEW m, Write(p, k, route, r, m), NEW j \in Keys, j # k
    PROVE  Entry(j)' = Entry(j)
<1>1. link' = link /\ redis'[j] = redis[j] /\ \A o \in Processes : memory'[o][j] = memory[o][j]
  BY WriteKeepsOthers DEF Write
<1>2. CASE link # "up"
  <2>1. (CHOOSE o \in Processes : TRUE) \in Processes
    OBVIOUS
  <2> QED
    BY <1>1, <1>2, <2>1 DEF Entry
<1> QED
  BY <1>1, <1>2 DEF Entry

\* An entry that lapses leaves the others as they are.
LEMMA LapseWrites ==
    ASSUME StoreShape, NEW k \in Keys, Lapse(k)
    PROVE  /\ StoreShape' /\ link' = link
           /\ \A j \in Keys : redis'[j] \in {redis[j], Absent}
           /\ \A o \in Processes, j \in Keys : memory'[o][j] \in {memory[o][j], Absent}
           /\ \A j \in Keys \ {k} : redis'[j] = redis[j]
           /\ \A o \in Processes, j \in Keys \ {k} : memory'[o][j] = memory[o][j]
<1>1. CASE LapseInRedis(k)
  BY <1>1 DEF LapseInRedis, StoreShape
<1>2. ASSUME NEW p \in Processes, LapseInMemory(p, k)
      PROVE  /\ StoreShape' /\ link' = link /\ redis' = redis
             /\ \A o \in Processes, j \in Keys : memory'[o][j] \in {memory[o][j], Absent}
             /\ \A o \in Processes, j \in Keys \ {k} : memory'[o][j] = memory[o][j]
  <2>1. memory = [o \in Processes |-> [j \in Keys |-> memory[o][j]]]
    BY DEF StoreShape
  <2>2. memory' = [memory EXCEPT ![p] = [memory[p] EXCEPT ![k] = Absent]]
    BY <1>2 DEF LapseInMemory
  <2>3. /\ memory' = [o \in Processes |-> [j \in Keys |-> memory'[o][j]]]
        /\ \A o \in Processes, j \in Keys : memory'[o][j] \in {memory[o][j], Absent}
        /\ \A o \in Processes, j \in Keys \ {k} : memory'[o][j] = memory[o][j]
    BY <2>1, <2>2
  <2> QED
    BY <1>2, <2>3 DEF LapseInMemory, StoreShape
<1> QED
  BY <1>1, <1>2 DEF Lapse

\* While the store is sound the one entry there is lapses, or does not.
LEMMA SoundLapse ==
    ASSUME StoreShape, Sound, NEW k \in Keys, Lapse(k), NEW j \in Keys
    PROVE  Entry(j)' \in {Entry(j), Absent} /\ (j # k => Entry(j)' = Entry(j))
<1>1. link # "up" => (CHOOSE o \in Processes : TRUE) \in Processes
  BY DEF Sound
<1> QED
  BY <1>1, LapseWrites DEF Entry

LEMMA SoundStays ==
    ASSUME link' = link PROVE Sound' <=> Sound
BY DEF Sound

-----------------------------------------------------------------------------
(* Entries of the counter *)

Counters == LimitEntries \cup {Absent}

LEMMA AbsentIsNoCounter == Absent \notin LimitEntries
BY LimiterAssumption DEF LimitEntries

LEMMA Counting ==
    ASSUME NEW e \in Counters
    PROVE  /\ CountOf(e) \in Nat
           /\ e # Absent => CountOf(e) = e.val /\ e \in LimitEntries
           /\ CountOf(e) < MaxCount =>
                 /\ Incremented(e) \in LimitEntries
                 /\ IncrementedInMemory(e) \in LimitEntries
           /\ Incremented(e).val = CountOf(e) + 1
           /\ IncrementedInMemory(e).val = CountOf(e) + 1
           /\ e = Absent => ~Incremented(e).expires /\ IncrementedInMemory(e).expires
           /\ e # Absent => /\ Incremented(e).expires = e.expires
                            /\ IncrementedInMemory(e).expires = e.expires
<1>1. CASE e = Absent
  BY <1>1, LimiterAssumption
     DEF CountOf, Incremented, IncrementedInMemory, Lasting, Expiring, LimitEntries
<1>2. CASE e # Absent
  <2>1. e \in LimitEntries
    BY <1>2 DEF Counters
  <2> QED
    BY <1>2, <2>1, LimiterAssumption
       DEF CountOf, Incremented, IncrementedInMemory, LimitEntries
<1> QED
  BY <1>1, <1>2

LEMMA Timing ==
    ASSUME NEW e \in Counters
    PROVE  /\ Timed(e) \in Counters
           /\ e = Absent => Timed(e) = Absent
           /\ e # Absent => /\ Timed(e) # Absent
                            /\ Timed(e).val = e.val /\ Timed(e).expires
<1>1. CASE e = Absent
  BY <1>1 DEF Timed, Counters
<1>2. CASE e # Absent
  <2>1. e \in LimitEntries
    BY <1>2 DEF Counters
  <2>2. Timed(e) = [e EXCEPT !.expires = TRUE]
    BY <1>2 DEF Timed
  <2>3. Timed(e) \in LimitEntries /\ Timed(e).val = e.val /\ Timed(e).expires
    BY <2>1, <2>2 DEF LimitEntries
  <2> QED
    BY <1>2, <2>3, AbsentIsNoCounter DEF Counters
<1> QED
  BY <1>1, <1>2

Locks == LockEntries \cup {Absent}

LEMMA AbsentIsNoLock == Absent \notin LockEntries
BY LimiterAssumption DEF LockEntries

-----------------------------------------------------------------------------
(* The type invariant *)

LEMMA InitTyped == LimiterInit => LimiterTypeOK
BY LimiterAssumption DEF LimiterInit, StoreInit, LimiterTypeOK, StoreShape, Holds, Places

\* A call on one of the two keys with entries of its kind
LEMMA WriteTyped ==
    ASSUME LimiterTypeOK, NEW p \in Processes, NEW k \in {LimitKey, LockKey}, NEW route,
           NEW r, NEW m, Write(p, k, route, r, m),
           k = LimitKey => r \in Counters /\ m \in Counters,
           k = LockKey => r \in Locks /\ m \in Locks
    PROVE  StoreShape' /\ Holds(LimitKey, Counters)' /\ Holds(LockKey, Locks)'
<1>1. /\ StoreShape /\ k \in Keys /\ LimitKey \in Keys /\ LockKey \in Keys /\ LimitKey # LockKey
      /\ Holds(LimitKey, Counters) /\ Holds(LockKey, Locks)
  BY LimiterAssumption DEF LimiterTypeOK, Counters, Locks
<1>2. StoreShape'
  BY <1>1, WriteShape
<1>3. CASE k = LimitKey
  <2>1. Holds(LimitKey, Counters)'
    BY <1>1, <1>3, WriteHolds
  <2>2. Holds(LockKey, Locks)'
    BY <1>1, <1>3, WriteKeepsOthers DEF Holds
  <2> QED
    BY <1>2, <2>1, <2>2
<1>4. CASE k = LockKey
  <2>1. Holds(LockKey, Locks)'
    BY <1>1, <1>4, WriteHolds
  <2>2. Holds(LimitKey, Counters)'
    BY <1>1, <1>4, WriteKeepsOthers DEF Holds
  <2> QED
    BY <1>2, <2>1, <2>2
<1> QED
  BY <1>3, <1>4

LEMMA CallerTyped ==
    ASSUME LimiterTypeOK, NEW c \in Callers
    PROVE  /\ ProcessOf[c] \in Processes
           /\ redis[LimitKey] \in Counters /\ memory[ProcessOf[c]][LimitKey] \in Counters
           /\ redis[LockKey] \in Locks /\ memory[ProcessOf[c]][LockKey] \in Locks
BY LimiterAssumption DEF LimiterTypeOK, Holds, Counters, Locks

LEMMA RateLimitTyped ==
    ASSUME LimiterTypeOK, NEW c \in Callers, RateLimit(c)
    PROVE  LimiterTypeOK'
<1>1. PICK route \in Routes :
          /\ Increment(ProcessOf[c], LimitKey, route)
          /\ admitted' = admitted +
                (IF Passes(SeenNext(ProcessOf[c], LimitKey, route).val) THEN 1 ELSE 0)
          /\ call' = [call EXCEPT ![c] = IF OwesExpiry(ProcessOf[c], LimitKey, route)
                                          THEN "owing" ELSE "idle"]
  BY DEF RateLimit
<1>2. /\ Incremented(redis[LimitKey]) \in Counters
      /\ IncrementedInMemory(memory[ProcessOf[c]][LimitKey]) \in Counters
  BY CallerTyped, Counting DEF RateLimit, LimiterBounded, Counters
<1>3. StoreShape' /\ Holds(LimitKey, Counters)' /\ Holds(LockKey, Locks)'
  BY <1>1, <1>2, CallerTyped, WriteTyped, LimiterAssumption DEF Increment
<1>4. admitted' \in Nat /\ call' \in [Callers -> Places]
  BY <1>1 DEF LimiterTypeOK, Places
<1> QED
  BY <1>3, <1>4 DEF LimiterTypeOK, Counters, Locks

LEMMA StartWindowTyped ==
    ASSUME LimiterTypeOK, NEW c \in Callers, StartWindow(c)
    PROVE  LimiterTypeOK'
<1>1. PICK route \in Routes :
          /\ route # "redis" => LimiterBounded(c)
          /\ SetExpiry(ProcessOf[c], LimitKey, route)
  BY DEF StartWindow
<1>2. StoreShape' /\ Holds(LimitKey, Counters)' /\ Holds(LockKey, Locks)'
  <2>1. Timed(redis[LimitKey]) \in Counters
    BY CallerTyped, Timing
  <2>2. CASE route # "redis"
    <3>1. IncrementedInMemory(memory[ProcessOf[c]][LimitKey]) \in Counters
      BY <1>1, <2>2, CallerTyped, Counting DEF LimiterBounded, Counters
    <3> QED
      BY <1>1, <2>1, <3>1, CallerTyped, WriteTyped, LimiterAssumption DEF SetExpiry
  <2>3. CASE route = "redis"
    <3>1. Write(ProcessOf[c], LimitKey, route, Timed(redis[LimitKey]), Absent)
      BY <1>1, <2>3 DEF SetExpiry, Write
    <3> QED
      BY <2>1, <3>1, CallerTyped, WriteTyped, LimiterAssumption DEF Counters
  <2> QED
    BY <2>2, <2>3
<1>3. admitted' \in Nat /\ call' \in [Callers -> Places]
  BY DEF StartWindow, LimiterTypeOK, Places
<1> QED
  BY <1>2, <1>3 DEF LimiterTypeOK, Counters, Locks

LEMMA LockTyped ==
    ASSUME LimiterTypeOK, NEW c \in Callers, TakeLock(c) \/ GiveLock(c)
    PROVE  LimiterTypeOK'
<1>1. PICK route \in Routes :
          Acquire(ProcessOf[c], LockKey, route, c) \/ Release(ProcessOf[c], LockKey, route, c)
  BY DEF TakeLock, GiveLock
<1>2. Expiring(c) \in Locks /\ Absent \in Locks
  BY DEF Expiring, Locks, LockEntries
<1>3. \E r \in Locks, m \in Locks : Write(ProcessOf[c], LockKey, route, r, m)
  BY <1>1, <1>2, CallerTyped DEF Acquire, Release
<1>4. StoreShape' /\ Holds(LimitKey, Counters)' /\ Holds(LockKey, Locks)'
  BY <1>3, CallerTyped, WriteTyped, LimiterAssumption
<1>5. admitted' \in Nat /\ call' \in [Callers -> Places]
  BY DEF TakeLock, GiveLock, LimiterTypeOK, Places
<1> QED
  BY <1>4, <1>5 DEF LimiterTypeOK, Counters, Locks

LEMMA LapseTyped ==
    ASSUME LimiterTypeOK, LimiterLapse
    PROVE  /\ LimiterTypeOK' /\ link' = link
           /\ \A k \in Keys : redis'[k] \in {redis[k], Absent}
           /\ \A o \in Processes, k \in Keys : memory'[o][k] \in {memory[o][k], Absent}
<1>1. PICK k \in {LimitKey, LockKey} : Lapse(k)
  BY DEF LimiterLapse
<1>2. k \in Keys /\ StoreShape
  BY LimiterAssumption DEF LimiterTypeOK
<1>3. /\ StoreShape' /\ link' = link
      /\ \A j \in Keys : redis'[j] \in {redis[j], Absent}
      /\ \A o \in Processes, j \in Keys : memory'[o][j] \in {memory[o][j], Absent}
  BY <1>1, <1>2, LapseWrites
<1>4. Holds(LimitKey, Counters)' /\ Holds(LockKey, Locks)'
  BY <1>3, LimiterAssumption DEF LimiterTypeOK, Holds, Counters, Locks
<1>5. admitted' \in Nat /\ call' \in [Callers -> Places]
  BY DEF LimiterLapse, LimiterTypeOK, Places
<1> QED
  BY <1>3, <1>4, <1>5 DEF LimiterTypeOK, Counters, Locks

-----------------------------------------------------------------------------
(* What a sound store keeps *)

\* The requests let through are those the counter counts, while they are
\* within the limit.
Counted ==
    /\ admitted <= Limit
    /\ Entry(LimitKey) = Absent => admitted = 0
    /\ Entry(LimitKey) # Absent => admitted <= Entry(LimitKey).val

\* A dictionary gives its counters a time to live at once.
Ticking ==
    Entry(LimitKey) # Absent /\ ~Entry(LimitKey).expires =>
        link = "up" /\ \E c \in Callers : call[c] = "owing"

Owned ==
    \A c \in Callers : call[c] = "holding" =>
        Entry(LockKey) # Absent /\ Entry(LockKey).val = c

LimiterIInv == LimiterTypeOK /\ (Sound => Counted /\ Ticking /\ Owned)

LEMMA SoundEntries ==
    ASSUME LimiterTypeOK, Sound, NEW c \in Callers
    PROVE  /\ Entry(LimitKey) \in Counters /\ Entry(LockKey) \in Locks
           /\ Entry(LimitKey) = IF link = "up" THEN redis[LimitKey]
                                ELSE memory[ProcessOf[c]][LimitKey]
           /\ Entry(LockKey) = IF link = "up" THEN redis[LockKey]
                               ELSE memory[ProcessOf[c]][LockKey]
<1>1. ProcessOf[c] \in Processes
  BY LimiterAssumption
<1>2. link # "up" => (CHOOSE o \in Processes : TRUE) = ProcessOf[c]
  BY <1>1 DEF Sound
<1>3. CASE link = "up"
  BY <1>3, CallerTyped DEF Entry
<1>4. CASE link # "up"
  <2>1. Entry(LimitKey) = memory[ProcessOf[c]][LimitKey]
    BY <1>2, <1>4 DEF Entry
  <2>2. Entry(LockKey) = memory[ProcessOf[c]][LockKey]
    BY <1>2, <1>4 DEF Entry
  <2> QED
    BY <1>4, <2>1, <2>2, CallerTyped
<1> QED
  BY <1>3, <1>4

LEMMA LimiterStarts == LimiterInit => LimiterIInv
<1> SUFFICES ASSUME LimiterInit, Sound PROVE Counted /\ Ticking /\ Owned
  BY InitTyped DEF LimiterIInv
<1>1. Entry(LimitKey) = Absent
  BY LimiterAssumption DEF LimiterInit, StoreInit, Sound, Entry
<1> QED
  BY <1>1, LimiterAssumption DEF LimiterInit, Counted, Ticking, Owned

LEMMA RateLimitKeeps ==
    ASSUME LimiterIInv, NEW c \in Callers, RateLimit(c)
    PROVE  LimiterIInv'
<1> SUFFICES ASSUME Sound' PROVE Counted' /\ Ticking' /\ Owned'
  BY RateLimitTyped DEF LimiterIInv
<1> DEFINE p == ProcessOf[c]
           e == Entry(LimitKey)
<1>1. PICK route \in Routes :
          /\ Increment(p, LimitKey, route)
          /\ admitted' = admitted + (IF Passes(SeenNext(p, LimitKey, route).val) THEN 1 ELSE 0)
          /\ call' = [call EXCEPT ![c] = IF OwesExpiry(p, LimitKey, route)
                                          THEN "owing" ELSE "idle"]
  BY DEF RateLimit
<1>2. /\ link' = link /\ Sound /\ LimiterTypeOK /\ StoreShape /\ Counted /\ Ticking /\ Owned
      /\ call[c] = "idle" /\ p \in Processes
      /\ LimitKey \in Keys /\ LockKey \in Keys /\ LimitKey # LockKey
  BY <1>1, SoundStays, LimiterAssumption
     DEF Increment, Write, LimiterIInv, LimiterTypeOK, RateLimit
<1>3. /\ route = IF link = "up" THEN "redis" ELSE "memory"
      /\ SeenNext(p, LimitKey, route) = e'
      /\ e' = IF link = "up" THEN Incremented(e) ELSE IncrementedInMemory(e)
  BY <1>1, <1>2, SoundWrite, SoundEntries DEF Increment
<1>4. Entry(LockKey)' = Entry(LockKey)
  BY <1>1, <1>2, SoundKeepsOthers DEF Increment
<1>5. e \in Counters /\ CountOf(e) < MaxCount
  BY <1>2, SoundEntries DEF RateLimit, LimiterBounded
<1>6. e' \in LimitEntries /\ e' # Absent /\ e'.val = CountOf(e) + 1
  BY <1>3, <1>5, Counting, AbsentIsNoCounter
<1>7. Counted'
  <2>1. admitted <= CountOf(e) /\ CountOf(e) \in Nat /\ admitted \in Nat
    BY <1>2, <1>5, Counting DEF Counted, LimiterTypeOK, CountOf
  <2>2. admitted' = admitted + (IF CountOf(e) + 1 <= Limit THEN 1 ELSE 0)
    BY <1>1, <1>3, <1>6 DEF Passes
  <2> QED
    BY <1>2, <1>6, <2>1, <2>2, LimiterAssumption DEF Counted
<1>8. Ticking'
  <2> SUFFICES ASSUME ~e'.expires
               PROVE  link = "up" /\ \E d \in Callers : call'[d] = "owing"
    BY <1>2 DEF Ticking
  <2>1. CASE e = Absent
    <3>1. link = "up" /\ route = "redis"
      BY <1>3, <1>5, <2>1, Counting
    <3>2. redis'[LimitKey].val = 1
      BY <1>3, <1>6, <2>1, <3>1 DEF SeenNext, CountOf
    <3>3. call'[c] = "owing"
      BY <1>1, <1>2, <3>1, <3>2 DEF OwesExpiry, LimiterTypeOK
    <3> QED
      BY <3>1, <3>3
  <2>2. CASE e # Absent
    <3>1. ~e.expires
      BY <1>3, <1>5, <2>2, Counting
    <3>2. PICK d \in Callers : link = "up" /\ call[d] = "owing"
      BY <1>2, <2>2, <3>1 DEF Ticking
    <3>3. call'[d] = "owing"
      BY <1>1, <1>2, <3>2 DEF LimiterTypeOK
    <3> QED
      BY <3>2, <3>3
  <2> QED
    BY <2>1, <2>2
<1>9. Owned'
  BY <1>1, <1>2, <1>4 DEF Owned, LimiterTypeOK
<1> QED
  BY <1>7, <1>8, <1>9

LEMMA StartWindowKeeps ==
    ASSUME LimiterIInv, NEW c \in Callers, StartWindow(c)
    PROVE  LimiterIInv'
<1> SUFFICES ASSUME Sound' PROVE Counted' /\ Ticking' /\ Owned'
  BY StartWindowTyped DEF LimiterIInv
<1> DEFINE p == ProcessOf[c]
           e == Entry(LimitKey)
<1>1. PICK route \in Routes :
          /\ route # "redis" => LimiterBounded(c)
          /\ SetExpiry(p, LimitKey, route)
  BY DEF StartWindow
<1>2. /\ link' = link /\ Sound /\ LimiterTypeOK /\ StoreShape /\ Counted /\ Ticking /\ Owned
      /\ p \in Processes /\ admitted' = admitted /\ call' = [call EXCEPT ![c] = "idle"]
      /\ LimitKey \in Keys /\ LockKey \in Keys /\ LimitKey # LockKey
  BY <1>1, SoundStays, LimiterAssumption
     DEF SetExpiry, Write, LimiterIInv, LimiterTypeOK, StartWindow
<1>3. e' = IF link = "up" THEN Timed(e) ELSE IncrementedInMemory(e)
  BY <1>1, <1>2, SoundWrite, SoundEntries DEF SetExpiry
<1>4. Entry(LockKey)' = Entry(LockKey)
  BY <1>1, <1>2, SoundKeepsOthers DEF SetExpiry
<1>5. e \in Counters /\ admitted \in Nat
  BY <1>2, SoundEntries DEF LimiterTypeOK
<1>6. CASE link = "up"
  <2>1. e' = Timed(e)
    BY <1>3, <1>6
  <2>2. Counted' /\ Ticking'
    BY <1>2, <1>5, <2>1, Timing DEF Counted, Ticking
  <2> QED
    BY <1>2, <1>4, <2>2 DEF Owned, LimiterTypeOK
<1>7. CASE link # "up"
  <2>1. e' = IncrementedInMemory(e) /\ e' # Absent
    <3>1. route # "redis" /\ LimiterBounded(c)
      <4>1. link = "down"
        BY <1>2, <1>7 DEF Sound
      <4> QED
        BY <1>1, <4>1 DEF Routes
    <3>2. CountOf(e) < MaxCount
      BY <1>2, <1>7, <3>1, SoundEntries DEF LimiterBounded
    <3> QED
      BY <1>3, <1>5, <1>7, <3>2, Counting, AbsentIsNoCounter
  <2>2. e # Absent => e.expires
    BY <1>2, <1>7 DEF Ticking
  <2>3. e'.val = CountOf(e) + 1 /\ e'.expires
    BY <1>5, <2>1, <2>2, Counting
  <2>4. admitted <= CountOf(e) /\ CountOf(e) \in Nat
    BY <1>2, <1>5, Counting DEF Counted, CountOf
  <2>5. Counted' /\ Ticking'
    BY <1>2, <1>5, <2>1, <2>3, <2>4 DEF Counted, Ticking
  <2> QED
    BY <1>2, <1>4, <2>5 DEF Owned, LimiterTypeOK
<1> QED
  BY <1>6, <1>7

LEMMA TakeLockKeeps ==
    ASSUME LimiterIInv, NEW c \in Callers, TakeLock(c)
    PROVE  LimiterIInv'
<1> SUFFICES ASSUME Sound' PROVE Counted' /\ Ticking' /\ Owned'
  BY LockTyped DEF LimiterIInv
<1> DEFINE p == ProcessOf[c]
           e == Entry(LockKey)
<1>1. PICK route \in Routes :
          /\ Acquire(p, LockKey, route, c)
          /\ call' = [call EXCEPT ![c] = IF Seen(p, LockKey, route) = Absent
                                          THEN "holding" ELSE "idle"]
  BY DEF TakeLock
<1>2. /\ link' = link /\ Sound /\ LimiterTypeOK /\ StoreShape /\ Counted /\ Ticking /\ Owned
      /\ call[c] = "idle" /\ p \in Processes /\ admitted' = admitted
      /\ LimitKey \in Keys /\ LockKey \in Keys /\ LimitKey # LockKey
  BY <1>1, SoundStays, LimiterAssumption
     DEF Acquire, Write, LimiterIInv, LimiterTypeOK, TakeLock
<1>3. e' = (IF e = Absent THEN Expiring(c) ELSE e) /\ Seen(p, LockKey, route) = e
  BY <1>1, <1>2, SoundWrite, SoundEntries DEF Acquire
<1>4. Entry(LimitKey)' = Entry(LimitKey)
  BY <1>1, <1>2, SoundKeepsOthers DEF Acquire
<1>5. Counted'
  BY <1>2, <1>4 DEF Counted
<1>6. Ticking'
  BY <1>1, <1>2, <1>4 DEF Ticking, LimiterTypeOK
<1>7. CASE e = Absent
  <2>1. e' # Absent /\ e'.val = c
    <3>1. Expiring(c) \in LockEntries /\ Expiring(c).val = c
      BY DEF Expiring, LockEntries
    <3> QED
      BY <1>3, <1>7, <3>1, AbsentIsNoLock
  <2>2. \A d \in Callers : call[d] # "holding"
    BY <1>2, <1>7 DEF Owned
  <2>3. Owned'
    BY <1>1, <1>2, <2>1, <2>2 DEF Owned, LimiterTypeOK
  <2> QED
    BY <1>5, <1>6, <2>3
<1>8. CASE e # Absent
  <2>1. Owned'
    BY <1>1, <1>2, <1>3, <1>8 DEF Owned, LimiterTypeOK
  <2> QED
    BY <1>5, <1>6, <2>1
<1> QED
  BY <1>7, <1>8

LEMMA GiveLockKeeps ==
    ASSUME LimiterIInv, NEW c \in Callers, GiveLock(c)
    PROVE  LimiterIInv'
<1> SUFFICES ASSUME Sound' PROVE Counted' /\ Ticking' /\ Owned'
  BY LockTyped DEF LimiterIInv
<1> DEFINE p == ProcessOf[c]
           e == Entry(LockKey)
<1>1. PICK route \in Routes : Release(p, LockKey, route, c)
  BY DEF GiveLock
<1>2. /\ link' = link /\ Sound /\ LimiterTypeOK /\ StoreShape /\ Counted /\ Ticking /\ Owned
      /\ call[c] # "owing" /\ call' = [call EXCEPT ![c] = "idle"]
      /\ p \in Processes /\ admitted' = admitted
      /\ LimitKey \in Keys /\ LockKey \in Keys /\ LimitKey # LockKey
  BY <1>1, SoundStays, LimiterAssumption
     DEF Release, Write, LimiterIInv, LimiterTypeOK, GiveLock
<1>3. e' = IF IsOwner(e, c) THEN Absent ELSE e
  BY <1>1, <1>2, SoundWrite, SoundEntries DEF Release
<1>4. Entry(LimitKey)' = Entry(LimitKey)
  BY <1>1, <1>2, SoundKeepsOthers DEF Release
<1>5. Counted'
  BY <1>2, <1>4 DEF Counted
<1>6. Ticking'
  BY <1>2, <1>4 DEF Ticking, LimiterTypeOK
<1>7. ASSUME NEW d \in Callers, call'[d] = "holding"
      PROVE  e' # Absent /\ e'.val = d
  <2>1. d # c /\ call[d] = "holding"
    BY <1>2, <1>7 DEF LimiterTypeOK
  <2>2. e # Absent /\ e.val = d
    BY <1>2, <2>1 DEF Owned
  <2> QED
    BY <1>3, <2>1, <2>2 DEF IsOwner
<1> QED
  BY <1>5, <1>6, <1>7 DEF Owned

LEMMA LapseKeeps ==
    ASSUME LimiterIInv, LimiterLapse
    PROVE  LimiterIInv'
<1>1. LimiterTypeOK /\ LimiterTypeOK' /\ link' = link
  BY LapseTyped DEF LimiterIInv
<1> SUFFICES ASSUME Sound' PROVE Counted' /\ Ticking' /\ Owned'
  BY <1>1 DEF LimiterIInv
<1>2. Sound /\ Counted /\ Ticking /\ Owned
  BY <1>1, SoundStays DEF LimiterIInv
<1>3. \A k \in Keys : Entry(k)' \in {Entry(k), Absent}
  BY <1>1, <1>2, SoundLapse, LimiterAssumption DEF LimiterLapse, LimiterTypeOK
<1>4. Entry(LimitKey)' \in {Entry(LimitKey), Absent} /\ Entry(LockKey)' \in {Entry(LockKey), Absent}
  BY <1>3, LimiterAssumption
<1>5. Counted'
  BY <1>2, <1>4, LimiterAssumption DEF LimiterLapse, Counted
<1>6. Ticking'
  <2>1. \A d \in Callers : call[d] = "owing" => call'[d] = "owing"
    BY <1>1 DEF LimiterLapse, LimiterTypeOK
  <2> QED
    BY <1>1, <1>2, <1>4, <2>1 DEF Ticking
<1>7. Owned'
  <2>1. CASE Lapse(LimitKey) /\ UNCHANGED call
    <3>1. Entry(LockKey)' = Entry(LockKey)
      BY <1>1, <1>2, <2>1, SoundLapse, LimiterAssumption DEF LimiterTypeOK
    <3> QED
      BY <1>2, <2>1, <3>1 DEF Owned
  <2>2. CASE \A d \in Callers : call'[d] # "holding"
    BY <2>2 DEF Owned
  <2> QED
    BY <2>1, <2>2 DEF LimiterLapse
<1> QED
  BY <1>5, <1>6, <1>7

LEMMA LimiterKeeps ==
    ASSUME LimiterIInv, [LimiterNext]_limiterVars
    PROVE  LimiterIInv'
<1>1. CASE LimiterLapse
  BY <1>1, LapseKeeps
<1>2. ASSUME NEW c \in Callers, LimiterStep(c) PROVE LimiterIInv'
  BY <1>2, RateLimitKeeps, StartWindowKeeps, TakeLockKeeps, GiveLockKeeps DEF LimiterStep
<1>3. CASE UNCHANGED limiterVars
  BY <1>3 DEF LimiterIInv, LimiterTypeOK, StoreShape, Holds, Sound, Counted, Ticking, Owned,
              Entry, limiterVars, storeVars
<1> QED
  BY <1>1, <1>2, <1>3 DEF LimiterNext

-----------------------------------------------------------------------------
(* The theorems *)

THEOREM LimiterInvariant == LimiterSpec => []LimiterIInv
<1>1. LimiterIInv /\ [LimiterNext]_limiterVars => LimiterIInv'
  BY LimiterKeeps
<1> QED
  BY LimiterStarts, <1>1, PTL DEF LimiterSpec

\* The keys of the limiter and of the locks hold counters and owners, even
\* while calls fail and are repeated in memory.
THEOREM LimiterTypeCorrect == LimiterSpec => []LimiterTypeOK
<1>1. LimiterIInv => LimiterTypeOK
  BY DEF LimiterIInv
<1> QED
  BY LimiterInvariant, <1>1, PTL

\* No window lets more than the limit through.
THEOREM LimitHolds == LimiterSpec => []WindowBounded
<1>1. LimiterIInv => WindowBounded
  BY DEF LimiterIInv, WindowBounded, Counted
<1> QED
  BY LimiterInvariant, <1>1, PTL

\* A counter without a time to live has someone who owes it one.
THEOREM CountersTimed == LimiterSpec => []CounterIsTimed
<1>1. LimiterIInv => CounterIsTimed
  BY DEF LimiterIInv, CounterIsTimed, Ticking
<1> QED
  BY LimiterInvariant, <1>1, PTL

\* Whoever holds a lock within its time to live owns it.
THEOREM HoldersOwnLock == LimiterSpec => []HolderOwnsLock
<1>1. LimiterIInv => HolderOwnsLock
  BY DEF LimiterIInv, HolderOwnsLock, Owned
<1> QED
  BY LimiterInvariant, <1>1, PTL
=============================================================================
