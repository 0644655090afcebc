----------------------------- MODULE Blocklist -----------------------------
(***************************************************************************)
(* The temporary blocklist and the jail of rate-limiter/blocklist.js: for  *)
(* every key, Redis entries with a TTL and their in-memory mirror.         *)
(*                                                                         *)
(* Time is counted in ticks and an entry carries the ticks it has left: 0  *)
(* left is an entry that is gone, or expired, which every read of the code *)
(* treats alike (isExpired, and the deletion of what has expired).         *)
(*                                                                         *)
(* A Redis command takes effect when its caller resumes.  Its outcome is   *)
(* one of                                                                  *)
(*    "ok"       applied, and the caller gets the reply                    *)
(*    "lost"     not applied, and the promise rejects                      *)
(*    "unacked"  applied, and the promise rejects: the reply was lost      *)
(*    "resent"   the reply was lost, ioredis sends the command again when  *)
(*               it reconnects, and the caller gets the second reply       *)
(* and regime is the set of outcomes that Redis has in a behaviour.        *)
(***************************************************************************)
EXTENDS Integers, Sequences

CONSTANTS
    Keys,             \* `${type}:${value}`
    Writers,          \* those that call block()
    BaseBlock,        \* BASE_BLOCK_SECONDS
    MaxBlock,         \* MAX_BLOCK_SECONDS
    ManualBlock,      \* the ttl of an admin's block
    JailTtl,          \* JAIL_TTL_SECONDS
    ViolationWindow,  \* VIOLATION_WINDOW_SECONDS
    ViolationCap,     \* bound: counts from here on give MaxBlock alike
    Regimes           \* the regimes a behaviour may have

AllOutcomes == {"ok", "lost", "unacked", "resent"}

ASSUME DurationAssumption ==
    /\ BaseBlock \in Nat \ {0} /\ MaxBlock \in Nat \ {0}
    /\ ManualBlock \in Nat \ {0} /\ JailTtl \in Nat \ {0}
    /\ ViolationWindow \in Nat \ {0}

ASSUME CapAssumption ==
    /\ ViolationCap \in Nat /\ ViolationCap >= 2
    /\ \A n \in 0..(ViolationCap - 1) : 2^n \in Nat \ {0}
    /\ BaseBlock * 2^(ViolationCap - 1) >= MaxBlock

\* What 2 ** n is, for the exponents that occur.
ASSUME PowerAssumption == \A n \in 0..(ViolationCap - 2) : 2^(n + 1) = 2 * 2^n

ASSUME RegimeAssumption == Regimes \subseteq SUBSET AllOutcomes

VARIABLES
    memoryStore,       \* key -> {expiresAt, reason}
    memoryJail,        \* key -> ticks left
    memoryViolations,  \* key -> {count, expiresAt}
    redisStore,        \* armourapi:blocklist:key, ticks left
    redisJail,         \* armourapi:jail:key, ticks left
    redisViolations,   \* armourapi:violations:key, count and TTL
    wire,              \* the SETs of block() on the connection, oldest first
    regime             \* the outcomes of Redis commands

memory == <<memoryStore, memoryJail, memoryViolations>>
redis == <<redisStore, redisJail, redisViolations, wire>>
store == <<memory, redis, regime>>

Applied(o) == o # "lost"
Acked(o) == o \in {"ok", "resent"}

\* No entry; and the TTL of a Redis counter without one.
Unblocked == [left |-> 0, reason |-> "none"]
NoCount == [count |-> 0, left |-> 0]
NoTtl == -1

Least(m, n) == IF m < n THEN m ELSE n
CountUpTo(n) == Least(ViolationCap, n)

StoreInit ==
    /\ memoryStore = [k \in Keys |-> Unblocked]
    /\ memoryJail = [k \in Keys |-> 0]
    /\ memoryViolations = [k \in Keys |-> NoCount]
    /\ redisStore = [k \in Keys |-> 0]
    /\ redisJail = [k \in Keys |-> 0]
    /\ redisViolations = [k \in Keys |-> NoCount]
    /\ wire = <<>>
    /\ regime \in Regimes

-----------------------------------------------------------------------------
(* isBlocked and isJailed: a hit in Redis decides, a miss or an error asks  *)
(* the mirror.                                                              *)

\* Mutant: the mirror alone is asked.
BlockedSeenHere(k, o) == memoryStore[k].left > 0

BlockedSeen(k, o) ==
    \/ Acked(o) /\ redisStore[k] # 0
    \/ memoryStore[k].left > 0

JailSeen(k, o) ==
    \/ Acked(o) /\ redisJail[k] > 0
    \/ memoryJail[k] > 0

-----------------------------------------------------------------------------
(* block                                                                    *)

\* Up to the await: the mirror is set, and the SET is on the connection.
StartBlock(w, k, ttl, reason) ==
    /\ memoryStore' = [memoryStore EXCEPT ![k] = [left |-> ttl, reason |-> reason]]
    /\ wire' = Append(wire, [by |-> w, key |-> k, ttl |-> ttl])

Without(s, i) == SubSeq(s, 1, i - 1) \o SubSeq(s, i + 1, Len(s))

\* Mutants: the SETs of two writers overtake each other; the SET has no EX.
EndBlockAnyOrder(w, o) ==
    \E i \in DOMAIN wire :
        /\ wire[i].by = w
        /\ wire' = Without(wire, i)
        /\ redisStore' = IF Applied(o) THEN [redisStore EXCEPT ![wire[i].key] = wire[i].ttl]
                         ELSE redisStore
EndBlockForGood(w, o) ==
    \E i \in DOMAIN wire :
        /\ wire[i].by = w
        /\ wire' = Without(wire, i)
        /\ redisStore' = [redisStore EXCEPT ![wire[i].key] = NoTtl]

\* The SET is answered, or fails, and block returns either way.  One
\* connection applies commands in the order they were sent; one that is
\* rejected may be rejected before older ones are answered.
EndBlock(w, o) ==
    \E i \in DOMAIN wire :
        /\ wire[i].by = w
        /\ Applied(o) => i = 1
        /\ wire' = Without(wire, i)
        /\ redisStore' = IF Applied(o) THEN [redisStore EXCEPT ![wire[i].key] = wire[i].ttl]
                         ELSE redisStore

-----------------------------------------------------------------------------
(* recordViolationAndEscalate                                               *)

\* redis.incr: a key it creates has no TTL.
Increments(o) == IF o = "lost" THEN 0 ELSE IF o = "resent" THEN 2 ELSE 1

RedisCount(k, o) == CountUpTo(redisViolations[k].count + Increments(o))

Incr(k, o) ==
    redisViolations' =
        [redisViolations EXCEPT
            ![k] = [count |-> RedisCount(k, o),
                    left |-> IF @.count = 0 /\ Applied(o) THEN NoTtl ELSE @.left]]

\* Mutant: the TTL is never set.
ExpireForgotten(k, o) == UNCHANGED redisViolations

\* redis.expire
Expire(k, o) ==
    redisViolations' =
        IF Applied(o) THEN [redisViolations EXCEPT ![k].left = ViolationWindow]
        ELSE redisViolations

\* The fallback: the mirror's count, whose window starts again each time.
MemoryCount(k) ==
    IF memoryViolations[k].left > 0 THEN CountUpTo(memoryViolations[k].count + 1) ELSE 1

CountInMemory(k) ==
    memoryViolations' =
        [memoryViolations EXCEPT ![k] = [count |-> MemoryCount(k), left |-> ViolationWindow]]

\* Mutant: one doubling too many.
BlockTtlEager(count) == Least(MaxBlock, BaseBlock * 2^count)

\* Math.min(maxBlockSeconds, baseBlockSeconds * 2 ** (count - 1))
BlockTtl(count) == Least(MaxBlock, BaseBlock * 2^(count - 1))

-----------------------------------------------------------------------------
(* placeInJail and releaseFromJail: the mirror first, then Redis.           *)

JailInMemory(k) == memoryJail' = [memoryJail EXCEPT ![k] = JailTtl]

JailInRedis(k, o) ==
    redisJail' = IF Applied(o) THEN [redisJail EXCEPT ![k] = JailTtl] ELSE redisJail

ReleaseInMemory(k) == memoryJail' = [memoryJail EXCEPT ![k] = 0]

ReleaseInRedis(k, o) ==
    redisJail' = IF Applied(o) THEN [redisJail EXCEPT ![k] = 0] ELSE redisJail

-----------------------------------------------------------------------------
(* The process stops                                                        *)

Reachable == \E o \in regime : Applied(o)

\* The SETs that Redis had read from the connection that broke are applied, in
\* their order; the others are lost.
LastSet(k, n) ==
    {i \in 1..n : wire[i].key = k /\ \A j \in (i + 1)..n : wire[j].key # k}

Drained(k, n) ==
    IF LastSet(k, n) = {} THEN redisStore[k] ELSE wire[CHOOSE i \in LastSet(k, n) : TRUE].ttl

DrainWire ==
    /\ \E n \in IF Reachable THEN 0..Len(wire) ELSE {0} :
          redisStore' = [k \in Keys |-> Drained(k, n)]
    /\ wire' = <<>>

-----------------------------------------------------------------------------
(* The clock                                                                *)

Less(n) == IF n > 0 THEN n - 1 ELSE n

AgeBlock(e) == IF e.left > 1 THEN [e EXCEPT !.left = @ - 1] ELSE Unblocked

\* A count leaves with its TTL; a Redis count without TTL stays.
AgeCount(e) ==
    IF e.left = 1 THEN NoCount ELSE [e EXCEPT !.left = Less(@)]

StoreTick ==
    /\ memoryStore' = [k \in Keys |-> AgeBlock(memoryStore[k])]
    /\ memoryJail' = [k \in Keys |-> Less(memoryJail[k])]
    /\ memoryViolations' = [k \in Keys |-> AgeCount(memoryViolations[k])]
    /\ redisStore' = [k \in Keys |-> Less(redisStore[k])]
    /\ redisJail' = [k \in Keys |-> Less(redisJail[k])]
    /\ redisViolations' = [k \in Keys |-> AgeCount(redisViolations[k])]
    /\ UNCHANGED <<wire, regime>>

-----------------------------------------------------------------------------

Durations == 0..(MaxBlock + ManualBlock)
Reasons == {"none", "manual", "escalated", "revoked"}

StoreTypeOK ==
    /\ memoryStore \in [Keys -> [left : Durations, reason : Reasons]]
    /\ memoryJail \in [Keys -> 0..JailTtl]
    /\ memoryViolations \in [Keys -> [count : 0..ViolationCap, left : 0..ViolationWindow]]
    /\ redisStore \in [Keys -> Durations]
    /\ redisJail \in [Keys -> 0..JailTtl]
    /\ redisViolations \in
           [Keys -> [count : 0..ViolationCap, left : {NoTtl} \cup 0..ViolationWindow]]
    /\ wire \in Seq([by : Writers, key : Keys, ttl : Durations])
    /\ regime \in Regimes
=============================================================================
