--------------------- MODULE AdaptiveJailRestartProofs ---------------------
(***************************************************************************)
(* A process that stops at any point and is started again: the invariants  *)
(* of AdaptiveJail hold in every life, for any number of restarts, and no  *)
(* restart charges a key a second time for the breach it is blocked for.   *)
(*                                                                         *)
(* A step within a life is a step of AdaptiveJail.  A restart leaves no    *)
(* request and no mirror, and of the commands under way it lands those     *)
(* that the turns ahead had sent.                                          *)
(***************************************************************************)
EXTENDS AdaptiveJailRestart, AdaptiveJailProofs

\* INCR and EXPIRE that land keep the type of the counts (blocklist.js:93-94).
LEMMA LandedCountType ==
  ASSUME StoreTypeOK, NEW k \in Keys
  PROVE  LandedCount(k) \in [count : 0..ViolationCap, left : {NoTtl} \cup 0..ViolationWindow]
<1> DEFINE Count == [count : 0..ViolationCap, left : {NoTtl} \cup 0..ViolationWindow]
<1>1. redisViolations[k] \in Count
  BY DEF StoreTypeOK
<1>2. redisViolations[k].count \in 0..ViolationCap
      /\ redisViolations[k].left \in {NoTtl} \cup 0..ViolationWindow
  BY <1>1
<1>3. ViolationCap \in Nat /\ ViolationWindow \in 0..ViolationWindow
  BY CapAssumption, DurationAssumption
<1>4. CountUpTo(redisViolations[k].count + 1) \in 0..ViolationCap
  BY <1>2, <1>3 DEF CountUpTo, Least
<1>5. CASE Awaits(k, "incr")
  BY <1>2, <1>4, <1>5 DEF LandedCount
<1>6. CASE ~Awaits(k, "incr") /\ Awaits(k, "expire")
  BY <1>1, <1>3, <1>6 DEF LandedCount
<1>7. CASE ~Awaits(k, "incr") /\ ~Awaits(k, "expire")
  BY <1>1, <1>7 DEF LandedCount
<1> QED  BY <1>5, <1>6, <1>7

\* The SET and the DEL of the jail that land keep its type (blocklist.js:121, 150).
LEMMA LandedJailType ==
  ASSUME StoreTypeOK, NEW k \in Keys
  PROVE  LandedJail(k) \in 0..JailTtl
  BY DurationAssumption DEF StoreTypeOK, LandedJail

\* A restart leaves every variable in its type: nothing is under way.
LEMMA TypeRestart ==
  ASSUME TypeOK, Restart
  PROVE  TypeOK'
<1>1. StoreTypeOK
  BY DEF TypeOK
<1>2. PICK landed : Land(landed)
  BY DEF Restart
<1>3. /\ redisViolations' \in
             [Keys -> [count : 0..ViolationCap, left : {NoTtl} \cup 0..ViolationWindow]]
      /\ redisJail' \in [Keys -> 0..JailTtl]
  BY <1>1, <1>2, LandedCountType, LandedJailType DEF Land, StoreTypeOK
<1>4. /\ redisStore' \in [Keys -> Durations]
      /\ wire' \in Seq([by : Writers, key : Keys, ttl : Durations])
  BY <1>1, DrainType DEF Restart
<1>5. /\ 0 \in Durations /\ 0 \in 0..JailTtl
      /\ 0 \in 0..ViolationCap /\ 0 \in 0..ViolationWindow
  BY DurationAssumption, CapAssumption DEF Durations
<1>6. /\ memoryStore' \in [Keys -> [left : Durations, reason : Reasons]]
      /\ memoryJail' \in [Keys -> 0..JailTtl]
      /\ memoryViolations' \in [Keys -> [count : 0..ViolationCap, left : 0..ViolationWindow]]
  BY <1>5 DEF Restart, Unblocked, NoCount, Reasons
<1>7. StoreTypeOK'
  BY <1>1, <1>3, <1>4, <1>6 DEF Restart, StoreTypeOK
<1>8. RequestTypeOK'
  BY DEF Restart, RequestTypeOK, Pcs
<1> QED  BY <1>7, <1>8, TypeParts DEF TypeOK, RequestTypeOK

\* No turn and no decision outlives the process (blocklist.js:23: the locks
\* are in memory).
LEMMA InvRestart ==
  ASSUME Inv, Restart
  PROVE  Inv'
<1>1. TypeOK'
  BY TypeRestart DEF Inv
<1>2. /\ \A r \in Requests : pc'[r] = "idle"
      /\ \A k \in Keys : queue'[k] = <<>>
  BY DEF Restart
<1>3. TurnsHeld'
  BY <1>2 DEF TurnsHeld, TurnPcs
<1>4. DecidesUnblocked'
  BY <1>2 DEF DecidesUnblocked
<1> QED  BY <1>1, <1>3, <1>4 DEF Inv

LEMMA RInvariance == RSpec => []Inv
<1>1. RInit => Inv
  BY TypeInit, TurnsInit, DecidesInit DEF RInit, Inv
<1>2. Inv /\ [RNext]_rvars => Inv'
  <2>1. Inv /\ [Next]_vars => Inv'
    BY TypeStep, TurnsStep, DecidesStep DEF Inv
  <2> QED  BY <2>1, InvRestart DEF RNext, rvars
<1> QED  BY <1>1, <1>2, PTL DEF RSpec

\* The types of the jail's state hold in every life of the process, for any
\* number of restarts (redis/client.js:5-6).
THEOREM TypeCorrectInEveryLife == RSpec => []TypeOK
<1>1. Inv => TypeOK  BY DEF Inv
<1> QED  BY <1>1, RInvariance, PTL

\* The locks exclude, and decisions stand, in every life (blocklist.js:23,
\* index.js:117-123).
THEOREM DecisionsStandInEveryLife == RSpec => [](TurnsHeld /\ DecidesUnblocked)
<1>1. Inv => TurnsHeld /\ DecidesUnblocked  BY DEF Inv
<1> QED  BY <1>1, RInvariance, PTL

-----------------------------------------------------------------------------
(* One escalation per block                                                 *)

\* A restart lands a count only where a turn awaits its INCR, and that turn
\* has seen its key unblocked (blocklist.js:93).
LEMMA OneEscalationRestart ==
  ASSUME Inv, Restart, NEW k \in Keys, Escalated(k)
  PROVE  NotChargedAgain(k)
<1>1. memoryStore'[k].reason = "none" /\ memoryViolations'[k].count = 0
  BY DEF Restart, Unblocked, NoCount
<1>2. ~Awaits(k, "incr")
  <2>1. SUFFICES ASSUME Awaits(k, "incr") PROVE FALSE
    OBVIOUS
  <2> DEFINE r == Head(queue[k])
  <2>2. queue[k] \in Seq(Requests) /\ queue[k] # <<>> /\ pc[r] = "incr"
    BY <2>1 DEF Inv, TypeOK, Awaits
  <2>3. r \in Requests /\ 1 \in DOMAIN queue[k] /\ queue[k][1] = r
    BY <2>2
  <2>4. Key(r) = k
    BY <2>3 DEF Inv, TurnsHeld
  <2> QED  BY <2>2, <2>3, <2>4 DEF Inv, DecidesUnblocked
<1>3. LandedCount(k).count = redisViolations[k].count
  <2>1. redisViolations[k] \in [count : 0..ViolationCap, left : {NoTtl} \cup 0..ViolationWindow]
    BY DEF Inv, TypeOK, StoreTypeOK
  <2> QED  BY <1>2, <2>1 DEF LandedCount
<1>4. redisViolations'[k].count = redisViolations[k].count
  BY <1>3 DEF Restart, Land
<1> QED  BY <1>1, <1>4, NumberTypes DEF NotChargedAgain, Inv

\* ARM-02 across restarts: no step of any life, and no stop of the process,
\* charges a key again or lengthens its block while its own escalation is in
\* force (blocklist.js:25-34).
THEOREM EscalatesOnceInEveryLife == RSpec => OneEscalationPerBlock
<1>1. Inv /\ [RNext]_rvars =>
        [\A k \in Keys : Escalated(k) =>
            /\ memoryStore'[k].reason = "escalated"
                  => memoryStore'[k].left <= memoryStore[k].left
            /\ memoryViolations'[k].count <= memoryViolations[k].count
            /\ redisViolations'[k].count <= redisViolations[k].count]_vars
  BY OneEscalationStep, OneEscalationRestart DEF NotChargedAgain, RNext, rvars
<1> QED  BY <1>1, RInvariance, PTL DEF RSpec, OneEscalationPerBlock

-----------------------------------------------------------------------------
(* Blocks outlive the process                                               *)

\* In a new life nothing is on the connection, nobody relies on anything, and
\* nothing reached a Redis that is down.
LEMMA ListedRestart ==
  ASSUME Unreached, Restart
  PROVE  Unreached' /\ Listed'
<1>1. wire' = <<>> /\ regime' = regime /\ \A r \in Requests : pc'[r] = "idle"
  BY DEF Restart, DrainWire
<1>2. DOMAIN wire' = {}
  BY <1>1
<1>3. Listed'
  BY <1>1, <1>2 DEF Listed, SetsAwaited, PendingUnblocked, Pending, Decided
<1>4. ASSUME regime \subseteq {"lost"}, NEW k \in Keys
      PROVE  redisStore'[k] = 0 /\ redisJail'[k] = 0
  <2>1. ~Reachable /\ redisStore[k] = 0 /\ redisJail[k] = 0
    BY <1>4 DEF Unreached, Reachable, Applied
  <2>2. redisStore'[k] = Drained(k, 0) /\ redisJail'[k] = redisJail[k]
    BY <2>1 DEF Restart, DrainWire, Land
  <2>3. LastSet(k, 0) = {}
    BY DEF LastSet
  <2> QED  BY <2>1, <2>2, <2>3 DEF Drained
<1> QED  BY <1>1, <1>3, <1>4 DEF Unreached

LEMMA ListedInvariance == ASSUME Undisturbed PROVE RSpec => [](Listed /\ Unreached)
<1>1. RInit => Listed /\ Unreached
  BY ListedInit DEF RInit
<1>2. Inv /\ (Listed /\ Unreached) /\ [RNext]_rvars => (Listed /\ Unreached)'
  <2>1. [RNext]_rvars => [Next]_vars \/ Restart
    BY DEF RNext, rvars
  <2> QED  BY <2>1, ListedStep, UnreachedStep, ListedRestart DEF Inv
<1> QED  BY <1>1, <1>2, RInvariance, PTL DEF RSpec

\* What a step may do to a key that Redis lists as blocked.
NotHeldAgainst(k) ==
    /\ redisViolations'[k].count <= redisViolations[k].count
    /\ memoryViolations'[k].count <= memoryViolations[k].count
    /\ redisJail'[k] <= redisJail[k]

\* What Redis keeps of a key in jail is a number, for the comparison.
LEMMA JailNumber ==
  ASSUME TypeOK, NEW k \in Keys
  PROVE  redisJail[k] \in Nat
  BY DurationAssumption DEF TypeOK, StoreTypeOK

\* A step that leaves the key's counts and stays alone.
LEMMA UnheldKey ==
  ASSUME TypeOK, NEW k \in Keys,
         redisViolations'[k] = redisViolations[k],
         memoryViolations'[k] = memoryViolations[k],
         redisJail'[k] = redisJail[k]
  PROVE  NotHeldAgainst(k)
  BY NumberTypes, JailNumber DEF NotHeldAgainst

\* Only a turn at work on the key charges it or places it in jail, and such a
\* turn has found the key unlisted (index.js:113, 213).
LEMMA UnheldStep ==
  ASSUME Undisturbed, Inv, Listed, [Next]_vars, NEW k \in Keys, redisStore[k] # 0
  PROVE  NotHeldAgainst(k)
<1> USE DEF Pending, Decided
<1>1. TypeOK
  BY DEF Inv
<1>2. ASSUME UNCHANGED <<redisViolations, memoryViolations, redisJail>>
      PROVE  NotHeldAgainst(k)
  BY <1>1, <1>2, UnheldKey
<1>3. ASSUME NEW r \in Requests, Arrive(r) PROVE NotHeldAgainst(k)
  BY <1>2, <1>3 DEF Arrive, store, memory, redis
<1>4. ASSUME NEW r \in Requests, NEW o \in regime, RedisStep(r, o)
      PROVE  NotHeldAgainst(k)
  <2>1. CASE IncrViolations(r, o) \/ ExpireViolations(r, o)
    <3>1. Key(r) # k /\ redisJail' = redisJail
      BY <2>1 DEF IncrViolations, ExpireViolations, Listed, PendingUnblocked
    <3>2. NotChargedAgain(k)
      BY <1>1, <2>1, <3>1, ChargesOneKey, UntouchedKey
    <3> QED  BY <1>1, <3>1, <3>2, JailNumber DEF NotChargedAgain, NotHeldAgainst
  <2>2. CASE PlaceInJail(r, o)
    <3>1. Key(r) # k
      BY <2>2 DEF PlaceInJail, Listed, PendingUnblocked
    <3>2. redisJail'[k] = redisJail[k]
      BY <1>1, <2>2, <3>1 DEF PlaceInJail, JailInRedis, TypeOK, StoreTypeOK
    <3>3. UNCHANGED <<redisViolations, memoryViolations>>
      BY <2>2 DEF PlaceInJail, memory
    <3> QED  BY <1>1, <3>2, <3>3, UnheldKey
  <2>3. CASE ReleaseJail(r, o)
    <3>1. redisJail'[k] = redisJail[k] \/ redisJail'[k] = 0
      BY <1>1, <2>3 DEF ReleaseJail, ReleaseInRedis, TypeOK, StoreTypeOK
    <3>2. UNCHANGED <<redisViolations, memoryViolations>>
      BY <2>3 DEF ReleaseJail, memory
    <3> QED  BY <1>1, <3>1, <3>2, NumberTypes, JailNumber DEF NotHeldAgainst
  <2>4. CASE GuardCheck(r, o) \/ Recheck(r, o) \/ CheckJail(r, o) \/ SetBlock(r, o)
    BY <1>2, <2>4 DEF GuardCheck, Recheck, CheckJail, SetBlock, store, memory, redis
  <2> QED  BY <1>4, <2>1, <2>2, <2>3, <2>4 DEF RedisStep
<1>5. ASSUME NEW r \in Requests, Step(r) PROVE NotHeldAgainst(k)
  <2>1. CASE JailLimit(r) \/ Forward(r) \/ Reply(r) \/ RecordOutcome(r) \/ FailLimit(r)
    BY <1>2, <2>1 DEF JailLimit, Forward, Reply, RecordOutcome, FailLimit, store, memory, redis
  <2> QED  BY <1>4, <1>5, <2>1 DEF Step
<1>6. CASE Tick
  <2>1. redisJail'[k] = Less(redisJail[k])
    BY <1>6 DEF Tick, StoreTick
  <2>2. redisJail'[k] <= redisJail[k]
    BY <1>1, <2>1, JailNumber DEF Less
  <2> QED  BY <1>1, <1>6, <2>2, TickCounts DEF NotHeldAgainst
<1>7. CASE UNCHANGED vars
  BY <1>2, <1>7 DEF vars, store, memory, redis
<1>8. Admins = {}
  BY DEF Undisturbed
<1> QED  BY <1>3, <1>5, <1>6, <1>7, <1>8 DEF Next

\* Of the commands that a stop leaves to land, none is about a listed key but
\* the DEL of its jail (blocklist.js:93, 121, 151).
LEMMA UnheldRestart ==
  ASSUME Inv, Listed, Restart, NEW k \in Keys, redisStore[k] # 0
  PROVE  NotHeldAgainst(k)
<1>1. TypeOK
  BY DEF Inv
<1>2. ASSUME NEW p \in Pending, Awaits(k, p) PROVE FALSE
  <2> DEFINE r == Head(queue[k])
  <2>1. queue[k] \in Seq(Requests) /\ queue[k] # <<>> /\ pc[r] = p
    BY <1>1, <1>2 DEF TypeOK, Awaits
  <2>2. r \in Requests /\ 1 \in DOMAIN queue[k] /\ queue[k][1] = r
    BY <2>1
  <2>3. Key(r) = k
    BY <2>2 DEF Inv, TurnsHeld
  <2> QED  BY <2>1, <2>2, <2>3 DEF Listed, PendingUnblocked
<1>3. ~Awaits(k, "incr") /\ ~Awaits(k, "expire") /\ ~Awaits(k, "place")
  BY <1>2 DEF Pending, Decided
<1>4. LandedCount(k) = redisViolations[k]
  BY <1>3 DEF LandedCount
<1>5. LandedJail(k) \in {0, redisJail[k]}
  BY <1>3 DEF LandedJail
<1>6. redisViolations'[k] = redisViolations[k] /\ redisJail'[k] \in {0, redisJail[k]}
  BY <1>4, <1>5 DEF Restart, Land
<1>7. memoryViolations'[k].count = 0
  BY DEF Restart, NoCount
<1> QED  BY <1>1, <1>6, <1>7, NumberTypes, JailNumber DEF NotHeldAgainst

\* Blocks outlive the process (redis/client.js:5-6): with Redis up, or down,
\* throughout and no admin, no life of the process charges a key that Redis
\* lists as blocked, or places it in jail, for any numbers of requests, keys
\* and restarts.
THEOREM BlocksOutliveProcess == ASSUME Undisturbed PROVE RSpec => BlockOutlivesProcess
<1>1. Inv /\ Listed /\ Unreached /\ [RNext]_rvars =>
        [\A k \in Keys : redisStore[k] # 0 =>
            /\ redisViolations'[k].count <= redisViolations[k].count
            /\ memoryViolations'[k].count <= memoryViolations[k].count
            /\ redisJail'[k] <= redisJail[k]]_rvars
  <2>1. [RNext]_rvars => [Next]_vars \/ Restart
    BY DEF RNext, rvars
  <2> QED  BY <2>1, UnheldStep, UnheldRestart DEF NotHeldAgainst
<1> QED  BY <1>1, RInvariance, ListedInvariance, PTL DEF RSpec, BlockOutlivesProcess
=============================================================================
