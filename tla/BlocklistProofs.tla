-------------------------- MODULE BlocklistProofs --------------------------
(***************************************************************************)
(* Lemmas about the stores of Blocklist: what each command leaves behind   *)
(* has the type the stores have, whatever Redis did with it, and block     *)
(* keeps the mirror backed by Redis as long as Redis answers.              *)
(***************************************************************************)
EXTENDS Blocklist, SequenceTheorems, TLAPS

\* The doubling block is a duration (blocklist.js:101).
LEMMA BlockTtlType ==
  ASSUME NEW count \in 1..ViolationCap
  PROVE  BlockTtl(count) \in Durations /\ BlockTtl(count) > 0
<1>1. /\ MaxBlock \in Nat \ {0} /\ ManualBlock \in Nat \ {0} /\ BaseBlock \in Nat \ {0}
      /\ ViolationCap \in Nat
  BY DurationAssumption, CapAssumption
<1>2. count - 1 \in 0..(ViolationCap - 1)
  BY <1>1
<1>3. 2^(count - 1) \in Nat \ {0}
  BY <1>2, CapAssumption
<1> DEFINE p == 2^(count - 1)
<1> HIDE DEF p
<1>4. p \in Nat \ {0}
  BY <1>3 DEF p
<1>5. BaseBlock * p \in Nat \ {0}
  BY <1>1, <1>4
<1>6. Least(MaxBlock, BaseBlock * p) \in Durations /\ Least(MaxBlock, BaseBlock * p) > 0
  BY <1>1, <1>5 DEF Least, Durations
<1> QED  BY <1>6 DEF BlockTtl, p

\* The first violation of a series earns the base block (blocklist.js:101).
LEMMA FirstBlock == BlockTtl(1) = Least(MaxBlock, BaseBlock)
<1>1. 2^0 = 1 /\ BaseBlock \in Nat
  BY DurationAssumption
<1>2. BaseBlock * 2^0 = BaseBlock
  BY <1>1
<1> QED  BY <1>2 DEF BlockTtl

\* Each further one doubles the block up to the cap, and the counts that the
\* model does not tell apart earn the cap alike (blocklist.js:79-83, 101).
LEMMA BlockDoubles ==
  ASSUME NEW count \in 1..ViolationCap
  PROVE  BlockTtl(CountUpTo(count + 1)) = Least(MaxBlock, 2 * BlockTtl(count))
<1>1. MaxBlock \in Nat \ {0} /\ BaseBlock \in Nat \ {0} /\ ViolationCap \in Nat
  BY DurationAssumption, CapAssumption
<1> DEFINE p == 2^(count - 1)
<1>2. p \in Nat \ {0}
  BY <1>1, CapAssumption
<1>3. CASE count < ViolationCap
  <2>1. CountUpTo(count + 1) = count + 1
    BY <1>1, <1>3 DEF CountUpTo, Least
  <2>2. 2^count = 2 * p
    <3>1. count - 1 \in 0..(ViolationCap - 2) /\ (count - 1) + 1 = count
      BY <1>1, <1>3
    <3> QED  BY <3>1, PowerAssumption
  <2> HIDE DEF p
  <2>3. BaseBlock * (2 * p) = 2 * (BaseBlock * p) /\ BaseBlock * p \in Nat
    BY <1>1, <1>2
  <2>4. Least(MaxBlock, BaseBlock * (2 * p)) = Least(MaxBlock, 2 * Least(MaxBlock, BaseBlock * p))
    BY <1>1, <2>3 DEF Least
  <2>5. (count + 1) - 1 = count
    BY <1>1
  <2> QED  BY <2>1, <2>2, <2>4, <2>5 DEF BlockTtl, p
<1>4. CASE count = ViolationCap
  <2>1. CountUpTo(count + 1) = count
    BY <1>1, <1>4 DEF CountUpTo, Least
  <2>2. BlockTtl(count) = MaxBlock
    <3>1. BaseBlock * p \in Nat /\ BaseBlock * p >= MaxBlock
      BY <1>1, <1>2, <1>4, CapAssumption
    <3> HIDE DEF p
    <3>2. Least(MaxBlock, BaseBlock * p) = MaxBlock
      BY <1>1, <3>1 DEF Least
    <3> QED  BY <3>2 DEF BlockTtl, p
  <2> QED  BY <1>1, <2>1, <2>2 DEF Least
<1> QED  BY <1>1, <1>3, <1>4

\* block up to its await keeps the types (blocklist.js:46-51).
LEMMA StartBlockType ==
  ASSUME StoreTypeOK, NEW w \in Writers, NEW k \in Keys, NEW ttl \in Durations,
         NEW reason \in Reasons, StartBlock(w, k, ttl, reason)
  PROVE  /\ memoryStore' \in
              [Keys -> [left : Durations, reason : Reasons]]
         /\ wire' \in Seq([by : Writers, key : Keys, ttl : Durations])
  BY DEF StoreTypeOK, StartBlock

\* The answer to the SET keeps the types (blocklist.js:51-55).
LEMMA EndBlockType ==
  ASSUME StoreTypeOK, NEW w, NEW o, EndBlock(w, o)
  PROVE  /\ redisStore' \in [Keys -> Durations]
         /\ wire' \in Seq([by : Writers, key : Keys, ttl : Durations])
<1> DEFINE Command == [by : Writers, key : Keys, ttl : Durations]
<1>1. wire \in Seq(Command) /\ redisStore \in [Keys -> Durations]
  BY DEF StoreTypeOK
<1>2. PICK i \in DOMAIN wire :
        /\ wire' = Without(wire, i)
        /\ redisStore' = IF Applied(o) THEN [redisStore EXCEPT ![wire[i].key] = wire[i].ttl]
                         ELSE redisStore
  BY DEF EndBlock
<1>3. \A c \in Command : c.ttl \in Durations
  OBVIOUS
<1> HIDE DEF Command
<1>4. wire[i] \in Command /\ i \in 1..Len(wire) /\ Len(wire) \in Nat
  BY <1>1, ElementOfSeq, LenProperties
<1>5. redisStore' \in [Keys -> Durations]
  BY <1>1, <1>2, <1>3, <1>4
<1>6. SubSeq(wire, 1, i - 1) \in Seq(Command)
  BY <1>1, <1>4, SubSeqProperties
<1>7. SubSeq(wire, i + 1, Len(wire)) \in Seq(Command)
  BY <1>1, <1>4, SubSeqProperties
<1>8. Without(wire, i) \in Seq(Command)
  BY <1>6, <1>7, ConcatProperties DEF Without
<1> QED  BY <1>2, <1>5, <1>8 DEF Command

\* The answer to a SET of w takes that command off the connection, whichever
\* place it has there, and leaves the others in their order (blocklist.js:51).
LEMMA EndBlockTakes ==
  ASSUME StoreTypeOK, NEW w, NEW o, EndBlock(w, o)
  PROVE  \E i \in DOMAIN wire :
           /\ wire[i].by = w
           /\ Applied(o) => i = 1
           /\ redisStore' = IF Applied(o) THEN [redisStore EXCEPT ![wire[i].key] = wire[i].ttl]
                            ELSE redisStore
           /\ DOMAIN wire' = 1..(Len(wire) - 1)
           /\ \A j \in DOMAIN wire' :
                 /\ j \in Nat
                 /\ j < i => j \in DOMAIN wire /\ wire'[j] = wire[j]
                 /\ j >= i => j + 1 \in DOMAIN wire /\ wire'[j] = wire[j + 1]
<1> DEFINE Command == [by : Writers, key : Keys, ttl : Durations]
<1>1. wire \in Seq(Command)
  BY DEF StoreTypeOK
<1> HIDE DEF Command
<1>2. PICK i \in DOMAIN wire :
        /\ wire[i].by = w
        /\ Applied(o) => i = 1
        /\ wire' = Without(wire, i)
        /\ redisStore' = IF Applied(o) THEN [redisStore EXCEPT ![wire[i].key] = wire[i].ttl]
                         ELSE redisStore
  BY DEF EndBlock
<1>3. Len(wire) \in Nat /\ DOMAIN wire = 1..Len(wire) /\ i \in 1..Len(wire)
  BY <1>1, <1>2, LenProperties
<1> DEFINE before == SubSeq(wire, 1, i - 1)
           after == SubSeq(wire, i + 1, Len(wire))
<1>4. \A j \in 1..Len(wire) : wire[j] \in Command
  BY <1>1, <1>3, ElementOfSeq
<1>5. /\ before \in Seq(Command) /\ Len(before) = i - 1
      /\ \A j \in 1..(i - 1) : before[j] = wire[j]
  <2>1. \A j \in 1..(i - 1) : wire[j] \in Command
    BY <1>3, <1>4
  <2>2. /\ before \in Seq(Command)
        /\ Len(before) = IF 1 <= i - 1 THEN i - 1 - 1 + 1 ELSE 0
        /\ \A j \in 1..(i - 1 - 1 + 1) : before[j] = wire[1 + j - 1]
    BY <1>3, <2>1, SubSeqProperties
  <2> QED  BY <1>3, <2>2
<1>6. /\ after \in Seq(Command) /\ Len(after) = Len(wire) - i
      /\ \A j \in 1..(Len(wire) - i) : after[j] = wire[i + j]
  <2>1. \A j \in (i + 1)..Len(wire) : wire[j] \in Command
    BY <1>3, <1>4
  <2>2. /\ after \in Seq(Command)
        /\ Len(after) = IF i + 1 <= Len(wire) THEN Len(wire) - (i + 1) + 1 ELSE 0
        /\ \A j \in 1..(Len(wire) - (i + 1) + 1) : after[j] = wire[i + 1 + j - 1]
    BY <1>3, <2>1, SubSeqProperties
  <2> QED  BY <1>3, <2>2
<1> HIDE DEF before, after
<1>7. wire' = before \o after
  BY <1>2 DEF Without, before, after
<1>8. /\ DOMAIN wire' = 1..(Len(wire) - 1)
      /\ \A j \in 1..(Len(wire) - 1) :
            wire'[j] = IF j <= i - 1 THEN before[j] ELSE after[j - (i - 1)]
  <2>1. /\ Len(before \o after) = Len(before) + Len(after)
        /\ before \o after \in Seq(Command)
        /\ \A j \in 1..(Len(before) + Len(after)) :
              (before \o after)[j] =
                 IF j <= Len(before) THEN before[j] ELSE after[j - Len(before)]
    BY <1>5, <1>6, ConcatProperties
  <2>2. DOMAIN (before \o after) = 1..Len(before \o after)
    BY <2>1, LenProperties
  <2> QED  BY <1>3, <1>5, <1>6, <1>7, <2>1, <2>2
<1>9. ASSUME NEW j \in DOMAIN wire'
      PROVE  /\ j \in Nat
             /\ j < i => j \in DOMAIN wire /\ wire'[j] = wire[j]
             /\ j >= i => j + 1 \in DOMAIN wire /\ wire'[j] = wire[j + 1]
  <2>1. j \in Nat /\ 1 <= j /\ j <= Len(wire) - 1
    BY <1>3, <1>8
  <2>2. CASE j < i
    BY <1>3, <1>5, <1>8, <2>1, <2>2
  <2>3. CASE j >= i
    <3>1. j - (i - 1) \in 1..(Len(wire) - i) /\ i + (j - (i - 1)) = j + 1
      BY <1>3, <2>1, <2>3
    <3>2. wire'[j] = after[j - (i - 1)]
      BY <1>3, <1>8, <2>1, <2>3
    <3> QED  BY <1>3, <1>6, <2>1, <2>3, <3>1, <3>2
  <2> QED  BY <1>3, <2>1, <2>2, <2>3
<1> QED  BY <1>2, <1>8, <1>9

\* What the broken connection leaves in Redis has the store's type
\* (blocklist.js:51).
LEMMA DrainType ==
  ASSUME StoreTypeOK, DrainWire
  PROVE  /\ redisStore' \in [Keys -> Durations]
         /\ wire' \in Seq([by : Writers, key : Keys, ttl : Durations])
<1> DEFINE Command == [by : Writers, key : Keys, ttl : Durations]
<1>1. wire \in Seq(Command) /\ redisStore \in [Keys -> Durations]
  BY DEF StoreTypeOK
<1>2. PICK n \in 0..Len(wire) : redisStore' = [k \in Keys |-> Drained(k, n)]
  <2>1. Len(wire) \in Nat  BY <1>1, LenProperties
  <2> QED  BY <2>1 DEF DrainWire
<1>3. ASSUME NEW k \in Keys PROVE Drained(k, n) \in Durations
  <2>1. ASSUME NEW i \in LastSet(k, n) PROVE wire[i].ttl \in Durations
    <3>1. i \in 1..Len(wire)
      <4>1. Len(wire) \in Nat  BY <1>1, LenProperties
      <4> QED  BY <1>2, <2>1, <4>1 DEF LastSet
    <3>2. wire[i] \in Command
      BY <1>1, <3>1, ElementOfSeq
    <3> QED  BY <3>2
  <2> QED  BY <1>1, <2>1 DEF Drained
<1> QED  BY <1>2, <1>3 DEF DrainWire

\* Of a key it has what it had, or what one of the SETs says (blocklist.js:51).
LEMMA DrainedFromWire ==
  ASSUME StoreTypeOK, DrainWire, NEW k \in Keys
  PROVE  \/ redisStore'[k] = redisStore[k]
         \/ \E i \in DOMAIN wire : wire[i].key = k /\ redisStore'[k] = wire[i].ttl
<1>1. Len(wire) \in Nat /\ DOMAIN wire = 1..Len(wire)
  BY LenProperties DEF StoreTypeOK
<1>2. PICK n \in 0..Len(wire) : redisStore' = [l \in Keys |-> Drained(l, n)]
  BY <1>1 DEF DrainWire
<1>3. \A i \in LastSet(k, n) : i \in DOMAIN wire /\ wire[i].key = k
  BY <1>1, <1>2 DEF LastSet
<1> QED  BY <1>2, <1>3 DEF Drained

\* INCR and EXPIRE keep the type of the counter, and an INCR that was
\* acknowledged leaves a count of at least one (blocklist.js:93-94).
LEMMA IncrType ==
  ASSUME StoreTypeOK, NEW k \in Keys, NEW o \in AllOutcomes
  PROVE  /\ RedisCount(k, o) \in 0..ViolationCap
         /\ Acked(o) => RedisCount(k, o) \in 1..ViolationCap
         /\ Incr(k, o) => redisViolations' \in
              [Keys -> [count : 0..ViolationCap, left : {NoTtl} \cup 0..ViolationWindow]]
<1>1. /\ ViolationCap \in Nat /\ ViolationCap >= 2 /\ ViolationWindow \in Nat
      /\ redisViolations \in
           [Keys -> [count : 0..ViolationCap, left : {NoTtl} \cup 0..ViolationWindow]]
  BY CapAssumption, DurationAssumption DEF StoreTypeOK
<1>2. /\ RedisCount(k, o) \in 0..ViolationCap
      /\ Acked(o) => RedisCount(k, o) \in 1..ViolationCap
  BY <1>1 DEF RedisCount, CountUpTo, Least, Increments, Acked
<1>3. ASSUME Incr(k, o)
      PROVE  redisViolations' \in
               [Keys -> [count : 0..ViolationCap, left : {NoTtl} \cup 0..ViolationWindow]]
  BY <1>1, <1>2, <1>3 DEF Incr
<1> QED  BY <1>2, <1>3

\* EXPIRE keeps the type of the violations (blocklist.js:94).
LEMMA ExpireType ==
  ASSUME StoreTypeOK, NEW k \in Keys, NEW o, Expire(k, o)
  PROVE  redisViolations' \in
           [Keys -> [count : 0..ViolationCap, left : {NoTtl} \cup 0..ViolationWindow]]
<1> DEFINE Counter == [count : 0..ViolationCap, left : {NoTtl} \cup 0..ViolationWindow]
<1>1. redisViolations \in [Keys -> Counter] /\ ViolationWindow \in 0..ViolationWindow
  BY DurationAssumption DEF StoreTypeOK
<1>2. \A c \in Counter : [c EXCEPT !.left = ViolationWindow] \in Counter
  BY <1>1
<1>3. redisViolations' = redisViolations
      \/ redisViolations' =
            [redisViolations EXCEPT ![k] = [redisViolations[k] EXCEPT !.left = ViolationWindow]]
  BY <1>1 DEF Expire
<1> HIDE DEF Counter
<1>4. redisViolations' \in [Keys -> Counter]
  BY <1>1, <1>2, <1>3
<1> QED  BY <1>4 DEF Counter

\* The fallback count keeps its type and is at least one (blocklist.js:96-98).
LEMMA CountInMemoryType ==
  ASSUME StoreTypeOK, NEW k \in Keys
  PROVE  /\ MemoryCount(k) \in 1..ViolationCap
         /\ CountInMemory(k) => memoryViolations' \in
              [Keys -> [count : 0..ViolationCap, left : 0..ViolationWindow]]
<1>1. /\ ViolationCap \in Nat /\ ViolationCap >= 2 /\ ViolationWindow \in Nat
      /\ memoryViolations \in [Keys -> [count : 0..ViolationCap, left : 0..ViolationWindow]]
  BY CapAssumption, DurationAssumption DEF StoreTypeOK
<1>2. MemoryCount(k) \in 1..ViolationCap
  BY <1>1 DEF MemoryCount, CountUpTo, Least
<1> QED  BY <1>1, <1>2 DEF CountInMemory

\* Placing in jail and releasing from it keep the types (blocklist.js:117-155).
LEMMA JailType ==
  ASSUME StoreTypeOK, NEW k \in Keys, NEW o
  PROVE  /\ JailInMemory(k) \/ ReleaseInMemory(k) => memoryJail' \in [Keys -> 0..JailTtl]
         /\ JailInRedis(k, o) \/ ReleaseInRedis(k, o) => redisJail' \in [Keys -> 0..JailTtl]
<1>1. /\ memoryJail \in [Keys -> 0..JailTtl] /\ redisJail \in [Keys -> 0..JailTtl]
      /\ JailTtl \in 0..JailTtl /\ 0 \in 0..JailTtl
  BY DurationAssumption DEF StoreTypeOK
<1>2. JailInMemory(k) \/ ReleaseInMemory(k) => memoryJail' \in [Keys -> 0..JailTtl]
  BY <1>1 DEF JailInMemory, ReleaseInMemory
<1>3. JailInRedis(k, o) \/ ReleaseInRedis(k, o) => redisJail' \in [Keys -> 0..JailTtl]
  BY <1>1 DEF JailInRedis, ReleaseInRedis
<1> QED  BY <1>2, <1>3

\* The clock keeps the types: every entry has one tick less, or is gone.
LEMMA StoreTickType ==
  ASSUME StoreTypeOK, StoreTick
  PROVE  StoreTypeOK'
<1> DEFINE Entry == [left : Durations, reason : Reasons]
           Counter(lefts) == [count : 0..ViolationCap, left : lefts]
<1>1. /\ JailTtl \in Nat /\ MaxBlock \in Nat /\ ManualBlock \in Nat
      /\ ViolationWindow \in Nat /\ ViolationCap \in Nat
  BY DurationAssumption, CapAssumption
<1>2. ASSUME NEW e \in Entry PROVE AgeBlock(e) \in Entry
  BY <1>1 DEF AgeBlock, Unblocked, Durations, Reasons
<1>3. ASSUME NEW c \in Counter(0..ViolationWindow)
      PROVE  AgeCount(c) \in Counter(0..ViolationWindow)
  BY <1>1 DEF AgeCount, Less, NoCount
<1>4. ASSUME NEW c \in Counter({NoTtl} \cup 0..ViolationWindow)
      PROVE  AgeCount(c) \in Counter({NoTtl} \cup 0..ViolationWindow)
  <2>1. CASE c.left = 1
    BY <2>1, <1>1 DEF AgeCount, NoCount
  <2>2. CASE c.left # 1
    <3>1. Less(c.left) \in {NoTtl} \cup 0..ViolationWindow
      BY <1>1 DEF Less, NoTtl
    <3> QED  BY <2>2, <3>1 DEF AgeCount
  <2> QED  BY <2>1, <2>2
<1>5. /\ \A n \in 0..JailTtl : Less(n) \in 0..JailTtl
      /\ \A n \in Durations : Less(n) \in Durations
  BY <1>1 DEF Less, Durations
<1> HIDE DEF Entry, Counter
<1>6. memoryStore' \in [Keys -> Entry]
  BY <1>2 DEF StoreTypeOK, StoreTick, Entry
<1>7. memoryJail' \in [Keys -> 0..JailTtl] /\ redisJail' \in [Keys -> 0..JailTtl]
  BY <1>5 DEF StoreTypeOK, StoreTick
<1>8. redisStore' \in [Keys -> Durations]
  BY <1>5 DEF StoreTypeOK, StoreTick
<1>9. memoryViolations' \in [Keys -> Counter(0..ViolationWindow)]
  BY <1>3 DEF StoreTypeOK, StoreTick, Counter
<1>10. redisViolations' \in [Keys -> Counter({NoTtl} \cup 0..ViolationWindow)]
  BY <1>4 DEF StoreTypeOK, StoreTick, Counter
<1>11. wire' = wire /\ regime' = regime
  BY DEF StoreTick
<1> QED  BY <1>6, <1>7, <1>8, <1>9, <1>10, <1>11 DEF StoreTypeOK, Entry, Counter

\* The stores start empty.
LEMMA StoreInitType == StoreInit => StoreTypeOK
  BY DurationAssumption, CapAssumption
     DEF StoreInit, StoreTypeOK, Unblocked, NoCount, Durations, Reasons
-----------------------------------------------------------------------------
(* What the mirror enforces, Redis has or is about to get                   *)

\* The SET of i is the newest of its key on the connection.
Newest(k, i) ==
    wire[i].key = k /\ \A j \in DOMAIN wire : j > i => wire[j].key # k

\* As long as Redis answers, the newest SET of a key that the mirror blocks
\* blocks it for as long; and Redis itself does, once no SET is on its way.
\* The mirror is set in the order the SETs are sent (blocklist.js:46-51).
Backed(k) ==
    regime \subseteq {"ok", "resent"} /\ memoryStore[k].left > 0 =>
        /\ \A i \in DOMAIN wire : Newest(k, i) => wire[i].ttl >= memoryStore[k].left
        /\ (\A i \in DOMAIN wire : wire[i].key # k)
               => redisStore[k] >= memoryStore[k].left

\* The ticks of an entry are numbers.
LEMMA BlockNumbers ==
  ASSUME StoreTypeOK, NEW k \in Keys
  PROVE  memoryStore[k].left \in Nat /\ redisStore[k] \in Nat
<1>1. Durations \subseteq Nat
  BY DurationAssumption DEF Durations
<1> QED  BY <1>1 DEF StoreTypeOK

\* Up to its await block sets the mirror and sends the SET (blocklist.js:46-51).
LEMMA StartBlockBacks ==
  ASSUME StoreTypeOK, NEW w \in Writers, NEW k \in Keys, NEW ttl \in Durations, NEW reason,
         StartBlock(w, k, ttl, reason), UNCHANGED <<redisStore, regime>>,
         NEW l \in Keys, Backed(l)
  PROVE  Backed(l)'
<1> DEFINE Command == [by : Writers, key : Keys, ttl : Durations]
           set == [by |-> w, key |-> k, ttl |-> ttl]
           n == Len(wire)
<1>1. set \in Command /\ set.key = k /\ set.ttl = ttl /\ ttl \in Nat
  BY DurationAssumption DEF Durations
<1>2. wire \in Seq(Command) /\ wire' = Append(wire, set)
  BY DEF StoreTypeOK, StartBlock
<1>3. memoryStore' = [memoryStore EXCEPT ![k] = [left |-> ttl, reason |-> reason]]
  BY DEF StartBlock
<1> HIDE DEF Command, set
<1>4. /\ n \in Nat /\ DOMAIN wire = 1..n /\ DOMAIN wire' = 1..(n + 1)
      /\ wire'[n + 1] = set /\ \A i \in 1..n : wire'[i] = wire[i]
  BY <1>1, <1>2
<1> HIDE DEF n
<1>5. CASE l = k
  <2>1. memoryStore'[l].left = ttl
    BY <1>3, <1>5 DEF StoreTypeOK
  <2>2. \A i \in DOMAIN wire' : Newest(l, i)' => i = n + 1
    BY <1>1, <1>4, <1>5 DEF Newest
  <2> QED  BY <1>1, <1>4, <1>5, <2>1, <2>2 DEF Backed
<1>6. CASE l # k
  <2>1. memoryStore'[l] = memoryStore[l]
    BY <1>3, <1>6 DEF StoreTypeOK
  <2>2. \A i \in DOMAIN wire' : Newest(l, i)' =>
            i \in DOMAIN wire /\ wire'[i] = wire[i] /\ Newest(l, i)
    BY <1>1, <1>4, <1>6 DEF Newest
  <2>3. (\A i \in DOMAIN wire' : wire'[i].key # l) => \A i \in DOMAIN wire : wire[i].key # l
    BY <1>4
  <2> QED  BY <2>1, <2>2, <2>3 DEF Backed
<1> QED  BY <1>5, <1>6

\* One connection applies the SETs in the order they were sent
\* (redis/client.js:9-18, blocklist.js:51).
LEMMA EndBlockBacks ==
  ASSUME StoreTypeOK, NEW w, NEW o \in regime, EndBlock(w, o),
         UNCHANGED <<memoryStore, regime>>, NEW l \in Keys, Backed(l)
  PROVE  Backed(l)'
<1> SUFFICES ASSUME regime \subseteq {"ok", "resent"}, memoryStore[l].left > 0
             PROVE  /\ \A i \in DOMAIN wire' : Newest(l, i)' => wire'[i].ttl >= memoryStore[l].left
                    /\ (\A i \in DOMAIN wire' : wire'[i].key # l)
                          => redisStore'[l] >= memoryStore[l].left
  BY DEF Backed
<1> DEFINE n == Len(wire)
<1>1. n \in Nat /\ DOMAIN wire = 1..n
  BY LenProperties DEF StoreTypeOK
<1>2. Applied(o)
  BY DEF Applied
<1>3. /\ 1 \in DOMAIN wire
      /\ redisStore' = [redisStore EXCEPT ![wire[1].key] = wire[1].ttl]
      /\ DOMAIN wire' = 1..(n - 1)
      /\ \A j \in DOMAIN wire' : j + 1 \in DOMAIN wire /\ wire'[j] = wire[j + 1]
  <2>1. PICK i \in DOMAIN wire :
          /\ Applied(o) => i = 1
          /\ redisStore' = IF Applied(o) THEN [redisStore EXCEPT ![wire[i].key] = wire[i].ttl]
                           ELSE redisStore
          /\ DOMAIN wire' = 1..(Len(wire) - 1)
          /\ \A j \in DOMAIN wire' :
                /\ j \in Nat
                /\ j >= i => j + 1 \in DOMAIN wire /\ wire'[j] = wire[j + 1]
    BY EndBlockTakes
  <2>2. \A j \in 1..(n - 1) : j >= 1
    BY <1>1
  <2> QED  BY <1>2, <2>1, <2>2
<1> HIDE DEF n
<1>4. \A j \in DOMAIN wire : j # 1 => j - 1 \in DOMAIN wire' /\ wire'[j - 1] = wire[j]
  BY <1>1, <1>3
<1>5. ASSUME NEW i \in DOMAIN wire', Newest(l, i)'
      PROVE  wire'[i].ttl >= memoryStore[l].left
  <2>1. ASSUME NEW j \in DOMAIN wire, j > i + 1 PROVE wire[j].key # l
    <3>1. j - 1 \in DOMAIN wire' /\ wire'[j - 1] = wire[j] /\ j - 1 > i
      BY <1>1, <1>3, <1>4, <2>1
    <3> QED  BY <1>5, <3>1 DEF Newest
  <2>2. Newest(l, i + 1)
    BY <1>3, <1>5, <2>1 DEF Newest
  <2> QED  BY <1>3, <2>2 DEF Backed
<1>6. ASSUME \A i \in DOMAIN wire' : wire'[i].key # l
      PROVE  redisStore'[l] >= memoryStore[l].left
  <2>1. \A j \in DOMAIN wire : j # 1 => wire[j].key # l
    BY <1>4, <1>6
  <2>2. CASE wire[1].key = l
    <3>1. Newest(l, 1)
      BY <1>1, <2>1, <2>2 DEF Newest
    <3>2. redisStore'[l] = wire[1].ttl
      BY <1>3, <2>2 DEF StoreTypeOK
    <3> QED  BY <1>3, <3>1, <3>2 DEF Backed
  <2>3. CASE wire[1].key # l
    <3>1. redisStore'[l] = redisStore[l]
      BY <1>3, <2>3 DEF StoreTypeOK
    <3>2. \A j \in DOMAIN wire : wire[j].key # l
      BY <2>1, <2>3
    <3> QED  BY <3>1, <3>2 DEF Backed
  <2> QED  BY <2>2, <2>3
<1> QED  BY <1>5, <1>6

\* The mirror and Redis count the same ticks.
LEMMA StoreTickBacks ==
  ASSUME StoreTypeOK, StoreTick, NEW l \in Keys, Backed(l)
  PROVE  Backed(l)'
<1>1. /\ memoryStore'[l] = AgeBlock(memoryStore[l]) /\ redisStore'[l] = Less(redisStore[l])
      /\ wire' = wire /\ regime' = regime
  BY DEF StoreTick
<1>2. memoryStore[l].left \in Nat /\ redisStore[l] \in Nat
  BY BlockNumbers
<1>3. \A i \in DOMAIN wire : wire[i].ttl \in Nat
  <2> DEFINE Command == [by : Writers, key : Keys, ttl : Durations]
  <2>1. \A c \in Command : c.ttl \in Nat
    BY DurationAssumption DEF Durations
  <2>2. wire \in Seq(Command)
    BY DEF StoreTypeOK
  <2> HIDE DEF Command
  <2>3. \A i \in DOMAIN wire : wire[i] \in Command
    BY <2>2, ElementOfSeq, LenProperties
  <2> QED  BY <2>1, <2>3
<1>4. CASE memoryStore[l].left > 1
  <2>1. memoryStore'[l].left = memoryStore[l].left - 1
    BY <1>1, <1>4 DEF AgeBlock, StoreTypeOK
  <2>2. \A i \in DOMAIN wire : Newest(l, i)' => Newest(l, i)
    BY <1>1 DEF Newest
  <2> QED  BY <1>1, <1>2, <1>3, <1>4, <2>1, <2>2 DEF Backed, Less
<1>5. CASE ~(memoryStore[l].left > 1)
  BY <1>1, <1>5 DEF AgeBlock, Unblocked, Backed
<1> QED  BY <1>4, <1>5

\* A step that leaves the blocklist and the connection alone.
LEMMA QuietBacks ==
  ASSUME UNCHANGED <<memoryStore, redisStore, wire, regime>>, NEW l \in Keys, Backed(l)
  PROVE  Backed(l)'
  BY DEF Backed, Newest
=============================================================================
