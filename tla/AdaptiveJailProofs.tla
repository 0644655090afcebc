------------------------- MODULE AdaptiveJailProofs -------------------------
(***************************************************************************)
(* For any number of requests, admins, addresses and accounts, any         *)
(* durations and whatever Redis does: the turns of a key exclude each      *)
(* other, what a turn decided still holds when it acts, and so a burst     *)
(* escalates once (ARM-02).                                                *)
(*                                                                         *)
(* OneEscalationPerBlock needs DecidesUnblocked, which another turn on the *)
(* same key would break, so it needs TurnsHeld: the three are inductive    *)
(* together with the types.  What memory enforces is in Redis, keys go     *)
(* from free to jailed to blocked, and repeat breaches double the block.   *)
(***************************************************************************)
EXTENDS AdaptiveJailHistory, BlocklistProofs

Inv == TypeOK /\ TurnsHeld /\ DecidesUnblocked

RequestTypeOK ==
    /\ pc \in [Requests -> Pcs]
    /\ phase \in [Requests -> {"guard", "outcome"}]
    /\ todo \in [Requests -> Seq(Keys)]
    /\ carried \in [Requests -> Accounts \cup {NoAccount}]
    /\ account \in [Requests -> Accounts \cup {NoAccount}]
    /\ denied \in [Requests -> BOOLEAN]
    /\ gate \in [Requests -> BOOLEAN]
    /\ queue \in [Keys -> Seq(Requests)]
    /\ setting \in [Admins -> Keys \cup {<<>>}]
    /\ \A r \in Requests : pc[r] # "idle" => todo[r] # <<>>

\* TypeOK is a part about the stores and a part about the requests.
LEMMA TypeParts == TypeOK <=> StoreTypeOK /\ RequestTypeOK
  BY DEF TypeOK, RequestTypeOK

\* A request on its way works at a key (index.js:112, 203).
LEMMA KeyType ==
  ASSUME TypeOK, NEW r \in Requests, pc[r] # "idle"
  PROVE  Key(r) \in Keys
  BY DEF TypeOK, Key

\* What a Redis command comes to is one of the four outcomes (RegimeAssumption).
LEMMA OutcomeType ==
  ASSUME TypeOK, NEW o \in regime
  PROVE  o \in AllOutcomes
  BY RegimeAssumption DEF TypeOK, StoreTypeOK

-----------------------------------------------------------------------------
(* Types                                                                    *)

\* The turn's return keeps the types, and the loop over the targets ends with
\* the last (index.js:203).
LEMMA PassOnType ==
  ASSUME TypeOK, NEW r \in Requests, pc[r] # "idle", PassOn(r)
  PROVE  /\ pc' \in [Requests -> Pcs]
         /\ todo' \in [Requests -> Seq(Keys)]
         /\ \A q \in Requests : pc'[q] # "idle" => todo'[q] # <<>>
         /\ pc'[r] \in {"admitted", "failLimit", "idle"}
         /\ \A q \in Requests \ {r} : pc'[q] = pc[q] /\ todo'[q] = todo[q]
<1>1. /\ pc \in [Requests -> Pcs] /\ todo \in [Requests -> Seq(Keys)]
      /\ todo[r] \in Seq(Keys) /\ todo[r] # <<>>
      /\ \A q \in Requests : pc[q] # "idle" => todo[q] # <<>>
  BY DEF TypeOK
<1>2. CASE phase[r] = "guard" /\ Goto(r, "admitted") /\ UNCHANGED todo
  BY <1>1, <1>2 DEF Goto, Pcs
<1>3. CASE /\ todo' = [todo EXCEPT ![r] = Tail(@)]
           /\ Goto(r, IF Len(todo[r]) > 1 THEN "failLimit" ELSE "idle")
  <2>1. /\ Tail(todo[r]) \in Seq(Keys) /\ Len(todo[r]) \in Nat
        /\ Len(Tail(todo[r])) = Len(todo[r]) - 1
    BY <1>1, HeadTailProperties, LenProperties
  <2>2. ASSUME Len(todo[r]) > 1 PROVE Tail(todo[r]) # <<>>
    <3> DEFINE m == Len(todo[r])
               n == Len(Tail(todo[r]))
    <3>1. m \in Nat /\ m > 1 /\ n = m - 1  BY <2>1, <2>2
    <3> HIDE DEF m, n
    <3>2. n # 0  BY <3>1
    <3>3. Len(<<>>) = 0  OBVIOUS
    <3> QED  BY <3>2, <3>3 DEF n
  <2> QED  BY <1>1, <1>3, <2>1, <2>2 DEF Goto, Pcs
<1> QED  BY <1>2, <1>3 DEF PassOn

\* Handing the lock on keeps the type of the queues (blocklist.js:41-43).
LEMMA LeaveType ==
  ASSUME TypeOK, NEW r \in Requests, pc[r] # "idle", LeaveTurn(r)
  PROVE  queue' \in [Keys -> Seq(Requests)]
<1>1. Key(r) \in Keys /\ queue \in [Keys -> Seq(Requests)]
  BY KeyType DEF TypeOK
<1>2. queue[Key(r)] # <<>> /\ queue[Key(r)] \in Seq(Requests)
  BY <1>1 DEF LeaveTurn, Lock!Leave, Lock!Holds
<1>3. Tail(queue[Key(r)]) \in Seq(Requests)
  BY <1>2
<1> QED  BY <1>1, <1>3 DEF LeaveTurn, Lock!Leave

\* The end of a turn keeps the types of the requests (index.js:117, 141, 246).
LEMMA EndTurnType ==
  ASSUME TypeOK, NEW r \in Requests, pc[r] # "idle", EndTurn(r), UNCHANGED setting
  PROVE  RequestTypeOK'
  BY PassOnType, LeaveType DEF EndTurn, TypeOK, RequestTypeOK

\* A step within the turn, of which the request part is only the next await.
LEMMA GotoType ==
  ASSUME TypeOK, NEW r \in Requests, NEW p \in Pcs, pc[r] # "idle", Goto(r, p),
         UNCHANGED <<phase, todo, carried, account, denied, gate, queue, setting>>
  PROVE  RequestTypeOK'
  BY DEF Goto, TypeOK, RequestTypeOK

\* Queueing for a lock keeps the type of the queues (blocklist.js:38-43).
LEMMA EnqueueType ==
  ASSUME TypeOK, NEW r \in Requests, pc[r] # "idle", Lock!Enqueue(Key(r), r)
  PROVE  queue' \in [Keys -> Seq(Requests)]
  BY KeyType DEF TypeOK, Lock!Enqueue

\* Escalating from a count keeps the store's types (blocklist.js:101-102).
LEMMA EscalateType ==
  ASSUME TypeOK, NEW r \in Requests, pc[r] # "idle", NEW count \in 1..ViolationCap,
         Escalate(r, count)
  PROVE  /\ memoryStore' \in
              [Keys -> [left : Durations, reason : Reasons]]
         /\ wire' \in Seq([by : Writers, key : Keys, ttl : Durations])
         /\ Goto(r, "set")
<1>1. r \in Writers /\ Key(r) \in Keys /\ BlockTtl(count) \in Durations /\ StoreTypeOK
  BY ActorAssumption, KeyType, BlockTtlType DEF TypeOK
<1>2. StartBlock(r, Key(r), BlockTtl(count), "escalated")
  BY DEF Escalate
<1> QED  BY <1>1, <1>2, StartBlockType DEF Escalate, Reasons

\* The initial state has the types.
LEMMA TypeInit == Init => TypeOK
  BY StoreInitType
     DEF Init, TypeOK, Lock!Init, Pcs, TurnPcs

\* The arrival of a request at the guard keeps the types (index.js:91-95).
LEMMA TypeArrive ==
  ASSUME TypeOK, NEW r \in Requests, Arrive(r)
  PROVE  TypeOK'
<1>1. PICK i \in Ips : todo' = [todo EXCEPT ![r] = <<IpKey(i)>>]
  BY DEF Arrive
<1>2. <<IpKey(i)>> \in Seq(Keys) /\ <<IpKey(i)>> # <<>>
  BY ActorAssumption
<1>3. RequestTypeOK'
  BY <1>1, <1>2 DEF Arrive, Goto, Pcs, TypeOK, RequestTypeOK
<1>4. StoreTypeOK'
  BY DEF Arrive, TypeOK, StoreTypeOK, store, memory, redis
<1> QED  BY <1>3, <1>4, TypeParts DEF TypeOK, RequestTypeOK

\* The settling of a Redis command that a request awaits keeps the types
\* (index.js:95-139, 223-241).
LEMMA TypeRedisStep ==
  ASSUME TypeOK, NEW r \in Requests, NEW o \in regime, RedisStep(r, o)
  PROVE  TypeOK'
<1> USE DEF TurnPcs, Pcs
<1>1. o \in AllOutcomes /\ StoreTypeOK
  BY OutcomeType DEF TypeOK
<1>2. pc[r] # "idle" /\ Key(r) \in Keys
  BY KeyType DEF RedisStep, GuardCheck, Recheck, CheckJail, IncrViolations,
                 ExpireViolations, SetBlock, ReleaseJail, PlaceInJail
<1> SUFFICES RequestTypeOK' /\ StoreTypeOK'
  BY DEF TypeOK, RequestTypeOK
<1>3. CASE GuardCheck(r, o)
  <2>1. RequestTypeOK'
    BY <1>2, <1>3, EnqueueType DEF GuardCheck, Deny, Goto, TypeOK, RequestTypeOK
  <2>2. StoreTypeOK'
    BY <1>1, <1>3 DEF GuardCheck, StoreTypeOK, store, memory, redis
  <2> QED  BY <2>1, <2>2
<1>4. CASE Recheck(r, o)
  <2>1. RequestTypeOK'
    BY <1>2, <1>4, EndTurnType, GotoType DEF Recheck
  <2>2. StoreTypeOK'
    BY <1>1, <1>4 DEF Recheck, StoreTypeOK, store, memory, redis
  <2> QED  BY <2>1, <2>2
<1>5. CASE CheckJail(r, o)
  <2>1. RequestTypeOK'
    BY <1>2, <1>5, EndTurnType, GotoType DEF CheckJail
  <2>2. memoryJail' \in [Keys -> 0..JailTtl]
    BY <1>1, <1>2, <1>5, JailType DEF CheckJail, StoreTypeOK
  <2> QED  BY <2>1, <2>2, <1>1, <1>5 DEF CheckJail, StoreTypeOK, redis
<1>6. CASE IncrViolations(r, o)
  <2>1. redisViolations' \in
          [Keys -> [count : 0..ViolationCap, left : {NoTtl} \cup 0..ViolationWindow]]
    BY <1>1, <1>2, <1>6, IncrType DEF IncrViolations
  <2>2. Acked(o) => RedisCount(Key(r), o) \in 1..ViolationCap
    BY <1>1, <1>2, IncrType
  <2>3. CASE /\ Goto(r, "expire")
             /\ UNCHANGED <<memoryStore, memoryViolations, wire>>
    BY <2>1, <2>3, <1>1, <1>2, <1>6, GotoType DEF IncrViolations, StoreTypeOK
  <2>4. CASE /\ Acked(o) /\ Escalate(r, RedisCount(Key(r), o))
             /\ UNCHANGED memoryViolations
    <3>1. /\ memoryStore' \in
               [Keys -> [left : Durations, reason : Reasons]]
          /\ wire' \in Seq([by : Writers, key : Keys, ttl : Durations])
          /\ Goto(r, "set")
      BY <2>2, <2>4, <1>2, EscalateType
    <3>2. RequestTypeOK'
      BY <3>1, <1>2, <1>6, GotoType DEF IncrViolations
    <3> QED  BY <2>1, <2>4, <3>1, <3>2, <1>1, <1>6 DEF IncrViolations, StoreTypeOK
  <2>5. CASE CountInMemory(Key(r)) /\ Escalate(r, MemoryCount(Key(r)))
    <3>1. MemoryCount(Key(r)) \in 1..ViolationCap
      BY <1>1, <1>2, CountInMemoryType
    <3>2. /\ memoryStore' \in
               [Keys -> [left : Durations, reason : Reasons]]
          /\ wire' \in Seq([by : Writers, key : Keys, ttl : Durations])
          /\ Goto(r, "set")
      BY <2>5, <3>1, <1>2, EscalateType
    <3>3. memoryViolations' \in [Keys -> [count : 0..ViolationCap, left : 0..ViolationWindow]]
      BY <2>5, <1>1, <1>2, CountInMemoryType
    <3>4. RequestTypeOK'
      BY <3>2, <1>2, <1>6, GotoType DEF IncrViolations
    <3> QED  BY <2>1, <3>2, <3>3, <3>4, <1>1, <1>6 DEF IncrViolations, StoreTypeOK
  <2> QED  BY <1>6, <2>3, <2>4, <2>5 DEF IncrViolations
<1>7. CASE ExpireViolations(r, o)
  <2>1. redisViolations' \in
          [Keys -> [count : 0..ViolationCap, left : {NoTtl} \cup 0..ViolationWindow]]
    BY <1>1, <1>2, <1>7, ExpireType DEF ExpireViolations
  <2>2. PICK count \in 1..ViolationCap : Escalate(r, count)
    BY <1>1, <1>2, <1>7, CountInMemoryType, CapAssumption DEF ExpireViolations
  <2>3. memoryViolations' \in [Keys -> [count : 0..ViolationCap, left : 0..ViolationWindow]]
    BY <1>1, <1>2, <1>7, CountInMemoryType DEF ExpireViolations, StoreTypeOK
  <2>4. /\ memoryStore' \in
             [Keys -> [left : Durations, reason : Reasons]]
        /\ wire' \in Seq([by : Writers, key : Keys, ttl : Durations])
        /\ Goto(r, "set")
    BY <2>2, <1>2, EscalateType
  <2>5. RequestTypeOK'
    BY <2>4, <1>2, <1>7, GotoType DEF ExpireViolations
  <2> QED  BY <2>1, <2>3, <2>4, <2>5, <1>1, <1>7 DEF ExpireViolations, StoreTypeOK
<1>8. CASE SetBlock(r, o)
  <2>1. /\ redisStore' \in [Keys -> Durations]
        /\ wire' \in Seq([by : Writers, key : Keys, ttl : Durations])
    BY <1>1, <1>8, EndBlockType, ActorAssumption DEF SetBlock
  <2>2. memoryJail' \in [Keys -> 0..JailTtl]
    BY <1>1, <1>2, <1>8, JailType DEF SetBlock
  <2>3. RequestTypeOK'
    BY <1>2, <1>8, GotoType DEF SetBlock
  <2> QED  BY <2>1, <2>2, <2>3, <1>1, <1>8 DEF SetBlock, StoreTypeOK
<1>9. CASE ReleaseJail(r, o)
  <2>1. redisJail' \in [Keys -> 0..JailTtl]
    BY <1>1, <1>2, <1>9, JailType DEF ReleaseJail
  <2>2. queue' \in [Keys -> Seq(Requests)]
    BY <1>2, <1>9, LeaveType DEF ReleaseJail
  <2>3. RequestTypeOK'
    <3>1. CASE Goto(r, "replied") /\ Deny(r) /\ UNCHANGED todo
      BY <3>1, <2>2, <1>2, <1>9 DEF ReleaseJail, Goto, Deny, TypeOK, RequestTypeOK
    <3>2. CASE PassOn(r) /\ UNCHANGED <<denied, gate>>
      BY <3>2, <2>2, <1>2, <1>9, PassOnType DEF ReleaseJail, TypeOK, RequestTypeOK
    <3> QED  BY <3>1, <3>2, <1>9 DEF ReleaseJail
  <2> QED  BY <2>1, <2>3, <1>1, <1>9 DEF ReleaseJail, StoreTypeOK, memory
<1>10. CASE PlaceInJail(r, o)
  <2>1. redisJail' \in [Keys -> 0..JailTtl]
    BY <1>1, <1>2, <1>10, JailType DEF PlaceInJail
  <2>2. RequestTypeOK'
    BY <1>2, <1>10, EndTurnType DEF PlaceInJail
  <2> QED  BY <2>1, <2>2, <1>1, <1>10 DEF PlaceInJail, StoreTypeOK, memory
<1> QED  BY <1>3, <1>4, <1>5, <1>6, <1>7, <1>8, <1>9, <1>10 DEF RedisStep

\* Every step keeps the types.
LEMMA TypeStep ==
  ASSUME TypeOK, [Next]_vars
  PROVE  TypeOK'
<1> USE DEF Pcs, TurnPcs
<1>1. ASSUME NEW r \in Requests, Step(r) PROVE TypeOK'
  <2>1. CASE \E o \in regime : RedisStep(r, o)
    BY <2>1, TypeRedisStep
  <2>2. CASE JailLimit(r)
    <3>1. RequestTypeOK'
      BY <2>2, EndTurnType, GotoType DEF JailLimit
    <3> QED  BY <3>1, <2>2 DEF JailLimit, TypeOK, RequestTypeOK, StoreTypeOK, store, memory, redis
  <2>3. CASE Forward(r)
    BY <2>3 DEF Forward, Deny, Goto, TypeOK, StoreTypeOK, store, memory, redis
  <2>4. CASE Reply(r)
    BY <2>4 DEF Reply, Goto, TypeOK, StoreTypeOK, store, memory, redis
  <2>5. CASE RecordOutcome(r)
    <3>1. todo[r] \in Seq(Keys) /\ todo[r] # <<>>
      BY <2>5 DEF RecordOutcome, TypeOK
    <3> DEFINE t == IF account[r] = NoAccount THEN todo[r]
                    ELSE Append(todo[r], AccountKey(account[r]))
    <3>2. t \in Seq(Keys) /\ t # <<>>
      <4>1. CASE account[r] = NoAccount  BY <4>1, <3>1
      <4>2. CASE account[r] # NoAccount
        <5>1. AccountKey(account[r]) \in Keys
          BY <4>2, ActorAssumption DEF TypeOK
        <5>2. Append(todo[r], AccountKey(account[r])) \in Seq(Keys)
          BY <5>1, <3>1
        <5>3. Append(todo[r], AccountKey(account[r])) # <<>>
          BY <5>1, <3>1, AppendProperties
        <5> QED  BY <4>2, <5>2, <5>3
      <4> QED  BY <4>1, <4>2
    <3> HIDE DEF t
    <3>3. \/ todo' = [todo EXCEPT ![r] = t] /\ pc' = [pc EXCEPT ![r] = "failLimit"]
             /\ phase' = [phase EXCEPT ![r] = "outcome"]
          \/ todo' = [todo EXCEPT ![r] = <<>>] /\ pc' = [pc EXCEPT ![r] = "idle"]
             /\ phase' = phase
      BY <2>5 DEF RecordOutcome, Goto, TypeOK, t
    <3>4. /\ pc' \in [Requests -> Pcs] /\ phase' \in [Requests -> {"guard", "outcome"}]
          /\ todo' \in [Requests -> Seq(Keys)]
          /\ \A q \in Requests : pc'[q] # "idle" => todo'[q] # <<>>
      <4>1. <<>> \in Seq(Keys)  OBVIOUS
      <4>2. CASE /\ todo' = [todo EXCEPT ![r] = t]
                 /\ pc' = [pc EXCEPT ![r] = "failLimit"]
                 /\ phase' = [phase EXCEPT ![r] = "outcome"]
        BY <4>2, <3>2 DEF TypeOK
      <4>3. CASE /\ todo' = [todo EXCEPT ![r] = <<>>]
                 /\ pc' = [pc EXCEPT ![r] = "idle"]
                 /\ phase' = phase
        BY <4>3, <4>1 DEF TypeOK
      <4> QED  BY <4>2, <4>3, <3>3
    <3>5. /\ carried' \in [Requests -> Accounts \cup {NoAccount}]
          /\ account' \in [Requests -> Accounts \cup {NoAccount}]
          /\ denied' \in [Requests -> BOOLEAN] /\ gate' \in [Requests -> BOOLEAN]
          /\ queue' = queue /\ setting' = setting
      BY <2>5 DEF RecordOutcome, TypeOK
    <3>6. RequestTypeOK'
      BY <3>4, <3>5 DEF TypeOK, RequestTypeOK
    <3>7. StoreTypeOK'
      BY <2>5 DEF RecordOutcome, TypeOK, StoreTypeOK, store, memory, redis
    <3> QED  BY <3>6, <3>7 DEF TypeOK, RequestTypeOK
  <2>6. CASE FailLimit(r)
    <3>1. pc[r] # "idle"
      BY <2>6 DEF FailLimit
    <3>2. RequestTypeOK'
      <4>1. CASE PassOn(r) /\ UNCHANGED queue
        BY <4>1, <3>1, <2>6, PassOnType DEF FailLimit, TypeOK, RequestTypeOK
      <4>2. CASE /\ Goto(r, "recheck") /\ Lock!Enqueue(Key(r), r)
                 /\ UNCHANGED todo
        BY <4>2, <3>1, <2>6, EnqueueType DEF FailLimit, Goto, TypeOK, RequestTypeOK
      <4> QED  BY <4>1, <4>2, <2>6 DEF FailLimit
    <3>3. StoreTypeOK'
      BY <2>6 DEF FailLimit, TypeOK, StoreTypeOK, store, memory, redis
    <3> QED  BY <3>2, <3>3 DEF TypeOK, RequestTypeOK
  <2> QED  BY <1>1, <2>1, <2>2, <2>3, <2>4, <2>5, <2>6 DEF Step
<1>2. ASSUME NEW a \in Admins, AdminBlock(a) PROVE TypeOK'
  <2>1. PICK k \in Keys : /\ StartBlock(a, k, ManualBlock, "manual")
                          /\ setting' = [setting EXCEPT ![a] = k]
    BY <1>2 DEF AdminBlock
  <2>2. a \in Writers /\ ManualBlock \in Durations /\ StoreTypeOK
    BY ActorAssumption, DurationAssumption DEF TypeOK, Durations
  <2>3. /\ memoryStore' \in
             [Keys -> [left : Durations, reason : Reasons]]
        /\ wire' \in Seq([by : Writers, key : Keys, ttl : Durations])
    BY <2>1, <2>2, StartBlockType DEF Reasons
  <2> QED  BY <1>2, <2>1, <2>3 DEF AdminBlock, TypeOK, StoreTypeOK, request
<1>3. ASSUME NEW a \in Admins, NEW o \in regime, AdminBlocked(a, o) PROVE TypeOK'
  <2>1. /\ redisStore' \in [Keys -> Durations]
        /\ wire' \in Seq([by : Writers, key : Keys, ttl : Durations])
    BY <1>3, EndBlockType DEF AdminBlocked, TypeOK
  <2> QED  BY <1>3, <2>1 DEF AdminBlocked, TypeOK, StoreTypeOK, request, memory
<1>4. CASE Tick
  BY <1>4, StoreTickType DEF Tick, TypeOK, request
<1>5. CASE UNCHANGED vars
  BY <1>5 DEF vars, TypeOK, StoreTypeOK, request, store, memory, redis
<1> QED  BY <1>1, <1>2, <1>3, <1>4, <1>5, TypeArrive DEF Next, AdminStep

\* Every variable keeps its type, and the loop over the targets of a failed
\* login ends with the last one (index.js:203).
THEOREM TypeCorrect == Spec => []TypeOK
<1>1. TypeOK /\ [Next]_vars => TypeOK'
  BY TypeStep
<1> QED  BY <1>1, TypeInit, PTL DEF Spec

-----------------------------------------------------------------------------
(* Turns                                                                    *)

\* The awaits of a turn that has begun and holds its lock.
Begun == TurnPcs \ {"recheck"}

\* The others stay where they are.
OthersStay(r) == \A q \in Requests \ {r} : pc'[q] = pc[q] /\ todo'[q] = todo[q]

\* In a queue stand the requests that are in a turn on its key, each once.
LEMMA QueueFacts ==
  ASSUME TypeOK, TurnsHeld, NEW k \in Keys
  PROVE  /\ queue[k] \in Seq(Requests) /\ Len(queue[k]) \in Nat
         /\ DOMAIN queue[k] = 1..Len(queue[k])
         /\ \A i \in 1..Len(queue[k]) :
               /\ queue[k][i] \in Requests
               /\ pc[queue[k][i]] \in TurnPcs
               /\ Key(queue[k][i]) = k
  BY DEF TypeOK, TurnsHeld

\* A step of a request that is in no turn, before and after, touches no turn.
LEMMA OutsideTurn ==
  ASSUME TypeOK, TurnsHeld, NEW r \in Requests, OthersStay(r), queue' = queue,
         pc[r] \notin TurnPcs, pc'[r] \notin TurnPcs
  PROVE  TurnsHeld'
<1>1. \A k \in Keys : \A i \in DOMAIN queue[k] : queue[k][i] \in Requests \ {r}
  BY QueueFacts
<1>2. \A q \in Requests : pc'[q] \in TurnPcs => q # r /\ pc'[q] = pc[q] /\ todo'[q] = todo[q]
  BY DEF OthersStay
<1> QED  BY <1>1, <1>2 DEF TurnsHeld, OthersStay, Key, Lock!Holds

\* The turn goes on to its next await, with the lock.
LEMMA WithinTurn ==
  ASSUME TypeOK, TurnsHeld, NEW r \in Requests, OthersStay(r), queue' = queue,
         todo' = todo, MyTurn(r), pc[r] \in TurnPcs, pc'[r] \in TurnPcs
  PROVE  TurnsHeld'
<1>1. \A q \in Requests : pc'[q] = pc[q] \/ (q = r /\ pc'[q] \in TurnPcs)
  BY DEF OthersStay
<1>2. \A k \in Keys : \A i \in DOMAIN queue[k] : queue[k][i] \in Requests
  BY QueueFacts
<1> QED  BY <1>1, <1>2 DEF TurnsHeld, MyTurn, Key, Lock!Holds

\* withKeyLock: the request goes to the back of the queue of its key.
LEMMA EnterTurn ==
  ASSUME TypeOK, TurnsHeld, NEW r \in Requests, OthersStay(r), todo' = todo,
         pc[r] # "idle", pc[r] \notin TurnPcs, pc'[r] = "recheck",
         Lock!Enqueue(Key(r), r)
  PROVE  TurnsHeld'
<1> DEFINE k == Key(r)
           n == Len(queue[k])
<1>1. k \in Keys /\ queue \in [Keys -> Seq(Requests)]
  BY KeyType DEF TypeOK
<1> HIDE DEF k
<1>2. queue' = [queue EXCEPT ![k] = Append(queue[k], r)]
  BY <1>1 DEF Lock!Enqueue, k
<1>3. /\ queue[k] \in Seq(Requests) /\ n \in Nat /\ DOMAIN queue[k] = 1..n
      /\ queue'[k] = Append(queue[k], r) /\ DOMAIN queue'[k] = 1..(n + 1)
      /\ queue'[k][n + 1] = r
      /\ \A i \in 1..n : queue'[k][i] = queue[k][i]
      /\ \A l \in Keys : l # k => queue'[l] = queue[l]
  BY <1>1, <1>2
<1> HIDE DEF n
\* r was in no queue.
<1>4. \A l \in Keys : \A i \in DOMAIN queue[l] : queue[l][i] \in Requests \ {r}
  BY QueueFacts
<1>5. \A l \in Keys : \A i \in DOMAIN queue'[l] :
         \/ l = k /\ i = n + 1 /\ queue'[l][i] = r
         \/ i \in DOMAIN queue[l] /\ queue'[l][i] = queue[l][i]
  <2> TAKE l \in Keys
  <2>1. CASE l = k  BY <2>1, <1>3
  <2>2. CASE l # k  BY <2>2, <1>3
  <2> QED  BY <2>1, <2>2
<1>6. \A q \in Requests : Key(q)' = Key(q)
  BY DEF Key
<1>7. ASSUME NEW l \in Keys, NEW i \in DOMAIN queue'[l], NEW j \in DOMAIN queue'[l],
             queue'[l][i] = queue'[l][j]
      PROVE  i = j
  BY <1>4, <1>5, <1>7 DEF TurnsHeld
<1>8. ASSUME NEW l \in Keys, NEW i \in DOMAIN queue'[l]
      PROVE  pc'[queue'[l][i]] \in TurnPcs /\ Head(todo'[queue'[l][i]]) = l
  <2>1. CASE l = k /\ queue'[l][i] = r
    BY <2>1 DEF k, Key, TurnPcs
  <2>2. CASE i \in DOMAIN queue[l] /\ queue'[l][i] = queue[l][i]
    BY <2>2, <1>4 DEF TurnsHeld, OthersStay, Key
  <2> QED  BY <2>1, <2>2, <1>5
<1>9. ASSUME NEW q \in Requests, pc'[q] \in Begun
      PROVE  queue'[Key(q)] # <<>> /\ Head(queue'[Key(q)]) = q
  <2>1. q # r /\ pc[q] \in Begun /\ pc[q] # "idle"
    BY <1>9 DEF Begun, TurnPcs, OthersStay
  <2>2. Key(q) \in Keys /\ Lock!Holds(Key(q), q)
    BY <2>1, KeyType DEF TurnsHeld, Begun
  <2>3. CASE Key(q) # k  BY <2>2, <2>3, <1>3 DEF Lock!Holds
  <2>4. CASE Key(q) = k
    <3>1. queue[k] # <<>> /\ Head(queue[k]) = q
      BY <2>2, <2>4 DEF Lock!Holds
    <3>2. /\ Head(Append(queue[k], r)) = q
          /\ Append(queue[k], r) # <<>>
      BY <3>1, <1>3, HeadTailAppend, AppendProperties
    <3> QED  BY <3>2, <2>4, <1>3
  <2> QED  BY <2>3, <2>4
<1> QED  BY <1>6, <1>7, <1>8, <1>9 DEF TurnsHeld, Begun, Key, Lock!Holds

\* The end of a turn: the head leaves, and it stands nowhere else.
LEMMA ExitTurn ==
  ASSUME TypeOK, TurnsHeld, NEW r \in Requests, OthersStay(r),
         pc[r] \in TurnPcs, pc'[r] \notin TurnPcs, LeaveTurn(r)
  PROVE  TurnsHeld'
<1> DEFINE k == Key(r)
           n == Len(queue[k])
<1>1. /\ k \in Keys /\ queue \in [Keys -> Seq(Requests)]
      /\ queue[k] # <<>> /\ Head(queue[k]) = r
      /\ queue' = [queue EXCEPT ![k] = Tail(queue[k])]
  BY KeyType DEF TypeOK, LeaveTurn, Lock!Leave, Lock!Holds, TurnPcs
<1> HIDE DEF k
<1>2. /\ queue[k] \in Seq(Requests) /\ n \in Nat /\ DOMAIN queue[k] = 1..n
      /\ n >= 1 /\ queue[k][1] = r
      /\ queue'[k] = Tail(queue[k])
      /\ \A l \in Keys : l # k => queue'[l] = queue[l]
  BY <1>1
<1>3. /\ Tail(queue[k]) \in Seq(Requests) /\ Len(Tail(queue[k])) = n - 1
      /\ \A i \in 1..Len(Tail(queue[k])) : Tail(queue[k])[i] = queue[k][i + 1]
  BY <1>1, <1>2, HeadTailProperties
<1>4. DOMAIN Tail(queue[k]) = 1..(n - 1)
  BY <1>3, LenProperties
<1> HIDE DEF n
<1>5. \A i \in DOMAIN queue'[k] :
         /\ i \in Nat /\ i + 1 \in DOMAIN queue[k] /\ i + 1 # 1
         /\ queue'[k][i] = queue[k][i + 1]
  BY <1>2, <1>3, <1>4
<1>6. \A i \in DOMAIN queue'[k] : queue'[k][i] # r
  BY <1>1, <1>2, <1>5 DEF TurnsHeld
\* What stands in a queue now stood in it, and is not r.
<1>7. \A l \in Keys : \A i \in DOMAIN queue'[l] :
         /\ queue'[l][i] \in Requests \ {r}
         /\ pc[queue'[l][i]] \in TurnPcs
         /\ Key(queue'[l][i]) = l
  <2> TAKE l \in Keys
  <2>1. CASE l = k  BY <2>1, <1>2, <1>5, <1>6, QueueFacts
  <2>2. CASE l # k
    BY <2>2, <1>2, QueueFacts DEF k
  <2> QED  BY <2>1, <2>2
<1>8. ASSUME NEW l \in Keys, NEW i \in DOMAIN queue'[l], NEW j \in DOMAIN queue'[l],
             queue'[l][i] = queue'[l][j]
      PROVE  i = j
  <2>1. CASE l = k
    <3>1. queue[k][i + 1] = queue[k][j + 1] /\ i \in Nat /\ j \in Nat
      BY <2>1, <1>5, <1>8
    <3>2. i + 1 = j + 1
      BY <2>1, <3>1, <1>1, <1>5 DEF TurnsHeld
    <3> QED  BY <3>1, <3>2
  <2>2. CASE l # k  BY <2>2, <1>2, <1>8 DEF TurnsHeld
  <2> QED  BY <2>1, <2>2
<1>9. ASSUME NEW q \in Requests, pc'[q] \in Begun
      PROVE  queue'[Head(todo'[q])] # <<>> /\ Head(queue'[Head(todo'[q])]) = q
  <2>1. q # r /\ pc[q] \in Begun /\ pc[q] # "idle" /\ todo'[q] = todo[q]
    BY <1>9 DEF Begun, TurnPcs, OthersStay
  <2>2. Key(q) \in Keys /\ Lock!Holds(Key(q), q)
    BY <2>1, KeyType DEF TurnsHeld, Begun
  <2>3. Key(q) # k
    BY <2>1, <2>2, <1>1 DEF Lock!Holds
  <2> QED  BY <2>1, <2>2, <2>3, <1>2 DEF Key, Lock!Holds
<1> QED  BY <1>7, <1>8, <1>9 DEF TurnsHeld, OthersStay, Begun, Key, Lock!Holds

\* The turn's function returns (blocklist.js:38-44).
LEMMA EndTurnTurns ==
  ASSUME TypeOK, TurnsHeld, NEW r \in Requests, pc[r] \in TurnPcs, EndTurn(r)
  PROVE  TurnsHeld'
<1>1. pc[r] # "idle"  BY DEF TurnPcs
<1>2. OthersStay(r) /\ pc'[r] \notin TurnPcs
  BY <1>1, PassOnType DEF EndTurn, OthersStay, TurnPcs
<1> QED  BY <1>2, ExitTurn DEF EndTurn

\* The turn's function reaches another await.
LEMMA GotoTurns ==
  ASSUME TypeOK, TurnsHeld, NEW r \in Requests, pc[r] \in TurnPcs, MyTurn(r),
         NEW p \in TurnPcs, Goto(r, p), todo' = todo, queue' = queue
  PROVE  TurnsHeld'
<1>1. OthersStay(r) /\ pc'[r] \in TurnPcs
  BY DEF Goto, OthersStay, TypeOK
<1> QED  BY <1>1, WithinTurn

\* No lock is held at first (blocklist.js:23).
LEMMA TurnsInit == Init => TurnsHeld
  BY DEF Init, TurnsHeld, Lock!Init, TurnPcs

\* The settling of a Redis command leaves every turn with its lock: only the
\* one that is done hands it on (index.js:112-131, 212-243).
LEMMA TurnsRedisStep ==
  ASSUME TypeOK, TurnsHeld, NEW r \in Requests, NEW o \in regime, RedisStep(r, o)
  PROVE  TurnsHeld'
<1> USE DEF TurnPcs
<1>1. CASE GuardCheck(r, o)
  <2>1. pc[r] = "guard" /\ todo' = todo
    BY <1>1 DEF GuardCheck
  <2>2. CASE Goto(r, "replied") /\ queue' = queue
    <3>1. OthersStay(r) /\ pc'[r] = "replied"
      BY <2>1, <2>2 DEF Goto, OthersStay, TypeOK
    <3> QED  BY <2>1, <2>2, <3>1, OutsideTurn
  <2>3. CASE Goto(r, "recheck") /\ Lock!Enqueue(Key(r), r)
    <3>1. OthersStay(r) /\ pc'[r] = "recheck"
      BY <2>1, <2>3 DEF Goto, OthersStay, TypeOK
    <3> QED  BY <2>1, <2>3, <3>1, EnterTurn
  <2> QED  BY <1>1, <2>2, <2>3 DEF GuardCheck
<1>2. CASE Recheck(r, o)
  BY <1>2, EndTurnTurns, GotoTurns DEF Recheck
<1>3. CASE CheckJail(r, o)
  BY <1>3, EndTurnTurns, GotoTurns DEF CheckJail
<1>4. CASE IncrViolations(r, o)
  BY <1>4, GotoTurns DEF IncrViolations, Escalate
<1>5. CASE ExpireViolations(r, o)
  BY <1>5, GotoTurns DEF ExpireViolations, Escalate
<1>6. CASE SetBlock(r, o)
  BY <1>6, GotoTurns DEF SetBlock
<1>7. CASE ReleaseJail(r, o)
  <2>1. pc[r] = "del" /\ LeaveTurn(r)
    BY <1>7 DEF ReleaseJail
  <2>2. OthersStay(r) /\ pc'[r] \notin TurnPcs
    <3>1. CASE Goto(r, "replied") /\ UNCHANGED todo
      BY <3>1 DEF Goto, OthersStay, TypeOK
    <3>2. CASE PassOn(r)
      BY <3>2, <2>1, PassOnType DEF OthersStay
    <3> QED  BY <1>7, <3>1, <3>2 DEF ReleaseJail
  <2> QED  BY <2>1, <2>2, ExitTurn
<1>8. CASE PlaceInJail(r, o)
  BY <1>8, EndTurnTurns DEF PlaceInJail
<1> QED  BY <1>1, <1>2, <1>3, <1>4, <1>5, <1>6, <1>7, <1>8 DEF RedisStep

\* Every step leaves every turn with its lock.
LEMMA TurnsStep ==
  ASSUME TypeOK, TurnsHeld, [Next]_vars
  PROVE  TurnsHeld'
<1> USE DEF TurnPcs
<1>1. ASSUME NEW r \in Requests, Arrive(r) PROVE TurnsHeld'
  <2>1. OthersStay(r) /\ pc[r] = "idle" /\ pc'[r] = "guard" /\ queue' = queue
    BY <1>1 DEF Arrive, Goto, OthersStay, TypeOK
  <2> QED  BY <2>1, OutsideTurn
<1>2. ASSUME NEW r \in Requests, Step(r) PROVE TurnsHeld'
  <2>1. CASE \E o \in regime : RedisStep(r, o)
    BY <2>1, TurnsRedisStep
  <2>2. CASE JailLimit(r)
    BY <2>2, EndTurnTurns, GotoTurns DEF JailLimit
  <2>3. CASE Forward(r) \/ Reply(r) \/ RecordOutcome(r)
    <3>1. /\ OthersStay(r) /\ queue' = queue
          /\ pc[r] \notin TurnPcs /\ pc'[r] \notin TurnPcs
      BY <2>3 DEF Forward, Reply, RecordOutcome, Goto, OthersStay, TypeOK
    <3> QED  BY <3>1, OutsideTurn
  <2>4. CASE FailLimit(r)
    <3>1. pc[r] = "failLimit"  BY <2>4 DEF FailLimit
    <3>2. CASE PassOn(r) /\ UNCHANGED queue
      <4>1. OthersStay(r) /\ pc'[r] \notin TurnPcs
        BY <3>1, <3>2, PassOnType DEF OthersStay
      <4> QED  BY <3>1, <3>2, <4>1, OutsideTurn
    <3>3. CASE Goto(r, "recheck") /\ Lock!Enqueue(Key(r), r) /\ UNCHANGED todo
      <4>1. OthersStay(r) /\ pc'[r] = "recheck"
        BY <3>1, <3>3 DEF Goto, OthersStay, TypeOK
      <4> QED  BY <3>1, <3>3, <4>1, EnterTurn
    <3> QED  BY <2>4, <3>2, <3>3 DEF FailLimit
  <2> QED  BY <1>2, <2>1, <2>2, <2>3, <2>4 DEF Step
<1>3. CASE UNCHANGED <<pc, todo, queue>>
  BY <1>3 DEF TurnsHeld, Key, Lock!Holds
<1>4. ASSUME NEW a \in Admins, AdminStep(a) PROVE UNCHANGED <<pc, todo, queue>>
  BY <1>4 DEF AdminStep, AdminBlock, AdminBlocked, request
<1>5. CASE Tick \/ UNCHANGED vars
  BY <1>3, <1>5 DEF Tick, vars, request
<1> QED  BY <1>1, <1>2, <1>3, <1>4, <1>5 DEF Next

\* The turns of a key exclude each other (blocklist.js:38-44).
THEOREM TurnsExclude == Spec => []TurnsHeld
<1>1. (TypeOK /\ TurnsHeld) /\ [Next]_vars => (TypeOK /\ TurnsHeld)'
  BY TypeStep, TurnsStep
<1> QED  BY <1>1, TypeInit, TurnsInit, PTL DEF Spec

-----------------------------------------------------------------------------
(* Decisions                                                                *)

\* The awaits at which a turn has found its key free of a block, and has not
\* yet blocked it.
Decided == {"jailed", "jailLimit", "incr", "expire"}

\* Of two requests whose turns have begun, each has a key of its own.
LEMMA KeysApart ==
  ASSUME TypeOK, TurnsHeld, NEW q \in Requests, NEW r \in Requests, q # r,
         pc[q] \in Begun, pc[r] \in Begun
  PROVE  Key(q) # Key(r)
  BY DEF TurnsHeld, Begun, Lock!Holds

\* A step that leaves the mirror alone, and in which nobody newly decides.
LEMMA QuietStep ==
  ASSUME DecidesUnblocked, memoryStore' = memoryStore,
         NEW r \in Requests, OthersStay(r),
         pc'[r] \in Decided => pc[r] \in Decided /\ todo'[r] = todo[r]
  PROVE  DecidesUnblocked'
  BY DEF DecidesUnblocked, Decided, OthersStay, Escalated, Key

\* PassOn leads out of the turn.
LEMMA EndTurnQuiet ==
  ASSUME TypeOK, DecidesUnblocked, memoryStore' = memoryStore,
         NEW r \in Requests, pc[r] \in TurnPcs, PassOn(r)
  PROVE  DecidesUnblocked'
<1>1. pc[r] # "idle"  BY DEF TurnPcs
<1>2. OthersStay(r) /\ pc'[r] \notin Decided
  BY <1>1, PassOnType DEF OthersStay, Decided
<1> QED  BY <1>2, QuietStep

\* A step that leaves the mirror of the blocklist alone, and takes nobody past a
\* recheck who was not, keeps the decisions (index.js:119-127, 225-240).
LEMMA GotoQuiet ==
  ASSUME TypeOK, DecidesUnblocked, memoryStore' = memoryStore, todo' = todo,
         NEW r \in Requests, NEW p \in Pcs, Goto(r, p),
         p \in Decided => pc[r] \in Decided
  PROVE  DecidesUnblocked'
<1>1. OthersStay(r) /\ pc'[r] = p
  BY DEF Goto, OthersStay, TypeOK
<1> QED  BY <1>1, QuietStep

\* An escalation is its own turn's, and no other turn on that key has decided
\* (index.js:112, 212).
LEMMA EscalateDecides ==
  ASSUME TypeOK, TurnsHeld, DecidesUnblocked, NEW r \in Requests, NEW count,
         pc[r] \in Begun, Escalate(r, count), todo' = todo
  PROVE  DecidesUnblocked'
<1>1. Key(r) \in Keys
  BY KeyType DEF Begun, TurnPcs
<1>2. OthersStay(r) /\ pc'[r] = "set"
  BY DEF Escalate, Goto, OthersStay, TypeOK
<1>3. \A k \in Keys : k # Key(r) => memoryStore'[k] = memoryStore[k]
  BY <1>1 DEF Escalate, StartBlock, TypeOK, StoreTypeOK
<1>4. ASSUME NEW q \in Requests, pc'[q] \in Decided
      PROVE  ~Escalated(Key(q))'
  <2>1. q # r /\ pc[q] \in Decided /\ todo'[q] = todo[q]
    BY <1>2, <1>4 DEF OthersStay, Decided
  <2>2. Key(q) \in Keys
    BY <2>1, KeyType DEF Decided
  <2>3. Key(q) # Key(r)
    BY <2>1, KeysApart DEF Decided, Begun, TurnPcs
  <2> QED  BY <2>1, <2>2, <2>3, <1>3 DEF DecidesUnblocked, Decided, Escalated, Key
<1> QED  BY <1>4 DEF DecidesUnblocked, Decided

\* At first nobody has decided anything.
LEMMA DecidesInit == Init => DecidesUnblocked
  BY DEF Init, DecidesUnblocked

\* The settling of a Redis command keeps the decisions: only a holder of the
\* lock escalates its key, and moves on as it does (blocklist.js:93-102).
LEMMA DecidesRedisStep ==
  ASSUME TypeOK, TurnsHeld, DecidesUnblocked,
         NEW r \in Requests, NEW o \in regime, RedisStep(r, o)
  PROVE  DecidesUnblocked'
<1> USE DEF TurnPcs, Decided
<1>1. CASE GuardCheck(r, o)
  <2>1. memoryStore' = memoryStore /\ todo' = todo
    BY <1>1 DEF GuardCheck, store, memory
  <2> QED  BY <1>1, <2>1, GotoQuiet DEF GuardCheck, Pcs
<1>2. CASE Recheck(r, o)
  <2>1. memoryStore' = memoryStore /\ pc[r] = "recheck"
    BY <1>2 DEF Recheck, store, memory
  <2>2. CASE EndTurn(r)
    BY <2>1, <2>2, EndTurnQuiet DEF EndTurn
  <2>3. CASE ~BlockedSeen(Key(r), o) /\ Goto(r, "jailed") /\ todo' = todo
    <3>1. ~Escalated(Key(r))
      BY <2>3 DEF BlockedSeen, Escalated
    <3>2. \A q \in Requests : pc'[q] = IF q = r THEN "jailed" ELSE pc[q]
      BY <2>3 DEF Goto, TypeOK
    <3> QED  BY <2>1, <2>3, <3>1, <3>2 DEF DecidesUnblocked, Escalated, Key
  <2> QED  BY <1>2, <2>2, <2>3 DEF Recheck
<1>3. CASE CheckJail(r, o)
  <2>1. memoryStore' = memoryStore /\ pc[r] = "jailed"
    BY <1>3 DEF CheckJail
  <2>2. CASE EndTurn(r)
    BY <2>1, <2>2, EndTurnQuiet DEF EndTurn
  <2>3. CASE todo' = todo /\ \E p \in Pcs : Goto(r, p)
    BY <2>1, <2>3, GotoQuiet
  <2> QED  BY <1>3, <2>2, <2>3 DEF CheckJail, Pcs
<1>4. CASE IncrViolations(r, o)
  <2>1. pc[r] = "incr" /\ todo' = todo
    BY <1>4 DEF IncrViolations
  <2>2. CASE Goto(r, "expire") /\ memoryStore' = memoryStore
    BY <2>1, <2>2, GotoQuiet DEF Pcs
  <2>3. CASE \E count \in {RedisCount(Key(r), o), MemoryCount(Key(r))} : Escalate(r, count)
    BY <2>1, <2>3, EscalateDecides DEF Begun
  <2> QED  BY <1>4, <2>2, <2>3 DEF IncrViolations
<1>5. CASE ExpireViolations(r, o)
  <2>1. pc[r] = "expire" /\ todo' = todo
    BY <1>5 DEF ExpireViolations
  <2>2. \E count \in {1, MemoryCount(Key(r))} : Escalate(r, count)
    BY <1>5 DEF ExpireViolations
  <2> QED  BY <2>1, <2>2, EscalateDecides DEF Begun
<1>6. CASE SetBlock(r, o)
  BY <1>6, GotoQuiet DEF SetBlock, Pcs
<1>7. CASE ReleaseJail(r, o)
  <2>1. memoryStore' = memoryStore /\ pc[r] = "del"
    BY <1>7 DEF ReleaseJail, memory
  <2>2. CASE Goto(r, "replied") /\ todo' = todo
    BY <2>1, <2>2, GotoQuiet DEF Pcs
  <2>3. CASE PassOn(r)
    BY <2>1, <2>3, EndTurnQuiet
  <2> QED  BY <1>7, <2>2, <2>3 DEF ReleaseJail
<1>8. CASE PlaceInJail(r, o)
  BY <1>8, EndTurnQuiet DEF PlaceInJail, EndTurn, memory
<1> QED  BY <1>1, <1>2, <1>3, <1>4, <1>5, <1>6, <1>7, <1>8 DEF RedisStep

\* Time does not block anybody.
LEMMA TickUnblocks ==
  ASSUME TypeOK, Tick, NEW k \in Keys
  PROVE  memoryStore'[k].reason = "escalated"
           => /\ memoryStore'[k].left <= memoryStore[k].left
              /\ memoryStore[k].reason = "escalated"
<1>1. memoryStore[k] \in [left : Durations, reason : Reasons]
  BY DEF TypeOK, StoreTypeOK
<1>2. memoryStore[k].left \in Int
  BY <1>1, DurationAssumption DEF Durations
<1>3. memoryStore'[k] = AgeBlock(memoryStore[k])
  BY DEF Tick, StoreTick
<1>4. CASE memoryStore[k].left > 1
  BY <1>1, <1>2, <1>3, <1>4 DEF AgeBlock
<1>5. CASE ~(memoryStore[k].left > 1)
  BY <1>3, <1>5 DEF AgeBlock, Unblocked
<1> QED  BY <1>4, <1>5

\* An admin's block is not an escalation (security-api/routes.js:53).
LEMMA AdminBlocksByHand ==
  ASSUME TypeOK, NEW a \in Admins, AdminBlock(a), NEW k \in Keys
  PROVE  memoryStore'[k] = memoryStore[k] \/ memoryStore'[k].reason = "manual"
  BY DEF AdminBlock, StartBlock, TypeOK, StoreTypeOK

\* Every step keeps the decisions: the clock ends blocks, and those that an
\* admin starts are no escalations (security-api/routes.js:48-56).
LEMMA DecidesStep ==
  ASSUME TypeOK, TurnsHeld, DecidesUnblocked, [Next]_vars
  PROVE  DecidesUnblocked'
<1> USE DEF TurnPcs, Decided
<1>1. ASSUME NEW r \in Requests, Arrive(r) PROVE DecidesUnblocked'
  <2>1. OthersStay(r) /\ pc'[r] = "guard" /\ memoryStore' = memoryStore
    BY <1>1 DEF Arrive, Goto, OthersStay, TypeOK, store, memory
  <2> QED  BY <2>1, QuietStep
<1>2. ASSUME NEW r \in Requests, Step(r) PROVE DecidesUnblocked'
  <2>1. CASE \E o \in regime : RedisStep(r, o)
    BY <2>1, DecidesRedisStep
  <2>2. CASE JailLimit(r)
    <3>1. memoryStore' = memoryStore /\ pc[r] = "jailLimit"
      BY <2>2 DEF JailLimit, store, memory
    <3> QED  BY <2>2, <3>1, EndTurnQuiet, GotoQuiet DEF JailLimit, EndTurn, Pcs
  <2>3. CASE Forward(r) \/ Reply(r) \/ RecordOutcome(r)
    <3>1. /\ OthersStay(r) /\ pc'[r] \notin Decided /\ memoryStore' = memoryStore
      BY <2>3 DEF Forward, Reply, RecordOutcome, Goto, OthersStay, TypeOK, store, memory
    <3> QED  BY <3>1, QuietStep
  <2>4. CASE FailLimit(r)
    <3>1. pc[r] = "failLimit" /\ memoryStore' = memoryStore
      BY <2>4 DEF FailLimit, store, memory
    <3>2. OthersStay(r) /\ pc'[r] \notin Decided
      BY <2>4, <3>1, PassOnType DEF FailLimit, Goto, OthersStay, TypeOK
    <3> QED  BY <3>1, <3>2, QuietStep
  <2> QED  BY <1>2, <2>1, <2>2, <2>3, <2>4 DEF Step
<1>3. ASSUME UNCHANGED <<pc, todo>>,
             \A k \in Keys : Escalated(k)' => Escalated(k)
      PROVE  DecidesUnblocked'
  BY <1>3, KeyType DEF DecidesUnblocked, Key
<1>4. ASSUME NEW a \in Admins, AdminStep(a) PROVE DecidesUnblocked'
  <2>1. UNCHANGED <<pc, todo>>
    BY <1>4 DEF AdminStep, AdminBlock, AdminBlocked, request
  <2>2. \A k \in Keys : memoryStore'[k] = memoryStore[k] \/ memoryStore'[k].reason = "manual"
    BY <1>4, AdminBlocksByHand DEF AdminStep, AdminBlocked, memory
  <2> QED  BY <2>1, <2>2, <1>3 DEF Escalated
<1>5. CASE Tick
  <2>1. UNCHANGED <<pc, todo>>
    BY <1>5 DEF Tick, request
  <2>2. \A k \in Keys : memoryStore[k].left \in Int /\ memoryStore'[k].left \in Int
    <3>1. TypeOK'
      BY TypeStep
    <3>2. Durations \subseteq Int
      BY DurationAssumption DEF Durations
    <3> QED  BY <3>1, <3>2 DEF TypeOK, StoreTypeOK
  <2>3. \A k \in Keys : Escalated(k)' => Escalated(k)
    BY <1>5, <2>2, TickUnblocks DEF Escalated
  <2> QED  BY <2>1, <2>3, <1>3
<1>6. CASE UNCHANGED vars
  BY <1>6, <1>3 DEF vars, request, store, memory, Escalated
<1> QED  BY <1>1, <1>2, <1>4, <1>5, <1>6 DEF Next

\* The inductive invariant that the theorems below rest on.
LEMMA Invariance == Spec => []Inv
<1>1. Init => Inv
  BY TypeInit, TurnsInit, DecidesInit DEF Inv
<1>2. Inv /\ [Next]_vars => Inv'
  BY TypeStep, TurnsStep, DecidesStep DEF Inv
<1> QED  BY <1>1, <1>2, PTL DEF Spec

\* What a turn saw in its recheck still holds when it acts on it
\* (index.js:117-123, 223-241).
THEOREM DecisionsStand == Spec => []DecidesUnblocked
<1>1. Inv => DecidesUnblocked  BY DEF Inv
<1> QED  BY <1>1, Invariance, PTL

-----------------------------------------------------------------------------
(* One escalation per block                                                 *)

\* What a step may do to a key whose own escalation is in force.
NotChargedAgain(k) ==
    /\ memoryStore'[k].reason = "escalated" => memoryStore'[k].left <= memoryStore[k].left
    /\ memoryViolations'[k].count <= memoryViolations[k].count
    /\ redisViolations'[k].count <= redisViolations[k].count

\* Counts and TTLs are numbers, for the comparisons of OneEscalationPerBlock.
LEMMA NumberTypes ==
  ASSUME TypeOK, NEW k \in Keys
  PROVE  /\ memoryStore[k].left \in Int
         /\ memoryViolations[k].count \in Nat
         /\ redisViolations[k].count \in Nat
<1>1. Durations \subseteq Int /\ 0..ViolationCap \subseteq Nat
  BY DurationAssumption, CapAssumption DEF Durations
<1>2. /\ memoryStore \in [Keys -> [left : Durations, reason : Reasons]]
      /\ memoryViolations \in [Keys -> [count : 0..ViolationCap, left : 0..ViolationWindow]]
      /\ redisViolations \in
             [Keys -> [count : 0..ViolationCap, left : {NoTtl} \cup 0..ViolationWindow]]
  BY DEF TypeOK, StoreTypeOK
<1> QED  BY <1>1, <1>2

\* A step that leaves the key's entries alone.
LEMMA UntouchedKey ==
  ASSUME TypeOK, NEW k \in Keys,
         memoryStore'[k] = memoryStore[k],
         memoryViolations'[k] = memoryViolations[k],
         redisViolations'[k] = redisViolations[k]
  PROVE  NotChargedAgain(k)
  BY NumberTypes DEF NotChargedAgain

\* A charge is to the key of the turn that makes it.
LEMMA ChargesOneKey ==
  ASSUME TypeOK, NEW r \in Requests, NEW o \in regime,
         IncrViolations(r, o) \/ ExpireViolations(r, o), NEW k \in Keys, k # Key(r)
  PROVE  /\ memoryStore'[k] = memoryStore[k]
         /\ memoryViolations'[k] = memoryViolations[k]
         /\ redisViolations'[k] = redisViolations[k]
<1>1. /\ memoryStore' = memoryStore
         \/ \E ttl : memoryStore' = [memoryStore EXCEPT
                                        ![Key(r)] = [left |-> ttl, reason |-> "escalated"]]
  BY DEF IncrViolations, ExpireViolations, Escalate, StartBlock
<1>2. memoryStore'[k] = memoryStore[k]
  BY <1>1 DEF TypeOK, StoreTypeOK
<1>3. \/ memoryViolations' = memoryViolations
      \/ \E e : memoryViolations' = [memoryViolations EXCEPT ![Key(r)] = e]
  BY DEF IncrViolations, ExpireViolations, CountInMemory
<1>4. memoryViolations'[k] = memoryViolations[k]
  BY <1>3 DEF TypeOK, StoreTypeOK
<1>5. Incr(Key(r), o) \/ Expire(Key(r), o)
  BY DEF IncrViolations, ExpireViolations
<1>6. redisViolations'[k] = redisViolations[k]
  BY <1>5 DEF Incr, Expire, TypeOK, StoreTypeOK
<1> QED  BY <1>2, <1>4, <1>6

\* Time forgets counts and adds none.
LEMMA TickCounts ==
  ASSUME TypeOK, Tick, NEW k \in Keys
  PROVE  /\ memoryViolations'[k].count <= memoryViolations[k].count
         /\ redisViolations'[k].count <= redisViolations[k].count
<1>1. /\ memoryViolations'[k] = AgeCount(memoryViolations[k])
      /\ redisViolations'[k] = AgeCount(redisViolations[k])
  BY DEF Tick, StoreTick
<1>2. ASSUME NEW e, e = [count |-> e.count, left |-> e.left], e.count \in Nat
      PROVE  AgeCount(e).count <= e.count
  <2>1. CASE e.left = 1  BY <1>2, <2>1 DEF AgeCount, NoCount
  <2>2. CASE e.left # 1
    <3>1. AgeCount(e) = [e EXCEPT !.left = Less(e.left)]
      BY <2>2 DEF AgeCount
    <3>2. [e EXCEPT !.left = Less(e.left)].count = e.count
      BY <1>2
    <3> QED  BY <1>2, <3>1, <3>2
  <2> QED  BY <2>1, <2>2
<1>3. /\ memoryViolations[k] = [count |-> memoryViolations[k].count,
                                left |-> memoryViolations[k].left]
      /\ redisViolations[k] = [count |-> redisViolations[k].count,
                               left |-> redisViolations[k].left]
  BY DEF TypeOK, StoreTypeOK
<1> QED  BY <1>1, <1>2, <1>3, NumberTypes

\* Only the head of a key's queue charges the key, it has just seen the key
\* free, and DecidesUnblocked says that it still is.
LEMMA OneEscalationStep ==
  ASSUME Inv, Next, NEW k \in Keys, Escalated(k)
  PROVE  NotChargedAgain(k)
<1> USE DEF Inv
<1>1. ASSUME UNCHANGED <<memoryStore, memoryViolations, redisViolations>>
      PROVE  NotChargedAgain(k)
  BY <1>1, UntouchedKey
<1>2. ASSUME NEW r \in Requests, Arrive(r) PROVE NotChargedAgain(k)
  BY <1>1, <1>2 DEF Arrive, store, memory, redis
<1>3. ASSUME NEW r \in Requests, Step(r) PROVE NotChargedAgain(k)
  <2>1. CASE \E o \in regime : RedisStep(r, o)
    <3>1. PICK o \in regime : RedisStep(r, o)
      BY <2>1
    <3>2. CASE IncrViolations(r, o) \/ ExpireViolations(r, o)
      <4>1. ~Escalated(Key(r))
        BY <3>2 DEF IncrViolations, ExpireViolations, DecidesUnblocked
      <4> QED  BY <3>2, <4>1, ChargesOneKey, UntouchedKey
    <3>3. CASE \/ GuardCheck(r, o) \/ Recheck(r, o) \/ CheckJail(r, o)
               \/ SetBlock(r, o) \/ ReleaseJail(r, o) \/ PlaceInJail(r, o)
      <4>1. UNCHANGED <<memoryStore, memoryViolations, redisViolations>>
        BY <3>3 DEF GuardCheck, Recheck, CheckJail, SetBlock, ReleaseJail, PlaceInJail,
                    store, memory, redis
      <4> QED  BY <1>1, <4>1
    <3> QED  BY <3>1, <3>2, <3>3 DEF RedisStep
  <2>2. CASE JailLimit(r) \/ Forward(r) \/ Reply(r) \/ RecordOutcome(r) \/ FailLimit(r)
    BY <1>1, <2>2 DEF JailLimit, Forward, Reply, RecordOutcome, FailLimit, store, memory, redis
  <2> QED  BY <1>3, <2>1, <2>2 DEF Step
<1>4. ASSUME NEW a \in Admins, AdminBlock(a) PROVE NotChargedAgain(k)
  <2>1. UNCHANGED <<memoryViolations, redisViolations>>
    BY <1>4 DEF AdminBlock
  <2> QED  BY <1>4, <2>1, AdminBlocksByHand, NumberTypes DEF NotChargedAgain
<1>5. ASSUME NEW a \in Admins, NEW o \in regime, AdminBlocked(a, o)
      PROVE  NotChargedAgain(k)
  BY <1>1, <1>5 DEF AdminBlocked, memory
<1>6. CASE Tick
  BY <1>6, TickUnblocks, TickCounts DEF NotChargedAgain
<1> QED  BY <1>2, <1>3, <1>4, <1>5, <1>6 DEF Next, AdminStep

\* ARM-02: while a key's own escalation is in force, nobody charges the key
\* another violation or lengthens the block (blocklist.js:25-34).
THEOREM EscalatesOnce == Spec => OneEscalationPerBlock
<1>1. Inv /\ [Next]_vars =>
        [\A k \in Keys : Escalated(k) =>
            /\ memoryStore'[k].reason = "escalated"
                  => memoryStore'[k].left <= memoryStore[k].left
            /\ memoryViolations'[k].count <= memoryViolations[k].count
            /\ redisViolations'[k].count <= redisViolations[k].count]_vars
  BY OneEscalationStep DEF NotChargedAgain
<1> QED  BY <1>1, Invariance, PTL DEF Spec, OneEscalationPerBlock
-----------------------------------------------------------------------------
(* The mirror and Redis                                                     *)

\* Whoever blocks the key, in its turn or an admin without one, what Redis has
\* and is about to get backs the mirror (blocklist.js:46-55).
BackedKeys == \A k \in Keys : Backed(k)

\* The mirror starts empty.
LEMMA BackedInit == Init => BackedKeys
  BY DEF Init, StoreInit, BackedKeys, Backed, Unblocked

\* An escalation backs what it blocks (blocklist.js:101-102).
LEMMA EscalateBacks ==
  ASSUME TypeOK, BackedKeys, NEW r \in Requests, pc[r] # "idle",
         NEW count \in 1..ViolationCap, Escalate(r, count), UNCHANGED <<redisStore, regime>>
  PROVE  BackedKeys'
<1>1. r \in Writers /\ Key(r) \in Keys /\ BlockTtl(count) \in Durations /\ StoreTypeOK
  BY ActorAssumption, KeyType, BlockTtlType DEF TypeOK
<1>2. StartBlock(r, Key(r), BlockTtl(count), "escalated")
  BY DEF Escalate
<1> QED  BY <1>1, <1>2, StartBlockBacks DEF BackedKeys

\* Every step keeps the mirror backed: block starts in one step with its SET,
\* and only the reply to it changes Redis.
LEMMA BackedStep ==
  ASSUME TypeOK, BackedKeys, [Next]_vars
  PROVE  BackedKeys'
<1> USE DEF BackedKeys
<1>1. StoreTypeOK
  BY DEF TypeOK
<1>2. CASE UNCHANGED <<memoryStore, redisStore, wire, regime>>
  BY <1>2, QuietBacks
<1>3. ASSUME NEW r \in Requests, Arrive(r) PROVE BackedKeys'
  BY <1>2, <1>3 DEF Arrive, store, memory, redis
<1>4. ASSUME NEW r \in Requests, Step(r) PROVE BackedKeys'
  <2>1. ASSUME NEW o \in regime, IncrViolations(r, o) \/ ExpireViolations(r, o)
        PROVE  BackedKeys'
    <3>1. pc[r] # "idle" /\ Key(r) \in Keys /\ o \in AllOutcomes
      BY <2>1, KeyType, OutcomeType DEF IncrViolations, ExpireViolations
    <3>2. UNCHANGED <<redisStore, regime>>
      BY <2>1 DEF IncrViolations, ExpireViolations
    <3>3. /\ MemoryCount(Key(r)) \in 1..ViolationCap /\ 1 \in 1..ViolationCap
          /\ Acked(o) => RedisCount(Key(r), o) \in 1..ViolationCap
      BY <1>1, <3>1, CountInMemoryType, IncrType, CapAssumption
    <3>4. \/ UNCHANGED <<memoryStore, redisStore, wire, regime>>
          \/ \E count \in 1..ViolationCap : Escalate(r, count)
      BY <2>1, <3>3 DEF IncrViolations, ExpireViolations
    <3> QED  BY <1>2, <3>1, <3>2, <3>4, EscalateBacks
  <2>2. ASSUME NEW o \in regime, SetBlock(r, o) PROVE BackedKeys'
    BY <1>1, <2>2, EndBlockBacks DEF SetBlock
  <2>3. ASSUME NEW o \in regime,
               \/ GuardCheck(r, o) \/ Recheck(r, o) \/ CheckJail(r, o)
               \/ ReleaseJail(r, o) \/ PlaceInJail(r, o)
        PROVE  BackedKeys'
    BY <1>2, <2>3 DEF GuardCheck, Recheck, CheckJail, ReleaseJail, PlaceInJail,
                      store, memory, redis
  <2>4. CASE JailLimit(r) \/ Forward(r) \/ Reply(r) \/ RecordOutcome(r) \/ FailLimit(r)
    BY <1>2, <2>4 DEF JailLimit, Forward, Reply, RecordOutcome, FailLimit,
                      store, memory, redis
  <2> QED  BY <1>4, <2>1, <2>2, <2>3, <2>4 DEF Step, RedisStep
<1>5. ASSUME NEW a \in Admins, AdminBlock(a) PROVE BackedKeys'
  <2>1. a \in Writers /\ ManualBlock \in Durations
    BY ActorAssumption, DurationAssumption DEF Durations
  <2> QED  BY <1>1, <1>5, <2>1, StartBlockBacks DEF AdminBlock
<1>6. ASSUME NEW a \in Admins, NEW o \in regime, AdminBlocked(a, o) PROVE BackedKeys'
  BY <1>1, <1>6, EndBlockBacks DEF AdminBlocked, memory
<1>7. CASE Tick
  BY <1>1, <1>7, StoreTickBacks DEF Tick
<1>8. CASE UNCHANGED vars
  BY <1>2, <1>8 DEF vars, store, memory, redis
<1> QED  BY <1>3, <1>4, <1>5, <1>6, <1>7, <1>8 DEF Next, AdminStep

\* A block survives the loss of the mirror as long as Redis answers, also when
\* an admin and an escalation block the same key at once (redis/client.js:5-6).
THEOREM MirrorBacked == Spec => []MirrorIsBacked
<1>1. (TypeOK /\ BackedKeys) /\ [Next]_vars => (TypeOK /\ BackedKeys)'
  BY TypeStep, BackedStep
<1>2. BackedKeys => MirrorIsBacked
  BY DEF BackedKeys, Backed, MirrorIsBacked
<1> QED  BY <1>1, <1>2, TypeInit, BackedInit, PTL DEF Spec

-----------------------------------------------------------------------------
(* Undisturbed turns                                                        *)

\* The awaits at which a turn goes by a blocklist that has not got its key.
Pending == Decided \cup {"place"}

\* Every SET on the connection is that of a turn that awaits it.
SetsAwaited ==
    /\ \A i \in DOMAIN wire :
           /\ wire[i].by \in Requests
           /\ pc[wire[i].by] = "set"
           /\ wire[i].key = Key(wire[i].by)
    /\ \A i, j \in DOMAIN wire : wire[i].by = wire[j].by => i = j

\* And such a turn works at a key that neither the mirror nor Redis blocks.
PendingUnblocked ==
    \A r \in Requests : pc[r] \in Pending =>
        redisStore[Key(r)] = 0 /\ ~(memoryStore[Key(r)].left > 0)

\* Redis that no command reaches has nothing.
Unreached ==
    regime \subseteq {"lost"} => \A k \in Keys : redisStore[k] = 0 /\ redisJail[k] = 0

Listed == SetsAwaited /\ PendingUnblocked

\* A step that touches neither the connection nor what Redis lists, by a
\* request that has no SET on its way and does not begin to rely on the list.
LEMMA QuietListed ==
  ASSUME Listed, NEW r \in Requests, OthersStay(r),
         wire' = wire, redisStore' = redisStore, memoryStore' = memoryStore, pc[r] # "set",
         pc'[r] \in Pending => pc[r] \in Pending /\ todo'[r] = todo[r]
  PROVE  Listed'
<1>1. SetsAwaited'
  BY DEF Listed, SetsAwaited, OthersStay, Key
<1>2. PendingUnblocked'
  BY DEF Listed, PendingUnblocked, OthersStay, Key
<1> QED  BY <1>1, <1>2 DEF Listed

\* The same of the end of a turn, which relies on nothing any more.
LEMMA EndTurnListed ==
  ASSUME TypeOK, Listed, NEW r \in Requests, pc[r] \in TurnPcs \ {"set"}, PassOn(r),
         wire' = wire, redisStore' = redisStore, memoryStore' = memoryStore
  PROVE  Listed'
<1>1. pc[r] # "idle" /\ pc[r] # "set"  BY DEF TurnPcs
<1>2. OthersStay(r) /\ pc'[r] \notin Pending
  BY <1>1, PassOnType DEF OthersStay, Pending, Decided
<1> QED  BY <1>1, <1>2, QuietListed

\* And of a step to another await of the turn.
LEMMA GotoListed ==
  ASSUME TypeOK, Listed, NEW r \in Requests, NEW p \in Pcs, Goto(r, p), pc[r] # "set",
         todo' = todo, wire' = wire, redisStore' = redisStore, memoryStore' = memoryStore,
         p \in Pending => pc[r] \in Pending
  PROVE  Listed'
<1>1. OthersStay(r) /\ pc'[r] = p
  BY DEF Goto, OthersStay, TypeOK
<1> QED  BY <1>1, QuietListed

\* An escalation puts its SET on the connection and awaits it (blocklist.js:51).
LEMMA EscalateListed ==
  ASSUME TypeOK, TurnsHeld, Listed, NEW r \in Requests, NEW count,
         pc[r] \in Begun \ {"set"}, Escalate(r, count), todo' = todo,
         redisStore' = redisStore
  PROVE  Listed'
<1> DEFINE Command == [by : Writers, key : Keys, ttl : Durations]
           mine == [by |-> r, key |-> Key(r), ttl |-> BlockTtl(count)]
<1>1. wire' = Append(wire, mine)
  BY DEF Escalate, StartBlock
<1>2. OthersStay(r) /\ pc'[r] = "set"
  BY DEF Escalate, Goto, OthersStay, TypeOK
<1>3. wire \in Seq(Command)
  BY DEF TypeOK, StoreTypeOK
<1>4. mine.by = r /\ mine.key = Key(r)
  OBVIOUS
<1> HIDE DEF Command, mine
<1>5. /\ DOMAIN wire' = 1..(Len(wire) + 1) /\ DOMAIN wire = 1..Len(wire) /\ Len(wire) \in Nat
      /\ wire'[Len(wire) + 1] = mine
      /\ \A i \in 1..Len(wire) : wire'[i] = wire[i]
  BY <1>1, <1>3
<1>6. \A i \in 1..Len(wire) : wire[i].by # r
  BY <1>5 DEF Listed, SetsAwaited
<1>7. \A i \in DOMAIN wire' : i \in 1..Len(wire) \/ i = Len(wire) + 1
  BY <1>5
<1>8. ASSUME NEW i \in DOMAIN wire'
      PROVE  /\ wire'[i].by \in Requests
             /\ pc'[wire'[i].by] = "set"
             /\ wire'[i].key = Head(todo'[wire'[i].by])
  <2>1. CASE i \in 1..Len(wire)
    BY <1>2, <1>5, <1>6, <2>1 DEF Listed, SetsAwaited, OthersStay, Key
  <2>2. CASE i = Len(wire) + 1
    BY <1>2, <1>4, <1>5, <2>2 DEF Key
  <2> QED  BY <1>7, <2>1, <2>2
<1>9. \A i, j \in DOMAIN wire' : wire'[i].by = wire'[j].by => i = j
  BY <1>4, <1>5, <1>6, <1>7 DEF Listed, SetsAwaited
<1>10. SetsAwaited'
  BY <1>8, <1>9 DEF SetsAwaited, Key
<1>11. \A k \in Keys : k # Key(r) => memoryStore'[k] = memoryStore[k]
  BY DEF Escalate, StartBlock, TypeOK, StoreTypeOK
<1>12. ASSUME NEW q \in Requests, pc'[q] \in Pending
       PROVE  redisStore'[Key(q)'] = 0 /\ ~(memoryStore'[Key(q)'].left > 0)
  <2>1. q # r /\ pc[q] \in Pending /\ Key(q)' = Key(q)
    BY <1>2, <1>12 DEF OthersStay, Pending, Decided, Key
  <2>2. Key(q) \in Keys /\ Key(q) # Key(r)
    BY <2>1, KeysApart, KeyType DEF Pending, Decided, Begun, TurnPcs
  <2> QED  BY <1>11, <2>1, <2>2 DEF Listed, PendingUnblocked
<1>13. PendingUnblocked'
  BY <1>12 DEF PendingUnblocked
<1> QED  BY <1>10, <1>13 DEF Listed

\* The SET of a turn is answered, or lost: nobody else relies on that key, as
\* its turn holds the lock (index.js:112, 212).
LEMMA SetBlockListed ==
  ASSUME Inv, Listed, NEW r \in Requests, NEW o, SetBlock(r, o)
  PROVE  Listed'
<1>1. TypeOK /\ StoreTypeOK /\ TurnsHeld
  BY DEF Inv, TypeOK
<1>2. EndBlock(r, o) /\ todo' = todo /\ pc[r] = "set" /\ memoryStore' = memoryStore
  BY DEF SetBlock
<1>3. OthersStay(r) /\ pc'[r] = "del"
  BY <1>1 DEF SetBlock, Goto, OthersStay, TypeOK
<1>4. PICK i \in DOMAIN wire :
        /\ wire[i].by = r
        /\ redisStore' = IF Applied(o) THEN [redisStore EXCEPT ![wire[i].key] = wire[i].ttl]
                         ELSE redisStore
        /\ \A j \in DOMAIN wire' :
              /\ j \in Nat
              /\ j < i => j \in DOMAIN wire /\ wire'[j] = wire[j]
              /\ j >= i => j + 1 \in DOMAIN wire /\ wire'[j] = wire[j + 1]
  BY <1>1, <1>2, EndBlockTakes
<1>5. wire[i].key = Key(r)
  BY <1>4 DEF Listed, SetsAwaited
<1>6. i \in Nat
  BY <1>1, LenProperties DEF StoreTypeOK
\* Where the commands that are left were.
<1> DEFINE was(j) == IF j < i THEN j ELSE j + 1
<1>7. \A j \in DOMAIN wire' : /\ was(j) \in DOMAIN wire /\ was(j) # i
                              /\ wire'[j] = wire[was(j)]
  BY <1>4, <1>6
<1>8. \A j, l \in DOMAIN wire' : was(j) = was(l) => j = l
  BY <1>4, <1>6
<1> HIDE DEF was
<1>9. \A j \in DOMAIN wire' : wire'[j].by # r
  BY <1>4, <1>7 DEF Listed, SetsAwaited
<1>10. SetsAwaited'
  <2>1. ASSUME NEW j \in DOMAIN wire'
        PROVE  /\ wire'[j].by \in Requests
               /\ pc'[wire'[j].by] = "set"
               /\ wire'[j].key = Head(todo'[wire'[j].by])
    BY <1>2, <1>3, <1>7, <1>9 DEF Listed, SetsAwaited, OthersStay, Key
  <2>2. ASSUME NEW j \in DOMAIN wire', NEW l \in DOMAIN wire', wire'[j].by = wire'[l].by
        PROVE  j = l
    BY <1>7, <1>8, <2>2 DEF Listed, SetsAwaited
  <2> QED  BY <2>1, <2>2 DEF SetsAwaited, Key
<1>11. ASSUME NEW q \in Requests, pc'[q] \in Pending
       PROVE  redisStore'[Key(q)'] = 0 /\ ~(memoryStore'[Key(q)'].left > 0)
  <2>1. q # r /\ pc[q] \in Pending /\ Key(q)' = Key(q)
    BY <1>2, <1>3, <1>11 DEF OthersStay, Pending, Decided, Key
  <2>2. Key(q) # Key(r)
    BY <1>1, <1>2, <2>1, KeysApart DEF Pending, Decided, Begun, TurnPcs
  <2>3. Key(q) \in Keys /\ redisStore \in [Keys -> Durations]
    BY <1>1, <2>1, KeyType DEF StoreTypeOK, Pending, Decided
  <2>4. redisStore'[Key(q)] = redisStore[Key(q)]
    BY <1>4, <1>5, <2>2, <2>3
  <2> QED  BY <1>2, <2>1, <2>4 DEF Listed, PendingUnblocked
<1> QED  BY <1>10, <1>11 DEF Listed, PendingUnblocked

\* Redis answers throughout, perhaps after a resend, or is down throughout, and
\* no admin blocks by hand.
Undisturbed ==
    /\ \A outcomes \in Regimes : outcomes \subseteq {"ok", "resent"} \/ outcomes \subseteq {"lost"}
    /\ Admins = {}

\* Then every command is applied and answered, or none is.
LEMMA AnsweredOrNot ==
  ASSUME Undisturbed, TypeOK, NEW o \in regime
  PROVE  \/ Applied(o) /\ Acked(o)
         \/ regime \subseteq {"lost"} /\ ~Applied(o) /\ ~Acked(o)
  BY DEF Undisturbed, TypeOK, StoreTypeOK, Applied, Acked

\* Down throughout, Redis stays empty (blocklist.js:51-54, 124-128).
LEMMA UnreachedStep ==
  ASSUME TypeOK, Unreached, [Next]_vars
  PROVE  Unreached'
<1> SUFFICES ASSUME regime' \subseteq {"lost"}, NEW k \in Keys
             PROVE  redisStore'[k] = 0 /\ redisJail'[k] = 0
  BY DEF Unreached
<1>1. regime' = regime
  BY DEF Next, Arrive, Step, RedisStep, GuardCheck, Recheck, CheckJail, JailLimit,
         IncrViolations, ExpireViolations, SetBlock, ReleaseJail, PlaceInJail, Forward,
         Reply, RecordOutcome, FailLimit, AdminStep, AdminBlock, AdminBlocked, Tick,
         StoreTick, vars, store
<1>2. redisStore[k] = 0 /\ redisJail[k] = 0 /\ \A o \in regime : ~Applied(o)
  BY <1>1 DEF Unreached, Applied
<1>3. CASE UNCHANGED <<redisStore, redisJail>>
  BY <1>2, <1>3
<1>4. ASSUME NEW r \in Requests, Arrive(r) \/ Step(r)
      PROVE  UNCHANGED <<redisStore, redisJail>>
  <2>1. ASSUME NEW o \in regime, RedisStep(r, o) PROVE UNCHANGED <<redisStore, redisJail>>
    BY <1>2, <2>1 DEF RedisStep, GuardCheck, Recheck, CheckJail, IncrViolations,
         ExpireViolations, SetBlock, ReleaseJail, PlaceInJail, EndBlock, ReleaseInRedis,
         JailInRedis, store, redis
  <2> QED  BY <1>4, <2>1 DEF Arrive, Step, JailLimit, Forward, Reply, RecordOutcome,
         FailLimit, store, redis
<1>5. ASSUME NEW a \in Admins, AdminStep(a) PROVE UNCHANGED <<redisStore, redisJail>>
  BY <1>2, <1>5 DEF AdminStep, AdminBlock, AdminBlocked, EndBlock
<1>6. CASE Tick
  BY <1>2, <1>6 DEF Tick, StoreTick, Less
<1>7. CASE UNCHANGED vars
  BY <1>3, <1>7 DEF vars, store, redis
<1> QED  BY <1>3, <1>4, <1>5, <1>6, <1>7 DEF Next

\* The settling of a Redis command (index.js:112-141, 212-241).
LEMMA ListedRedisStep ==
  ASSUME Undisturbed, Inv, Unreached, Listed,
         NEW r \in Requests, NEW o \in regime, RedisStep(r, o)
  PROVE  Listed'
<1> USE DEF TurnPcs, Pending, Decided
<1>1. /\ TypeOK /\ TurnsHeld
      /\ Acked(o) \/ \A k \in Keys : redisStore[k] = 0
  BY AnsweredOrNot DEF Inv, Unreached
<1>2. CASE GuardCheck(r, o)
  <2>1. UNCHANGED <<wire, redisStore, memoryStore>> /\ todo' = todo /\ pc[r] = "guard"
    BY <1>2 DEF GuardCheck, store, memory, redis
  <2>2. CASE Goto(r, "replied")
    BY <1>1, <2>1, <2>2, GotoListed DEF Pcs
  <2>3. CASE Goto(r, "recheck")
    BY <1>1, <2>1, <2>3, GotoListed DEF Pcs
  <2> QED  BY <1>2, <2>2, <2>3 DEF GuardCheck
<1>3. CASE Recheck(r, o)
  <2>1. UNCHANGED <<wire, redisStore, memoryStore>> /\ pc[r] = "recheck"
    BY <1>3 DEF Recheck, store, memory, redis
  <2>2. CASE EndTurn(r)
    BY <1>1, <2>1, <2>2, EndTurnListed DEF EndTurn
  <2>3. CASE ~BlockedSeen(Key(r), o) /\ Goto(r, "jailed") /\ todo' = todo
    <3>1. redisStore[Key(r)] = 0 /\ ~(memoryStore[Key(r)].left > 0)
      BY <1>1, <2>1, <2>3, KeyType DEF BlockedSeen
    <3>2. OthersStay(r) /\ pc'[r] = "jailed"
      BY <1>1, <2>3 DEF Goto, OthersStay, TypeOK
    <3>3. SetsAwaited'
      BY <2>1, <2>3, <3>2 DEF Listed, SetsAwaited, OthersStay, Key
    <3>4. PendingUnblocked'
      BY <2>1, <2>3, <3>1, <3>2 DEF Listed, PendingUnblocked, OthersStay, Key
    <3> QED  BY <3>3, <3>4 DEF Listed
  <2> QED  BY <1>3, <2>2, <2>3 DEF Recheck
<1>4. CASE CheckJail(r, o)
  <2>1. UNCHANGED <<wire, redisStore, memoryStore>> /\ pc[r] = "jailed"
    BY <1>4 DEF CheckJail, redis
  <2>2. CASE EndTurn(r)
    BY <1>1, <2>1, <2>2, EndTurnListed DEF EndTurn
  <2>3. CASE todo' = todo /\ \E p \in Pcs : Goto(r, p)
    BY <1>1, <2>1, <2>3, GotoListed
  <2> QED  BY <1>4, <2>2, <2>3 DEF CheckJail, Pcs
<1>5. CASE IncrViolations(r, o)
  <2>1. pc[r] = "incr" /\ todo' = todo /\ redisStore' = redisStore
    BY <1>5 DEF IncrViolations
  <2>2. CASE Goto(r, "expire") /\ UNCHANGED <<wire, memoryStore>>
    BY <1>1, <2>1, <2>2, GotoListed DEF Pcs
  <2>3. CASE \E count \in {RedisCount(Key(r), o), MemoryCount(Key(r))} : Escalate(r, count)
    BY <1>1, <2>1, <2>3, EscalateListed DEF Begun
  <2> QED  BY <1>5, <2>2, <2>3 DEF IncrViolations
<1>6. CASE ExpireViolations(r, o)
  <2>1. pc[r] = "expire" /\ todo' = todo /\ redisStore' = redisStore
    BY <1>6 DEF ExpireViolations
  <2>2. \E count \in {1, MemoryCount(Key(r))} : Escalate(r, count)
    BY <1>6 DEF ExpireViolations
  <2> QED  BY <1>1, <2>1, <2>2, EscalateListed DEF Begun
<1>7. CASE SetBlock(r, o)
  BY <1>1, <1>7, SetBlockListed
<1>8. CASE ReleaseJail(r, o)
  <2>1. UNCHANGED <<wire, redisStore, memoryStore>> /\ pc[r] = "del"
    BY <1>8 DEF ReleaseJail, memory
  <2>2. CASE Goto(r, "replied") /\ todo' = todo
    BY <1>1, <2>1, <2>2, GotoListed DEF Pcs
  <2>3. CASE PassOn(r)
    BY <1>1, <2>1, <2>3, EndTurnListed
  <2> QED  BY <1>8, <2>2, <2>3 DEF ReleaseJail
<1>9. CASE PlaceInJail(r, o)
  BY <1>1, <1>9, EndTurnListed DEF PlaceInJail, EndTurn, memory
<1> QED  BY <1>2, <1>3, <1>4, <1>5, <1>6, <1>7, <1>8, <1>9 DEF RedisStep

\* The other steps of a life rely on nothing new, and time lets what is listed
\* lapse.
LEMMA ListedStep ==
  ASSUME Undisturbed, Inv, Unreached, Listed, [Next]_vars
  PROVE  Listed'
<1> USE DEF TurnPcs, Pending, Decided
<1>1. TypeOK
  BY DEF Inv
<1>2. ASSUME NEW r \in Requests, Arrive(r) PROVE Listed'
  <2>1. OthersStay(r) /\ pc[r] = "idle" /\ pc'[r] = "guard"
    BY <1>1, <1>2 DEF Arrive, Goto, OthersStay, TypeOK
  <2>2. UNCHANGED <<wire, redisStore, memoryStore>>
    BY <1>2 DEF Arrive, store, memory, redis
  <2> QED  BY <2>1, <2>2, QuietListed
<1>3. ASSUME NEW r \in Requests, Step(r) PROVE Listed'
  <2>1. CASE \E o \in regime : RedisStep(r, o)
    BY <2>1, ListedRedisStep
  <2>2. CASE JailLimit(r)
    <3>1. UNCHANGED <<wire, redisStore, memoryStore>> /\ pc[r] = "jailLimit"
      BY <2>2 DEF JailLimit, store, memory, redis
    <3>2. CASE EndTurn(r)
      BY <1>1, <3>1, <3>2, EndTurnListed DEF EndTurn
    <3>3. CASE Goto(r, "incr") /\ todo' = todo
      BY <1>1, <3>1, <3>3, GotoListed DEF Pcs
    <3> QED  BY <2>2, <3>2, <3>3 DEF JailLimit
  <2>3. CASE Forward(r)
    BY <1>1, <2>3, GotoListed DEF Forward, Pcs, store, memory, redis
  <2>4. CASE Reply(r)
    BY <1>1, <2>4, GotoListed DEF Reply, Pcs, store, memory, redis
  <2>5. CASE RecordOutcome(r)
    <3>1. UNCHANGED <<wire, redisStore, memoryStore>> /\ pc[r] = "replied"
      BY <2>5 DEF RecordOutcome, store, memory, redis
    <3>2. OthersStay(r) /\ pc'[r] \in {"failLimit", "idle"}
      BY <1>1, <2>5 DEF RecordOutcome, Goto, OthersStay, TypeOK
    <3> QED  BY <3>1, <3>2, QuietListed
  <2>6. CASE FailLimit(r)
    <3>1. UNCHANGED <<wire, redisStore, memoryStore>> /\ pc[r] = "failLimit"
      BY <2>6 DEF FailLimit, store, memory, redis
    <3>2. CASE PassOn(r)
      BY <1>1, <3>1, <3>2, PassOnType, QuietListed DEF OthersStay
    <3>3. CASE Goto(r, "recheck") /\ todo' = todo
      BY <1>1, <3>1, <3>3, GotoListed DEF Pcs
    <3> QED  BY <2>6, <3>2, <3>3 DEF FailLimit
  <2> QED  BY <1>3, <2>1, <2>2, <2>3, <2>4, <2>5, <2>6 DEF Step
<1>4. CASE Tick
  <2>1. pc' = pc /\ todo' = todo /\ wire' = wire
    BY <1>4 DEF Tick, StoreTick, request
  <2>2. ASSUME NEW k \in Keys, redisStore[k] = 0 PROVE redisStore'[k] = 0
    BY <1>4, <2>2 DEF Tick, StoreTick, Less
  <2>3. ASSUME NEW k \in Keys, ~(memoryStore[k].left > 0) PROVE ~(memoryStore'[k].left > 0)
    <3>1. memoryStore[k].left \in Nat
      BY <1>1, BlockNumbers DEF TypeOK
    <3> QED  BY <1>4, <2>3, <3>1 DEF Tick, StoreTick, AgeBlock, Unblocked
  <2>4. \A r \in Requests : pc[r] \in Pending => Key(r) \in Keys
    BY <1>1, KeyType
  <2> QED  BY <2>1, <2>2, <2>3, <2>4 DEF Listed, SetsAwaited, PendingUnblocked, Key
<1>5. CASE UNCHANGED vars
  BY <1>5 DEF vars, request, store, memory, redis, Listed, SetsAwaited, PendingUnblocked, Key
<1>6. Admins = {}
  BY DEF Undisturbed
<1> QED  BY <1>2, <1>3, <1>4, <1>5, <1>6 DEF Next

\* At first nothing is on the connection and nobody relies on anything.
LEMMA ListedInit == Init => Listed /\ Unreached
<1> SUFFICES ASSUME Init PROVE Listed /\ Unreached
  OBVIOUS
<1>1. DOMAIN wire = {} /\ \A r \in Requests : pc[r] = "idle"
  BY DEF Init, StoreInit
<1>2. Listed
  BY <1>1 DEF Listed, SetsAwaited, PendingUnblocked, Pending, Decided
<1> QED  BY <1>2 DEF Unreached, Init, StoreInit
-----------------------------------------------------------------------------
(* The tiers of a key                                                       *)

StoreBlocked(k) == memoryStore[k].left > 0 \/ redisStore[k] # 0
InJail(k) == memoryJail[k] > 0 \/ redisJail[k] > 0

\* block and releaseFromJail leave nothing of the stay that the block used up
\* (index.js:121-122, 223-224): what a block could lapse into is free.
NoStay(k) ==
    /\ HolderAt(k, {"del"}) => memoryJail[k] = 0
    /\ StoreBlocked(k) /\ ~HolderAt(k, {"set"}) => memoryJail[k] = 0
    /\ StoreBlocked(k) /\ ~HolderAt(k, {"set", "del"}) => redisJail[k] = 0

NoStayLeft == \A k \in Keys : NoStay(k)

\* What a step may do to the tier of a key.
MayMove(k) ==
    \/ Tier(k)' \in {Tier(k), "free"}
    \/ Tier(k) = "free" /\ Tier(k)' = "jailed"
    \/ Tier(k) = "jailed" /\ Tier(k)' = "blocked"

\* A key in no step's way.
Untouched(k) ==
    /\ memoryStore'[k] = memoryStore[k] /\ redisStore'[k] = redisStore[k]
    /\ memoryJail'[k] = memoryJail[k] /\ redisJail'[k] = redisJail[k]
    /\ \A pcs \in SUBSET Begun : HolderAt(k, pcs)' <=> HolderAt(k, pcs)

LEMMA UntouchedTier ==
  ASSUME NEW k, Untouched(k)
  PROVE  /\ Tier(k)' = Tier(k)
         /\ NoStay(k) => NoStay(k)'
<1>1. {"set", "del"} \in SUBSET Begun /\ {"set"} \in SUBSET Begun /\ {"del"} \in SUBSET Begun
      /\ {"jailLimit", "incr", "expire", "place"} \in SUBSET Begun
  BY DEF Begun, TurnPcs
<1>2. /\ StoreBlocked(k)' <=> StoreBlocked(k)
      /\ memoryJail'[k] = memoryJail[k] /\ redisJail'[k] = redisJail[k]
  BY DEF Untouched, StoreBlocked
<1>3. /\ HolderAt(k, {"set", "del"})' <=> HolderAt(k, {"set", "del"})
      /\ HolderAt(k, {"set"})' <=> HolderAt(k, {"set"})
      /\ HolderAt(k, {"del"})' <=> HolderAt(k, {"del"})
      /\ HolderAt(k, {"jailLimit", "incr", "expire", "place"})'
            <=> HolderAt(k, {"jailLimit", "incr", "expire", "place"})
  BY <1>1 DEF Untouched
<1>4. (Blocked(k)' <=> Blocked(k)) /\ (Jailed(k)' <=> Jailed(k))
  BY <1>2, <1>3 DEF Blocked, Jailed, StoreBlocked
<1>5. Tier(k)' = Tier(k)
  BY <1>4 DEF Tier
<1>6. NoStay(k) => NoStay(k)'
  BY <1>2, <1>3 DEF NoStay
<1> QED  BY <1>5, <1>6

\* The head of a queue is one of its requests, and in a turn on its key.
LEMMA HeadFacts ==
  ASSUME TypeOK, TurnsHeld, NEW k \in Keys, queue[k] # <<>>
  PROVE  /\ Head(queue[k]) \in Requests /\ Head(queue[k]) = queue[k][1]
         /\ pc[Head(queue[k])] \in TurnPcs /\ Key(Head(queue[k])) = k
<1>1. 1 \in 1..Len(queue[k]) /\ Head(queue[k]) = queue[k][1]
  BY QueueFacts
<1> QED  BY <1>1, QueueFacts

\* The holders of the other keys stay where they are.
LEMMA OtherHolders ==
  ASSUME TypeOK, TurnsHeld, NEW r \in Requests, OthersStay(r),
         NEW k \in Keys, k # Key(r), queue'[k] = queue[k], NEW pcs
  PROVE  HolderAt(k, pcs)' <=> HolderAt(k, pcs)
<1>1. CASE queue[k] = <<>>
  BY <1>1 DEF HolderAt
<1>2. CASE queue[k] # <<>>
  <2>1. Head(queue[k]) \in Requests /\ Head(queue[k]) # r
    BY <1>2, HeadFacts
  <2> QED  BY <1>2, <2>1 DEF HolderAt, OthersStay
<1> QED  BY <1>1, <1>2

\* A step out of a turn, be it into the queue, moves no holder.
LEMMA OutsideHolders ==
  ASSUME TypeOK, TurnsHeld, NEW r \in Requests, OthersStay(r),
         pc[r] \notin TurnPcs, pc'[r] \notin Begun,
         \/ queue' = queue
         \/ pc[r] # "idle" /\ Lock!Enqueue(Key(r), r),
         NEW k \in Keys, NEW pcs \in SUBSET Begun
  PROVE  HolderAt(k, pcs)' <=> HolderAt(k, pcs)
<1>1. queue[k] # <<>> => Head(queue[k]) \in Requests \ {r}
  BY HeadFacts
<1>2. CASE queue'[k] = queue[k]
  BY <1>1, <1>2 DEF HolderAt, OthersStay
<1>3. CASE queue'[k] = Append(queue[k], r)
  <2>1. queue[k] \in Seq(Requests)
    BY DEF TypeOK
  <2>2. CASE queue[k] = <<>>
    <3>1. queue'[k] = <<r>>
      BY <1>3, <2>2
    <3>2. Head(<<r>>) = r
      OBVIOUS
    <3> QED  BY <2>2, <3>1, <3>2 DEF HolderAt
  <2>3. CASE queue[k] # <<>>
    <3>1. queue'[k] # <<>> /\ Head(queue'[k]) = Head(queue[k])
      BY <1>3, <2>1, <2>3, HeadTailAppend, AppendProperties
    <3> QED  BY <1>1, <2>3, <3>1 DEF HolderAt, OthersStay
  <2> QED  BY <2>2, <2>3
<1>4. queue'[k] = queue[k] \/ queue'[k] = Append(queue[k], r)
  BY KeyType DEF Lock!Enqueue, TypeOK
<1> QED  BY <1>2, <1>3, <1>4

\* In its turn the request is the holder; whoever is next has begun nothing.
LEMMA OwnHolder ==
  ASSUME TypeOK, TurnsHeld, NEW r \in Requests, OthersStay(r),
         pc[r] \in TurnPcs, MyTurn(r),
         queue' = queue \/ (LeaveTurn(r) /\ pc'[r] \notin TurnPcs),
         NEW k \in Keys, k = Key(r), NEW pcs \in SUBSET Begun
  PROVE  /\ HolderAt(k, pcs) <=> pc[r] \in pcs
         /\ HolderAt(k, pcs)' <=> pc'[r] \in pcs
<1>1. queue[k] # <<>> /\ Head(queue[k]) = r
  BY DEF MyTurn, Lock!Holds
<1>2. HolderAt(k, pcs) <=> pc[r] \in pcs
  BY <1>1 DEF HolderAt
<1>3. CASE queue' = queue
  BY <1>1, <1>2, <1>3 DEF HolderAt
<1>4. CASE LeaveTurn(r) /\ pc'[r] \notin TurnPcs
  <2>1. queue[k] \in Seq(Requests) /\ queue'[k] = Tail(queue[k])
    BY <1>4 DEF TypeOK, LeaveTurn, Lock!Leave
  <2>2. ASSUME queue'[k] # <<>> PROVE pc'[Head(queue'[k])] \notin Begun
    <3> DEFINE q == Head(Tail(queue[k]))
    <3>1. q = queue[k][2] /\ 2 \in 1..Len(queue[k]) /\ queue[k][1] = r
      BY <1>1, <2>1, <2>2
    <3>2. q \in Requests /\ q # r
      BY <3>1, QueueFacts DEF TurnsHeld
    <3>3. Key(q) = k
      BY <3>1, QueueFacts
    <3>4. pc[q] \notin Begun
      BY <1>1, <3>2, <3>3 DEF TurnsHeld, Begun, Lock!Holds
    <3> QED  BY <2>1, <3>2, <3>4 DEF OthersStay
  <2> QED  BY <1>2, <1>4, <2>2 DEF HolderAt, Begun
<1> QED  BY <1>2, <1>3, <1>4

\* In its turn, what the request awaits makes the tier of its key.
LEMMA OwnTier ==
  ASSUME TypeOK, TurnsHeld, NEW r \in Requests, OthersStay(r),
         pc[r] \in TurnPcs, MyTurn(r),
         queue' = queue \/ (LeaveTurn(r) /\ pc'[r] \notin TurnPcs),
         NEW k \in Keys, k = Key(r)
  PROVE  /\ Blocked(k) <=> StoreBlocked(k) \/ pc[r] \in {"set", "del"}
         /\ Blocked(k)' <=> StoreBlocked(k)' \/ pc'[r] \in {"set", "del"}
         /\ Jailed(k) <=> InJail(k) \/ pc[r] \in {"jailLimit", "incr", "expire", "place"}
         /\ Jailed(k)' <=> InJail(k)' \/ pc'[r] \in {"jailLimit", "incr", "expire", "place"}
         /\ NoStay(k) <=> /\ pc[r] = "del" => memoryJail[k] = 0
                          /\ StoreBlocked(k) /\ pc[r] # "set" => memoryJail[k] = 0
                          /\ StoreBlocked(k) /\ pc[r] \notin {"set", "del"} => redisJail[k] = 0
         /\ NoStay(k)' <=> /\ pc'[r] = "del" => memoryJail'[k] = 0
                           /\ StoreBlocked(k)' /\ pc'[r] # "set" => memoryJail'[k] = 0
                           /\ StoreBlocked(k)' /\ pc'[r] \notin {"set", "del"}
                                 => redisJail'[k] = 0
<1> DEFINE pending == {"jailLimit", "incr", "expire", "place"}
<1>1. {"set", "del"} \in SUBSET Begun /\ {"set"} \in SUBSET Begun /\ {"del"} \in SUBSET Begun
      /\ pending \in SUBSET Begun
  BY DEF Begun, TurnPcs
<1>2. /\ HolderAt(k, {"set", "del"}) <=> pc[r] \in {"set", "del"}
      /\ HolderAt(k, {"set"}) <=> pc[r] = "set"
      /\ HolderAt(k, {"del"}) <=> pc[r] = "del"
      /\ HolderAt(k, pending) <=> pc[r] \in pending
  BY <1>1, OwnHolder
<1>3. /\ HolderAt(k, {"set", "del"})' <=> pc'[r] \in {"set", "del"}
      /\ HolderAt(k, {"set"})' <=> pc'[r] = "set"
      /\ HolderAt(k, {"del"})' <=> pc'[r] = "del"
      /\ HolderAt(k, pending)' <=> pc'[r] \in pending
  BY <1>1, OwnHolder
<1>4. /\ Blocked(k) <=> StoreBlocked(k) \/ pc[r] \in {"set", "del"}
      /\ Jailed(k) <=> InJail(k) \/ pc[r] \in pending
  BY <1>2 DEF Blocked, Jailed, StoreBlocked, InJail
<1>5. /\ Blocked(k)' <=> StoreBlocked(k)' \/ pc'[r] \in {"set", "del"}
      /\ Jailed(k)' <=> InJail(k)' \/ pc'[r] \in pending
  BY <1>3 DEF Blocked, Jailed, StoreBlocked, InJail
<1>6. NoStay(k) <=> /\ pc[r] = "del" => memoryJail[k] = 0
                    /\ StoreBlocked(k) /\ pc[r] # "set" => memoryJail[k] = 0
                    /\ StoreBlocked(k) /\ pc[r] \notin {"set", "del"} => redisJail[k] = 0
  BY <1>2 DEF NoStay
<1>7. NoStay(k)' <=> /\ pc'[r] = "del" => memoryJail'[k] = 0
                     /\ StoreBlocked(k)' /\ pc'[r] # "set" => memoryJail'[k] = 0
                     /\ StoreBlocked(k)' /\ pc'[r] \notin {"set", "del"}
                           => redisJail'[k] = 0
  BY <1>3 DEF NoStay
<1> QED  BY <1>4, <1>5, <1>6, <1>7
\* The steps of a turn.
TurnStep(r) ==
    \/ \E o \in regime :
          \/ Recheck(r, o) \/ CheckJail(r, o) \/ IncrViolations(r, o)
          \/ ExpireViolations(r, o) \/ SetBlock(r, o) \/ ReleaseJail(r, o)
          \/ PlaceInJail(r, o)
    \/ JailLimit(r)

\* A turn ends, or goes on with the lock.
LEMMA TurnFrame ==
  ASSUME TypeOK, NEW r \in Requests, TurnStep(r)
  PROVE  /\ pc[r] \in TurnPcs /\ MyTurn(r) /\ OthersStay(r) /\ Key(r) \in Keys
         /\ queue' = queue \/ (LeaveTurn(r) /\ pc'[r] \notin TurnPcs)
         /\ \A k \in Keys : k # Key(r) => queue'[k] = queue[k]
<1>1. pc[r] \in TurnPcs /\ pc[r] # "idle" /\ MyTurn(r)
  BY DEF TurnStep, Recheck, CheckJail, IncrViolations, ExpireViolations, SetBlock,
         ReleaseJail, PlaceInJail, JailLimit, TurnPcs
<1>2. \/ todo' = todo /\ queue' = queue /\ \E p \in TurnPcs : Goto(r, p)
      \/ LeaveTurn(r) /\ PassOn(r)
      \/ LeaveTurn(r) /\ todo' = todo /\ Goto(r, "replied")
  BY DEF TurnStep, Recheck, CheckJail, IncrViolations, ExpireViolations, SetBlock,
         ReleaseJail, PlaceInJail, JailLimit, Escalate, EndTurn, TurnPcs
<1>3. Key(r) \in Keys
  BY <1>1, KeyType
<1>4. LeaveTurn(r) => \A k \in Keys : k # Key(r) => queue'[k] = queue[k]
  BY DEF LeaveTurn, Lock!Leave, TypeOK
<1>5. CASE todo' = todo /\ queue' = queue /\ \E p \in TurnPcs : Goto(r, p)
  BY <1>1, <1>3, <1>5 DEF Goto, OthersStay, TypeOK
<1>6. CASE LeaveTurn(r) /\ PassOn(r)
  BY <1>1, <1>3, <1>4, <1>6, PassOnType DEF OthersStay, TurnPcs
<1>7. CASE LeaveTurn(r) /\ todo' = todo /\ Goto(r, "replied")
  BY <1>1, <1>3, <1>4, <1>7 DEF Goto, OthersStay, TypeOK, TurnPcs
<1> QED  BY <1>2, <1>5, <1>6, <1>7

\* What a turn writes is its own key's; the SET it takes off the connection is
\* its own (blocklist.js:46-51).
LEMMA TurnWritesOwnKey ==
  ASSUME TypeOK, Listed, NEW r \in Requests, TurnStep(r), NEW k \in Keys, k # Key(r)
  PROVE  /\ memoryStore'[k] = memoryStore[k] /\ redisStore'[k] = redisStore[k]
         /\ memoryJail'[k] = memoryJail[k] /\ redisJail'[k] = redisJail[k]
<1>1. StoreTypeOK
  BY DEF TypeOK
<1>2. CASE JailLimit(r)
  BY <1>2 DEF JailLimit, store, memory, redis
<1>3. ASSUME NEW o, Recheck(r, o) PROVE UNCHANGED <<memoryStore, redisStore, memoryJail, redisJail>>
  BY <1>3 DEF Recheck, store, memory, redis
<1>4. ASSUME NEW o, CheckJail(r, o)
      PROVE  /\ UNCHANGED <<memoryStore, redisStore, redisJail>>
             /\ memoryJail'[k] = memoryJail[k]
  BY <1>1, <1>4 DEF CheckJail, JailInMemory, redis, StoreTypeOK
<1>5. ASSUME NEW o, IncrViolations(r, o) \/ ExpireViolations(r, o)
      PROVE  /\ UNCHANGED <<redisStore, memoryJail, redisJail>>
             /\ memoryStore'[k] = memoryStore[k]
  <2>1. \/ memoryStore' = memoryStore
        \/ \E e : memoryStore' = [memoryStore EXCEPT ![Key(r)] = e]
    BY <1>5 DEF IncrViolations, ExpireViolations, Escalate, StartBlock
  <2> QED  BY <1>1, <1>5, <2>1 DEF IncrViolations, ExpireViolations, StoreTypeOK
<1>6. ASSUME NEW o, SetBlock(r, o)
      PROVE  /\ UNCHANGED <<memoryStore, redisJail>>
             /\ memoryJail'[k] = memoryJail[k] /\ redisStore'[k] = redisStore[k]
  <2>1. PICK i \in DOMAIN wire :
          /\ wire[i].by = r
          /\ redisStore' = IF Applied(o) THEN [redisStore EXCEPT ![wire[i].key] = wire[i].ttl]
                           ELSE redisStore
    BY <1>1, <1>6, EndBlockTakes DEF SetBlock
  <2>2. wire[i].key = Key(r)
    BY <2>1 DEF Listed, SetsAwaited
  <2>3. redisStore'[k] = redisStore[k]
    BY <1>1, <2>1, <2>2 DEF StoreTypeOK
  <2> QED  BY <1>1, <1>6, <2>3 DEF SetBlock, ReleaseInMemory, StoreTypeOK
<1>7. ASSUME NEW o, ReleaseJail(r, o) \/ PlaceInJail(r, o)
      PROVE  /\ UNCHANGED <<memoryStore, redisStore, memoryJail>>
             /\ redisJail'[k] = redisJail[k]
  BY <1>1, <1>7 DEF ReleaseJail, PlaceInJail, ReleaseInRedis, JailInRedis, memory, StoreTypeOK
<1> QED  BY <1>2, <1>3, <1>4, <1>5, <1>6, <1>7 DEF TurnStep

\* A turn moves its key from tier to tier as "Mode 3" says (index.js:32-37).
LEMMA TurnTiers ==
  ASSUME Undisturbed, Inv, Unreached, Listed, NoStayLeft,
         NEW r \in Requests, TurnStep(r), NEW k \in Keys, k = Key(r)
  PROVE  MayMove(k) /\ NoStay(k)'
<1> USE DEF TurnPcs, Pending, Decided
<1>1. TypeOK /\ TurnsHeld /\ NoStay(k)
  BY DEF Inv, NoStayLeft
<1>2. /\ pc[r] \in TurnPcs /\ MyTurn(r) /\ OthersStay(r)
      /\ queue' = queue \/ (LeaveTurn(r) /\ pc'[r] \notin TurnPcs)
  BY <1>1, TurnFrame
<1>3. /\ Blocked(k) <=> StoreBlocked(k) \/ pc[r] \in {"set", "del"}
      /\ Blocked(k)' <=> StoreBlocked(k)' \/ pc'[r] \in {"set", "del"}
      /\ Jailed(k) <=> InJail(k) \/ pc[r] \in {"jailLimit", "incr", "expire", "place"}
      /\ Jailed(k)' <=> InJail(k)' \/ pc'[r] \in {"jailLimit", "incr", "expire", "place"}
      /\ pc[r] = "del" => memoryJail[k] = 0
      /\ StoreBlocked(k) /\ pc[r] # "set" => memoryJail[k] = 0
      /\ StoreBlocked(k) /\ pc[r] \notin {"set", "del"} => redisJail[k] = 0
  BY <1>1, <1>2, OwnTier
<1>4. NoStay(k)' <=> /\ pc'[r] = "del" => memoryJail'[k] = 0
                     /\ StoreBlocked(k)' /\ pc'[r] # "set" => memoryJail'[k] = 0
                     /\ StoreBlocked(k)' /\ pc'[r] \notin {"set", "del"}
                           => redisJail'[k] = 0
  BY <1>1, <1>2, OwnTier
<1>5. pc[r] \in Pending => ~StoreBlocked(k)
  BY DEF Listed, PendingUnblocked, StoreBlocked
<1>6. \A p \in Pcs : Goto(r, p) => pc'[r] = p
  BY <1>1 DEF Goto, TypeOK
<1>7. pc[r] # "idle" /\ (PassOn(r) => pc'[r] \notin TurnPcs)
  BY <1>1, <1>2, PassOnType
<1>8. StoreBlocked(k)' <=> memoryStore'[k].left > 0 \/ redisStore'[k] # 0
  BY DEF StoreBlocked
<1>9. InJail(k)' <=> memoryJail'[k] > 0 \/ redisJail'[k] > 0
  BY DEF InJail
<1>10. CASE \E o \in regime : Recheck(r, o)
  <2>1. PICK o \in regime : Recheck(r, o)
    BY <1>10
  <2>2. /\ UNCHANGED <<memoryStore, redisStore, memoryJail, redisJail>>
        /\ pc[r] = "recheck" /\ (pc'[r] = "jailed" \/ pc'[r] \notin TurnPcs)
    BY <2>1, <1>6, <1>7 DEF Recheck, EndTurn, store, memory, redis, Pcs
  <2> QED  BY <2>2, <1>3, <1>4, <1>8, <1>9 DEF MayMove, Tier, StoreBlocked, InJail
<1>11. CASE \E o \in regime : CheckJail(r, o)
  <2>1. PICK o \in regime : CheckJail(r, o)
    BY <1>11
  <2>2. pc[r] = "jailed" /\ UNCHANGED <<memoryStore, redisStore, redisJail>>
    BY <2>1 DEF CheckJail, redis
  <2>3. ~StoreBlocked(k) /\ ~StoreBlocked(k)'
    BY <2>2, <1>5, <1>8 DEF StoreBlocked
  <2>4. JailSeen(k, o) => InJail(k)
    BY DEF JailSeen, InJail
  <2>5. ~JailSeen(k, o) => ~InJail(k)
    <3>1. Acked(o) \/ redisJail[k] = 0
      BY <1>1, AnsweredOrNot DEF Unreached
    <3> QED  BY <3>1 DEF JailSeen, InJail
  <2>6. \/ /\ JailSeen(k, o) /\ pc'[r] \in {"jailLimit", "incr"}
           /\ memoryJail' = memoryJail
        \/ pc'[r] \notin TurnPcs /\ memoryJail' = memoryJail
        \/ ~JailSeen(k, o) /\ pc'[r] = "place"
    BY <2>1, <1>6, <1>7 DEF CheckJail, EndTurn, Pcs
  <2>7. NoStay(k)'
    BY <2>3, <2>6, <1>4
  <2>8. MayMove(k)
    BY <2>2, <2>3, <2>4, <2>5, <2>6, <1>3, <1>9 DEF MayMove, Tier, InJail
  <2> QED  BY <2>7, <2>8
<1>12. CASE JailLimit(r)
  <2>1. /\ UNCHANGED <<memoryStore, redisStore, memoryJail, redisJail>>
        /\ pc[r] = "jailLimit" /\ (pc'[r] = "incr" \/ pc'[r] \notin TurnPcs)
    BY <1>12, <1>6, <1>7 DEF JailLimit, EndTurn, store, memory, redis, Pcs
  <2>2. ~StoreBlocked(k) /\ ~StoreBlocked(k)'
    BY <2>1, <1>5, <1>8 DEF StoreBlocked
  <2> QED  BY <2>1, <2>2, <1>3, <1>4 DEF MayMove, Tier
<1>13. CASE \E o \in regime : IncrViolations(r, o) \/ ExpireViolations(r, o)
  <2>1. /\ pc[r] \in {"incr", "expire"} /\ UNCHANGED <<redisStore, memoryJail, redisJail>>
        /\ pc'[r] = "set" \/ (pc'[r] = "expire" /\ memoryStore' = memoryStore)
    BY <1>13, <1>6 DEF IncrViolations, ExpireViolations, Escalate, Pcs
  <2>2. ~StoreBlocked(k) /\ (pc'[r] = "expire" => ~StoreBlocked(k)')
    BY <2>1, <1>5, <1>8 DEF StoreBlocked
  <2> QED  BY <2>1, <2>2, <1>3, <1>4 DEF MayMove, Tier
<1>14. CASE \E o \in regime : SetBlock(r, o)
  <2>1. /\ pc[r] = "set" /\ pc'[r] = "del" /\ memoryJail'[k] = 0
    BY <1>14, <1>1, <1>6 DEF SetBlock, ReleaseInMemory, Pcs, TypeOK, StoreTypeOK
  <2> QED  BY <2>1, <1>3, <1>4 DEF MayMove, Tier
<1>15. CASE \E o \in regime : ReleaseJail(r, o)
  <2>1. PICK o \in regime : ReleaseJail(r, o)
    BY <1>15
  <2>2. /\ pc[r] = "del" /\ pc'[r] \notin TurnPcs
        /\ UNCHANGED <<memoryStore, redisStore, memoryJail>>
    BY <2>1, <1>6, <1>7 DEF ReleaseJail, memory, Pcs
  <2>3. redisJail'[k] = 0
    <3>1. Applied(o) \/ redisJail[k] = 0
      BY <1>1, AnsweredOrNot DEF Unreached
    <3> QED  BY <2>1, <3>1, <1>1 DEF ReleaseJail, ReleaseInRedis, TypeOK, StoreTypeOK
  <2>4. ~InJail(k)'
    BY <2>2, <2>3, <1>3, <1>9
  <2> QED  BY <2>2, <2>3, <2>4, <1>3, <1>4 DEF MayMove, Tier
<1>16. CASE \E o \in regime : PlaceInJail(r, o)
  <2>1. /\ pc[r] = "place" /\ pc'[r] \notin TurnPcs
        /\ UNCHANGED <<memoryStore, redisStore>>
    BY <1>16, <1>7 DEF PlaceInJail, EndTurn, memory
  <2>2. ~StoreBlocked(k) /\ ~StoreBlocked(k)'
    BY <2>1, <1>5, <1>8 DEF StoreBlocked
  <2> QED  BY <2>1, <2>2, <1>3, <1>4 DEF MayMove, Tier
<1> QED  BY <1>10, <1>11, <1>12, <1>13, <1>14, <1>15, <1>16 DEF TurnStep

\* Time takes keys out of their tiers, and into none (blocklist.js:106-116).
LEMMA TickTiers ==
  ASSUME Inv, Listed, NoStayLeft, Tick, NEW k \in Keys
  PROVE  Tier(k)' \in {Tier(k), "free"} /\ NoStay(k)'
<1>1. TypeOK /\ TurnsHeld /\ NoStay(k)
  BY DEF Inv, NoStayLeft
<1>2. \A pcs : HolderAt(k, pcs)' <=> HolderAt(k, pcs)
  BY DEF HolderAt, Tick, request
<1>3. /\ memoryStore[k].left \in Nat /\ memoryJail[k] \in Nat /\ redisJail[k] \in Nat
      /\ redisStore[k] \in Nat
  <2>1. 0..JailTtl \subseteq Nat
    BY DurationAssumption
  <2> QED  BY <1>1, <2>1, BlockNumbers DEF TypeOK, StoreTypeOK
<1>4. /\ memoryStore'[k] = AgeBlock(memoryStore[k]) /\ redisStore'[k] = Less(redisStore[k])
      /\ memoryJail'[k] = Less(memoryJail[k]) /\ redisJail'[k] = Less(redisJail[k])
  BY DEF Tick, StoreTick
<1>5. StoreBlocked(k)' => StoreBlocked(k)
  <2>1. memoryStore'[k].left > 0 => memoryStore[k].left > 0
    BY <1>3, <1>4 DEF AgeBlock, Unblocked
  <2> QED  BY <2>1, <1>3, <1>4 DEF StoreBlocked, Less
<1>6. /\ InJail(k)' => InJail(k)
      /\ memoryJail[k] = 0 => memoryJail'[k] = 0
      /\ redisJail[k] = 0 => redisJail'[k] = 0
  BY <1>3, <1>4 DEF InJail, Less
<1>7. NoStay(k)'
  BY <1>1, <1>2, <1>5, <1>6 DEF NoStay
\* A turn past its recheck has its key unblocked.
<1>8. ASSUME StoreBlocked(k), HolderAt(k, {"jailLimit", "incr", "expire", "place"})
      PROVE  FALSE
  <2>1. Head(queue[k]) \in Requests /\ Key(Head(queue[k])) = k
    BY <1>1, <1>8, HeadFacts DEF HolderAt
  <2> QED  BY <1>8, <2>1 DEF HolderAt, Listed, PendingUnblocked, StoreBlocked, Pending, Decided
<1>9. Blocked(k)' => Blocked(k)
  BY <1>2, <1>5 DEF Blocked, StoreBlocked
<1>10. Jailed(k)' => Jailed(k)
  BY <1>2, <1>6 DEF Jailed, InJail
<1>11. Blocked(k) /\ ~Blocked(k)' => ~Jailed(k)'
  <2> SUFFICES ASSUME Blocked(k), ~Blocked(k)', Jailed(k)' PROVE FALSE
    OBVIOUS
  <2>1. ~HolderAt(k, {"set", "del"}) /\ StoreBlocked(k)
    BY <1>2 DEF Blocked, StoreBlocked
  <2>2. ~HolderAt(k, {"set"})
    BY <2>1 DEF HolderAt
  <2>3. ~InJail(k)
    BY <1>1, <2>1, <2>2 DEF NoStay, InJail
  <2> QED  BY <1>8, <1>10, <2>1, <2>3 DEF Jailed, InJail
<1>12. Tier(k)' \in {Tier(k), "free"}
  BY <1>9, <1>10, <1>11 DEF Tier
<1> QED  BY <1>7, <1>12
\* No step leaves anything of a stay that a block used up.
LEMMA TierStep ==
  ASSUME Undisturbed, Inv, Unreached, Listed, NoStayLeft, [Next]_vars
  PROVE  /\ NoStayLeft'
         /\ \/ \A k \in Keys : Tier(k)' \in {Tier(k), "free"}
            \/ \E k \in Keys : MayMove(k) /\ \A l \in Keys \ {k} : Tier(l)' = Tier(l)
<1>1. TypeOK /\ TurnsHeld
  BY DEF Inv
<1>2. ASSUME \A k \in Keys : Untouched(k)
      PROVE  NoStayLeft' /\ \A k \in Keys : Tier(k)' = Tier(k)
  BY <1>2, UntouchedTier DEF NoStayLeft
<1>3. ASSUME NEW r \in Requests, TurnStep(r)
      PROVE  /\ NoStayLeft'
             /\ \E k \in Keys : MayMove(k) /\ \A l \in Keys \ {k} : Tier(l)' = Tier(l)
  <2>1. OthersStay(r) /\ \A k \in Keys : k # Key(r) => queue'[k] = queue[k]
    BY <1>1, <1>3, TurnFrame
  <2>2. ASSUME NEW k \in Keys, k # Key(r) PROVE Untouched(k)
    BY <1>1, <1>3, <2>1, <2>2, OtherHolders, TurnWritesOwnKey DEF Untouched
  <2>3. PICK k \in Keys : k = Key(r)
    BY <1>1, <1>3, TurnFrame
  <2>4. MayMove(k) /\ NoStay(k)'
    BY <1>3, <2>3, TurnTiers
  <2>5. \A l \in Keys \ {k} : Tier(l)' = Tier(l) /\ NoStay(l)'
    BY <2>2, <2>3, UntouchedTier DEF NoStayLeft
  <2> QED  BY <2>4, <2>5 DEF NoStayLeft
\* The steps of a request out of a turn.
<1>4. ASSUME NEW r \in Requests,
             \/ Arrive(r) \/ Forward(r) \/ Reply(r) \/ RecordOutcome(r) \/ FailLimit(r)
             \/ \E o \in regime : GuardCheck(r, o)
      PROVE  \A k \in Keys : Untouched(k)
  <2>1. UNCHANGED <<memoryStore, redisStore, memoryJail, redisJail>>
    BY <1>4 DEF Arrive, Forward, Reply, RecordOutcome, FailLimit, GuardCheck,
                store, memory, redis
  <2>2. pc[r] \notin TurnPcs
    BY <1>4 DEF Arrive, Forward, Reply, RecordOutcome, FailLimit, GuardCheck, TurnPcs
  <2>3. OthersStay(r) /\ pc'[r] \notin Begun
    <3>1. CASE FailLimit(r)
      <4>1. pc[r] # "idle"
        BY <3>1 DEF FailLimit
      <4>2. CASE PassOn(r)
        BY <1>1, <4>1, <4>2, PassOnType DEF OthersStay, Begun, TurnPcs
      <4>3. CASE Goto(r, "recheck") /\ UNCHANGED todo
        BY <1>1, <4>3 DEF Goto, OthersStay, TypeOK, Begun
      <4> QED  BY <3>1, <4>2, <4>3 DEF FailLimit
    <3>2. CASE \/ Arrive(r) \/ Forward(r) \/ Reply(r) \/ RecordOutcome(r)
               \/ \E o \in regime : GuardCheck(r, o)
      BY <1>1, <3>2 DEF Arrive, Forward, Reply, RecordOutcome, GuardCheck, Goto,
                        OthersStay, TypeOK, Begun, TurnPcs
    <3> QED  BY <1>4, <3>1, <3>2
  <2>4. queue' = queue \/ (pc[r] # "idle" /\ Lock!Enqueue(Key(r), r))
    BY <1>4 DEF Arrive, Forward, Reply, RecordOutcome, FailLimit, GuardCheck
  <2> QED  BY <1>1, <2>1, <2>2, <2>3, <2>4, OutsideHolders DEF Untouched
<1>5. ASSUME NEW r \in Requests, Step(r)
      PROVE  TurnStep(r) \/ \A k \in Keys : Untouched(k)
  BY <1>4, <1>5 DEF Step, RedisStep, TurnStep
<1>6. CASE Tick
  BY <1>6, TickTiers DEF NoStayLeft
<1>7. CASE UNCHANGED vars
  BY <1>2, <1>7 DEF vars, request, store, memory, redis, Untouched, HolderAt
<1>8. Admins = {}
  BY DEF Undisturbed
<1>9. CASE \E r \in Requests : Arrive(r) \/ Step(r)
  BY <1>2, <1>3, <1>4, <1>5, <1>9
<1> QED  BY <1>6, <1>7, <1>8, <1>9 DEF Next

\* Such a step is one of Quarantine: a lapse of some keys, or a move of one.
LEMMA TierMoves ==
  ASSUME \/ \A k \in Keys : Tier(k)' \in {Tier(k), "free"}
         \/ \E k \in Keys : MayMove(k) /\ \A l \in Keys \ {k} : Tier(l)' = Tier(l)
  PROVE  Tiers!Next
<1> DEFINE tier == [k \in Keys |-> Tier(k)]
           next == [k \in Keys |-> Tier(k)']
<1>1. tier' = next
  OBVIOUS
<1>2. ASSUME \A k \in Keys : Tier(k)' \in {Tier(k), "free"}
      PROVE  Tiers!Lapse
  <2> DEFINE gone == {k \in Keys : Tier(k)' = "free"}
  <2>1. next = [k \in Keys |-> IF k \in gone THEN "free" ELSE tier[k]]
    BY <1>2
  <2>2. gone \in SUBSET Keys
    OBVIOUS
  <2> QED  BY <1>1, <2>1, <2>2 DEF Tiers!Lapse
<1>3. ASSUME NEW k \in Keys, MayMove(k), \A l \in Keys \ {k} : Tier(l)' = Tier(l)
      PROVE  Tiers!Next
  <2>1. CASE Tier(k)' \in {Tier(k), "free"}
    BY <1>2, <1>3, <2>1 DEF Tiers!Next
  <2>2. CASE Tier(k) = "free" /\ Tier(k)' = "jailed"
    <3>1. next = [tier EXCEPT ![k] = "jailed"]
      BY <1>3, <2>2
    <3> QED  BY <1>1, <2>2, <3>1 DEF Tiers!Next, Tiers!Jail, Tiers!Move
  <2>3. CASE Tier(k) = "jailed" /\ Tier(k)' = "blocked"
    <3>1. next = [tier EXCEPT ![k] = "blocked"]
      BY <1>3, <2>3
    <3> QED  BY <1>1, <2>3, <3>1 DEF Tiers!Next, Tiers!Escalate, Tiers!Move
  <2> QED  BY <1>3, <2>1, <2>2, <2>3 DEF MayMove
<1> QED  BY <1>2, <1>3 DEF Tiers!Next

\* Nobody has done anything yet.
LEMMA TierInit == Init => NoStayLeft /\ Tiers!Init
<1> SUFFICES ASSUME Init PROVE NoStayLeft /\ Tiers!Init
  OBVIOUS
<1>1. ASSUME NEW k \in Keys PROVE NoStay(k) /\ Tier(k) = "free"
  <2>1. /\ memoryStore[k].left = 0 /\ redisStore[k] = 0
        /\ memoryJail[k] = 0 /\ redisJail[k] = 0 /\ queue[k] = <<>>
    BY DEF Init, StoreInit, Lock!Init, Unblocked
  <2> QED  BY <2>1 DEF NoStay, Tier, Blocked, Jailed, HolderAt
<1> QED  BY <1>1 DEF NoStayLeft, Tiers!Init

\* "Mode 3" (index.js:32-37) for any requests, keys and durations, with Redis up,
\* or down, throughout and no admin: a key is blocked out of the jail only, each
\* block uses up the stay it came from, and both lapse.
THEOREM BlocksComeFromJail == ASSUME Undisturbed PROVE Spec => JailsBeforeBlocks
<1> DEFINE TierInv == Listed /\ Unreached /\ NoStayLeft
<1>1. Init => TierInv /\ Tiers!Init
  BY ListedInit, TierInit
<1>2. Inv /\ TierInv /\ [Next]_vars => TierInv'
  BY ListedStep, UnreachedStep, TierStep DEF Inv
<1>3. Inv /\ TierInv /\ [Next]_vars => Tiers!Next
  BY TierStep, TierMoves
<1> QED  BY <1>1, <1>2, <1>3, Invariance, PTL DEF Spec, JailsBeforeBlocks, Tiers!Spec

-----------------------------------------------------------------------------
(* Progressive delays                                                       *)

\* Redis answers every command at once, or is down throughout.
SteadyRedis ==
    \A outcomes \in Regimes : outcomes \subseteq {"ok"} \/ outcomes \subseteq {"lost"}

\* A turn has counted the key's first violation in Redis, and not yet set the
\* TTL of the count.
Settling(k) == \E r \in Requests : pc[r] = "expire" /\ Key(r) = k

BreachType == [last : Int, window : 0..ViolationWindow, quiet : 0..ViolationWindow]

\* The count in Redis expires with the window of the series, whose latest
\* block is the one that the count earned.
CountedByRedis(k) ==
    IF Settling(k)
    THEN /\ redisViolations[k].count = 1 /\ redisViolations[k].left = NoTtl
         /\ breach[k].window = 0
    ELSE /\ redisViolations[k].left = breach[k].window
         /\ redisViolations[k].count = 0 <=> redisViolations[k].left = 0
         /\ redisViolations[k].count > 0 => breach[k].last = BlockTtl(redisViolations[k].count)

\* The window of the mirror's count starts again with each breach, so that it
\* ends when the key has been quiet for a window.
CountedInMemory(k) ==
    /\ memoryViolations[k].left = breach[k].quiet
    /\ memoryViolations[k].left > 0 =>
           /\ memoryViolations[k].count > 0
           /\ breach[k].last = BlockTtl(memoryViolations[k].count)

SeriesCounted(k) ==
    /\ breach[k] \in BreachType
    /\ breach[k].window <= breach[k].quiet
    /\ regime \subseteq {"ok"} => CountedByRedis(k)
    /\ regime \subseteq {"lost"} => CountedInMemory(k)

Series == \A k \in Keys : SeriesCounted(k)

\* What RepeatBreachDoubles says of a key.
Doubles(k) ==
    Escalates(k) =>
        /\ breach[k].window > 0 => Earned(k) = Least(MaxBlock, 2 * breach[k].last)
        /\ breach[k].quiet = 0 => Earned(k) = Least(MaxBlock, BaseBlock)

\* What happens to the history variable in a step other than the clock's.
Recorded(k) == breach'[k] = IF Escalates(k) THEN Breached(k) ELSE breach[k]

\* Counts, their TTLs and the histories are numbers.
LEMMA SeriesNumbers ==
  ASSUME TypeOK, NEW k \in Keys
  PROVE  /\ memoryViolations[k].count \in 0..ViolationCap
         /\ memoryViolations[k].left \in 0..ViolationWindow
         /\ redisViolations[k].count \in 0..ViolationCap
         /\ redisViolations[k].left \in {NoTtl} \cup 0..ViolationWindow
         /\ ViolationCap \in Nat /\ ViolationCap >= 2 /\ ViolationWindow \in Nat \ {0}
<1>1. /\ memoryViolations \in [Keys -> [count : 0..ViolationCap, left : 0..ViolationWindow]]
      /\ redisViolations \in
             [Keys -> [count : 0..ViolationCap, left : {NoTtl} \cup 0..ViolationWindow]]
  BY DEF TypeOK, StoreTypeOK
<1> QED  BY <1>1, CapAssumption, DurationAssumption

\* A step of r that charges no violation to k leaves k's series as it is.
LEMMA NoCharge ==
  ASSUME TypeOK, NEW r \in Requests, OthersStay(r), NEW k \in Keys,
         \/ pc[r] \notin {"incr", "expire"} /\ pc'[r] # "expire"
         \/ Key(r) # k /\ todo'[r] = todo[r]
  PROVE  ~Escalates(k) /\ (Settling(k)' <=> Settling(k))
<1>1. \A q \in Requests : q # r => pc'[q] = pc[q] /\ Key(q)' = Key(q)
  BY DEF OthersStay, Key
<1>2. todo'[r] = todo[r] => Key(r)' = Key(r)
  BY DEF Key
<1>3. ~Escalates(k)
  BY <1>1 DEF Escalates
<1>4. Settling(k)' <=> \E q \in Requests : pc'[q] = "expire" /\ Key(q)' = k
  BY DEF Settling
<1> QED  BY <1>1, <1>2, <1>3, <1>4 DEF Settling

LEMMA SeriesStays ==
  ASSUME NEW k \in Keys, SeriesCounted(k), ~Escalates(k), Recorded(k), regime' = regime,
         memoryViolations'[k] = memoryViolations[k],
         redisViolations'[k] = redisViolations[k],
         Settling(k)' <=> Settling(k)
  PROVE  SeriesCounted(k)' /\ Doubles(k)
<1>1. breach'[k] = breach[k]
  BY DEF Recorded
<1>2. CountedByRedis(k) => CountedByRedis(k)'
  BY <1>1 DEF CountedByRedis
<1>3. CountedInMemory(k) => CountedInMemory(k)'
  BY <1>1 DEF CountedInMemory
<1> QED  BY <1>1, <1>2, <1>3 DEF SeriesCounted, Doubles

\* An escalation sets the mirror to the block that the count earns, and its
\* turn, the only one that has begun on the key, goes on to await the SET
\* (blocklist.js:46-51, 101).
LEMMA EscalateEarns ==
  ASSUME TypeOK, TurnsHeld, NEW r \in Requests, NEW count, pc[r] \in {"incr", "expire"},
         Escalate(r, count), todo' = todo
  PROVE  /\ Escalates(Key(r)) /\ Earned(Key(r)) = BlockTtl(count)
         /\ ~Settling(Key(r))'
<1>1. Key(r) \in Keys
  BY KeyType
<1>2. OthersStay(r) /\ pc'[r] = "set"
  BY DEF Escalate, Goto, OthersStay, TypeOK
<1>3. memoryStore'[Key(r)].left = BlockTtl(count)
  BY <1>1 DEF Escalate, StartBlock, TypeOK, StoreTypeOK
<1>4. ASSUME NEW q \in Requests, pc'[q] = "expire", Key(q)' = Key(r)'
      PROVE  FALSE
  <2>1. q # r /\ pc[q] = "expire" /\ Key(q) = Key(r)
    BY <1>2, <1>4 DEF OthersStay, Key
  <2> QED  BY <2>1, KeysApart DEF Begun, TurnPcs
<1>5. Key(r)' = Key(r)
  BY DEF Key
<1> QED  BY <1>2, <1>3, <1>4, <1>5 DEF Escalates, Earned, Settling

\* Redis does not answer: the violation is counted in memory (blocklist.js:95-99).
LEMMA MemoryCharge ==
  ASSUME TypeOK, TypeOK', TurnsHeld, NEW r \in Requests, pc[r] \in {"incr", "expire"},
         SeriesCounted(Key(r)), regime \subseteq {"lost"}, ~(regime \subseteq {"ok"}),
         regime' = regime, CountInMemory(Key(r)), Escalate(r, MemoryCount(Key(r))),
         todo' = todo, Recorded(Key(r))
  PROVE  SeriesCounted(Key(r))' /\ Doubles(Key(r))
<1> DEFINE k == Key(r)
           count == MemoryCount(k)
<1>1. k \in Keys
  BY KeyType
<1>2. /\ Escalates(k) /\ Earned(k) = BlockTtl(count) /\ Key(r)' = k
  BY EscalateEarns DEF Key
<1> HIDE DEF k
<1>3. /\ memoryViolations[k].count \in 0..ViolationCap
      /\ memoryViolations[k].left \in 0..ViolationWindow
      /\ ViolationCap \in Nat /\ ViolationCap >= 2 /\ ViolationWindow \in Nat \ {0}
  BY <1>1, SeriesNumbers
<1>4. breach[k] \in BreachType /\ breach[k].window <= breach[k].quiet /\ CountedInMemory(k)
  BY DEF SeriesCounted, k
<1>5. breach[k].window \in 0..ViolationWindow /\ breach[k].quiet \in 0..ViolationWindow
  BY <1>4 DEF BreachType
<1>6. count \in 1..ViolationCap
  BY <1>3 DEF MemoryCount, CountUpTo, Least
<1>7. memoryViolations'[k] = [count |-> count, left |-> ViolationWindow]
  BY <1>1 DEF CountInMemory, TypeOK, StoreTypeOK, k
<1> HIDE DEF count
<1>8. Doubles(k)
  <2>1. CASE memoryViolations[k].left = 0
    <3>1. breach[k].quiet = 0 /\ breach[k].window = 0
      BY <1>3, <1>4, <1>5, <2>1 DEF CountedInMemory
    <3>2. count = 1
      BY <2>1 DEF MemoryCount, count
    <3> QED  BY <1>2, <3>1, <3>2, FirstBlock DEF Doubles
  <2>2. CASE memoryViolations[k].left > 0
    <3>1. /\ breach[k].quiet # 0 /\ memoryViolations[k].count \in 1..ViolationCap
          /\ breach[k].last = BlockTtl(memoryViolations[k].count)
      BY <1>3, <1>4, <2>2 DEF CountedInMemory
    <3>2. count = CountUpTo(memoryViolations[k].count + 1)
      BY <2>2 DEF MemoryCount, count
    <3>3. Earned(k) = Least(MaxBlock, 2 * breach[k].last)
      BY <1>2, <3>1, <3>2, BlockDoubles
    <3> QED  BY <3>1, <3>3 DEF Doubles
  <2> QED  BY <1>3, <2>1, <2>2
<1>9. /\ breach'[k] \in BreachType
      /\ breach'[k].window <= breach'[k].quiet
      /\ breach'[k].quiet = ViolationWindow /\ breach'[k].last = BlockTtl(count)
  <2>1. breach'[k] = [last |-> BlockTtl(count),
                      window |-> IF breach[k].window > 0 THEN breach[k].window
                                 ELSE ViolationWindow,
                      quiet |-> ViolationWindow]
    BY <1>2 DEF Recorded, Breached, k
  <2>2. BlockTtl(count) \in Int
    BY <1>6, BlockTtlType, DurationAssumption DEF Durations
  <2> QED  BY <1>3, <1>5, <2>1, <2>2 DEF BreachType
<1>10. CountedInMemory(k)'
  <2>1. /\ memoryViolations'[k].left = ViolationWindow
        /\ memoryViolations'[k].count = count
    BY <1>7
  <2> QED  BY <1>2, <1>6, <1>9, <2>1 DEF CountedInMemory, k
<1>11. SeriesCounted(k)'
  BY <1>2, <1>9, <1>10 DEF SeriesCounted, k
<1> QED  BY <1>8, <1>11 DEF k

\* redis.incr answers: the first violation of a series goes on to set the TTL,
\* a further one doubles the block (blocklist.js:93-94).
LEMMA IncrCharge ==
  ASSUME TypeOK, TypeOK', TurnsHeld, NEW r \in Requests, IncrViolations(r, "ok"),
         SeriesCounted(Key(r)), regime \subseteq {"ok"}, ~(regime \subseteq {"lost"}),
         Recorded(Key(r))
  PROVE  SeriesCounted(Key(r))' /\ Doubles(Key(r))
<1> DEFINE k == Key(r)
           before == redisViolations[k].count
<1>1. pc[r] = "incr" /\ MyTurn(r) /\ todo' = todo /\ regime' = regime
  BY DEF IncrViolations
<1>2. k \in Keys /\ Key(r)' = k
  BY <1>1, KeyType DEF Key
<1>3. ~Settling(k)
  BY <1>1, KeysApart DEF Settling, Begun, TurnPcs
<1>4. /\ before \in 0..ViolationCap
      /\ redisViolations[k].left \in {NoTtl} \cup 0..ViolationWindow
      /\ ViolationCap \in Nat /\ ViolationCap >= 2 /\ ViolationWindow \in Nat \ {0}
  BY <1>2, SeriesNumbers
<1>5. breach[k] \in BreachType /\ breach[k].window <= breach[k].quiet /\ CountedByRedis(k)
  BY DEF SeriesCounted
<1>6. breach[k].window \in 0..ViolationWindow /\ breach[k].quiet \in 0..ViolationWindow
  BY <1>5 DEF BreachType
<1>7. /\ redisViolations[k].left = breach[k].window
      /\ before = 0 <=> breach[k].window = 0
      /\ before > 0 => breach[k].last = BlockTtl(before)
  BY <1>3, <1>5 DEF CountedByRedis
<1>8. RedisCount(k, "ok") = CountUpTo(before + 1)
  BY DEF RedisCount, Increments
<1>9. redisViolations'[k] =
        [count |-> CountUpTo(before + 1),
         left |-> IF before = 0 THEN NoTtl ELSE redisViolations[k].left]
  BY <1>2, <1>8 DEF IncrViolations, Incr, Applied, TypeOK, StoreTypeOK
<1>10. CASE before = 0
  <2>1. CountUpTo(before + 1) = 1
    BY <1>4, <1>10 DEF CountUpTo, Least
  <2>2. Goto(r, "expire")
    BY <1>8, <2>1 DEF IncrViolations, Acked
  <2>3. pc'[r] = "expire" /\ OthersStay(r)
    BY <1>1, <2>2 DEF Goto, OthersStay, TypeOK
  <2>4. ~Escalates(k)
    <3> SUFFICES ASSUME NEW q \in Requests, pc[q] \in {"incr", "expire"}, pc'[q] = "set"
                 PROVE  FALSE
      BY DEF Escalates
    <3> QED  BY <2>3 DEF OthersStay
  <2>5. breach'[k] = breach[k]
    BY <2>4 DEF Recorded
  <2>6. Settling(k)'
    BY <1>2, <2>3 DEF Settling
  <2> HIDE DEF k, before
  <2>7. CountedByRedis(k)'
    BY <1>2, <1>7, <1>9, <1>10, <2>1, <2>5, <2>6 DEF CountedByRedis, k
  <2> QED  BY <1>1, <1>2, <1>5, <2>4, <2>5, <2>7 DEF SeriesCounted, Doubles, k
<1>11. CASE before > 0
  <2> DEFINE count == CountUpTo(before + 1)
  <2>1. count \in 2..ViolationCap /\ before \in 1..ViolationCap
    BY <1>4, <1>11 DEF CountUpTo, Least
  <2>2. Escalate(r, count)
    BY <1>8, <2>1 DEF IncrViolations, Acked
  <2>3. Escalates(k) /\ Earned(k) = BlockTtl(count) /\ ~Settling(k)'
    BY <1>1, <1>2, <2>2, EscalateEarns
  <2>4. breach[k].window > 0 /\ breach[k].quiet # 0
    BY <1>5, <1>6, <1>7, <1>11
  <2>5. Earned(k) = Least(MaxBlock, 2 * breach[k].last)
    BY <1>7, <1>11, <2>1, <2>3, BlockDoubles
  <2>6. breach'[k] = [last |-> BlockTtl(count), window |-> breach[k].window,
                      quiet |-> ViolationWindow]
    BY <2>3, <2>4 DEF Recorded, Breached
  <2> HIDE DEF k, before, count
  <2>7. BlockTtl(count) \in Int
    <3>1. count \in 1..ViolationCap
      BY <1>4, <2>1
    <3> QED  BY <3>1, BlockTtlType, DurationAssumption DEF Durations
  <2>8. breach'[k] \in BreachType /\ breach'[k].window <= breach'[k].quiet
    BY <1>4, <1>6, <2>6, <2>7 DEF BreachType
  <2>9. /\ redisViolations'[k].count = count
        /\ redisViolations'[k].left = breach[k].window
    BY <1>7, <1>9, <1>11 DEF count
  <2>10. CountedByRedis(k)'
    BY <1>2, <2>1, <2>3, <2>4, <2>6, <2>9 DEF CountedByRedis, k
  <2>11. SeriesCounted(k)'
    BY <1>1, <1>2, <2>8, <2>10 DEF SeriesCounted, k
  <2> QED  BY <2>4, <2>5, <2>11 DEF Doubles, k
<1> QED  BY <1>4, <1>10, <1>11

\* redis.expire answers: the window of the series begins, with the base block
\* (blocklist.js:94, 101).
LEMMA ExpireCharge ==
  ASSUME TypeOK, TypeOK', TurnsHeld, NEW r \in Requests, ExpireViolations(r, "ok"),
         SeriesCounted(Key(r)), regime \subseteq {"ok"}, ~(regime \subseteq {"lost"}),
         Recorded(Key(r))
  PROVE  SeriesCounted(Key(r))' /\ Doubles(Key(r))
<1> DEFINE k == Key(r)
<1>1. pc[r] = "expire" /\ todo' = todo /\ regime' = regime /\ Escalate(r, 1)
  BY DEF ExpireViolations, Acked
<1>2. k \in Keys /\ Key(r)' = k
  BY <1>1, KeyType DEF Key
<1>3. /\ redisViolations[k].count = 1 /\ breach[k].window = 0
      /\ breach[k] \in BreachType
  BY <1>1 DEF Settling, SeriesCounted, CountedByRedis
<1>4. Escalates(k) /\ Earned(k) = BlockTtl(1) /\ ~Settling(k)'
  BY <1>1, EscalateEarns
<1>5. /\ redisViolations'[k].count = 1 /\ redisViolations'[k].left = ViolationWindow
  <2>1. redisViolations' = [redisViolations EXCEPT ![k].left = ViolationWindow]
    BY DEF ExpireViolations, Expire, Applied
  <2> QED  BY <1>2, <1>3, <2>1 DEF TypeOK, StoreTypeOK
<1>6. breach'[k] = [last |-> BlockTtl(1), window |-> ViolationWindow,
                    quiet |-> ViolationWindow]
  BY <1>3, <1>4 DEF Recorded, Breached
<1> HIDE DEF k
<1>7. BlockTtl(1) \in Int /\ ViolationWindow \in Nat \ {0}
  <2>1. 1 \in 1..ViolationCap
    BY CapAssumption
  <2> QED  BY <2>1, BlockTtlType, DurationAssumption DEF Durations
<1>8. breach'[k] \in BreachType /\ breach'[k].window <= breach'[k].quiet
  BY <1>6, <1>7 DEF BreachType
<1>9. CountedByRedis(k)'
  BY <1>2, <1>4, <1>5, <1>6, <1>7 DEF CountedByRedis, k
<1>10. SeriesCounted(k)'
  BY <1>1, <1>2, <1>8, <1>9 DEF SeriesCounted, k
<1>11. Doubles(k)
  BY <1>3, <1>4, FirstBlock DEF Doubles
<1> QED  BY <1>10, <1>11 DEF k

\* Each charge of a turn to its own key, as Redis is up or down.
LEMMA OwnCharge ==
  ASSUME SteadyRedis, TypeOK, TypeOK', TurnsHeld, NEW r \in Requests, NEW o \in regime,
         IncrViolations(r, o) \/ ExpireViolations(r, o),
         SeriesCounted(Key(r)), Recorded(Key(r))
  PROVE  SeriesCounted(Key(r))' /\ Doubles(Key(r))
<1>1. \/ o = "ok" /\ regime \subseteq {"ok"} /\ ~(regime \subseteq {"lost"})
      \/ o = "lost" /\ regime \subseteq {"lost"} /\ ~(regime \subseteq {"ok"})
  BY DEF SteadyRedis, TypeOK, StoreTypeOK
<1>2. CASE o = "ok"
  BY <1>1, <1>2, IncrCharge, ExpireCharge
<1>3. CASE o = "lost"
  <2>1. /\ pc[r] \in {"incr", "expire"} /\ todo' = todo /\ regime' = regime
        /\ CountInMemory(Key(r)) /\ Escalate(r, MemoryCount(Key(r)))
    BY <1>3 DEF IncrViolations, ExpireViolations, Acked
  <2> QED  BY <1>1, <1>3, <2>1, MemoryCharge
<1> QED  BY <1>1, <1>2, <1>3

\* What a tick leaves of a count and of a series.
LEMMA AgeCountFacts ==
  ASSUME NEW c \in Nat, NEW n \in Int,
         NEW e, e = [count |-> c, left |-> n]
  PROVE  /\ AgeCount(e).count = IF n = 1 THEN 0 ELSE c
         /\ AgeCount(e).left = IF n = 1 THEN 0 ELSE Less(n)
<1>1. CASE n = 1
  BY <1>1 DEF AgeCount, NoCount
<1>2. CASE n # 1
  <2>1. AgeCount(e) = [e EXCEPT !.left = Less(n)]
    BY <1>2 DEF AgeCount
  <2> QED  BY <1>2, <2>1
<1> QED  BY <1>1, <1>2

LEMMA AgeBreachFacts ==
  ASSUME NEW b \in BreachType
  PROVE  AgeBreach(b) = IF b.quiet = 1 THEN NoBreach
                        ELSE [last |-> b.last, window |-> Less(b.window),
                              quiet |-> Less(b.quiet)]
<1>1. PICK l \in Int, w \in 0..ViolationWindow, q \in 0..ViolationWindow :
        b = [last |-> l, window |-> w, quiet |-> q]
  BY DEF BreachType
<1>2. b.last = l /\ b.window = w /\ b.quiet = q
  BY <1>1
<1>3. [b EXCEPT !.window = Less(w)] = [last |-> l, window |-> Less(w), quiet |-> q]
  BY <1>1
<1>4. [[last |-> l, window |-> Less(w), quiet |-> q] EXCEPT !.quiet = Less(q)]
        = [last |-> l, window |-> Less(w), quiet |-> Less(q)]
  OBVIOUS
<1> QED  BY <1>2, <1>3, <1>4 DEF AgeBreach

\* A count in Redis and its series age together, as a count in memory and the
\* quiet of its series do (blocklist.js:16-23, 94, 97).
LEMMA TickSeries ==
  ASSUME TypeOK, Tick, NEW k \in Keys, SeriesCounted(k),
         breach'[k] = AgeBreach(breach[k])
  PROVE  SeriesCounted(k)' /\ Doubles(k)
<1>1. /\ pc' = pc /\ todo' = todo /\ regime' = regime
      /\ memoryViolations'[k] = AgeCount(memoryViolations[k])
      /\ redisViolations'[k] = AgeCount(redisViolations[k])
  BY DEF Tick, StoreTick, request
<1>2. (Settling(k)' <=> Settling(k)) /\ Doubles(k)
  BY <1>1 DEF Settling, Key, Doubles, Escalates
<1> DEFINE c == redisViolations[k].count
           n == redisViolations[k].left
           d == memoryViolations[k].count
           m == memoryViolations[k].left
           w == breach[k].window
           q == breach[k].quiet
<1>3. /\ c \in Nat /\ n \in Int /\ d \in Nat /\ m \in Int
      /\ n = NoTtl \/ n \in Nat
      /\ ViolationWindow \in Nat
  BY SeriesNumbers DEF NoTtl
<1>4. /\ redisViolations[k] = [count |-> c, left |-> n]
      /\ memoryViolations[k] = [count |-> d, left |-> m]
  BY DEF TypeOK, StoreTypeOK
<1>5. /\ redisViolations'[k].count = IF n = 1 THEN 0 ELSE c
      /\ redisViolations'[k].left = IF n = 1 THEN 0 ELSE Less(n)
      /\ memoryViolations'[k].count = IF m = 1 THEN 0 ELSE d
      /\ memoryViolations'[k].left = IF m = 1 THEN 0 ELSE Less(m)
  BY <1>1, <1>3, <1>4, AgeCountFacts
<1>6. /\ breach[k] \in BreachType /\ w <= q
      /\ w \in 0..ViolationWindow /\ q \in 0..ViolationWindow /\ breach[k].last \in Int
  BY DEF SeriesCounted, BreachType
<1>7. breach'[k] = IF q = 1 THEN NoBreach
                   ELSE [last |-> breach[k].last, window |-> Less(w), quiet |-> Less(q)]
  BY <1>6, AgeBreachFacts
<1>8. /\ breach'[k].last = IF q = 1 THEN 0 ELSE breach[k].last
      /\ breach'[k].window = IF q = 1 THEN 0 ELSE Less(w)
      /\ breach'[k].quiet = IF q = 1 THEN 0 ELSE Less(q)
  BY <1>7 DEF NoBreach
<1>9. /\ Less(w) \in 0..ViolationWindow /\ Less(q) \in 0..ViolationWindow
      /\ Less(w) <= Less(q) /\ (w = 1 => Less(w) = 0) /\ (w = 0 => Less(w) = 0)
  BY <1>3, <1>6 DEF Less
<1>10. breach'[k] \in BreachType /\ breach'[k].window <= breach'[k].quiet
  <2>1. CASE q = 1
    BY <1>3, <1>7, <2>1 DEF BreachType, NoBreach
  <2>2. CASE q # 1
    BY <1>6, <1>7, <1>9, <2>2 DEF BreachType
  <2> QED  BY <2>1, <2>2
<1>11. ASSUME CountedByRedis(k) PROVE CountedByRedis(k)'
  <2>1. CASE Settling(k)
    <3>1. c = 1 /\ n = NoTtl /\ w = 0
      BY <1>11, <2>1 DEF CountedByRedis
    <3>2. redisViolations'[k].count = 1 /\ redisViolations'[k].left = NoTtl
      BY <1>5, <3>1 DEF NoTtl, Less
    <3>3. breach'[k].window = 0
      BY <1>8, <1>9, <3>1
    <3> QED  BY <1>2, <2>1, <3>2, <3>3 DEF CountedByRedis
  <2>2. CASE ~Settling(k)
    <3>1. n = w /\ (c = 0 <=> n = 0) /\ (c > 0 => breach[k].last = BlockTtl(c))
      BY <1>11, <2>2 DEF CountedByRedis
    <3> HIDE DEF c, n, w, q
    <3>2. redisViolations'[k].left = breach'[k].window
      BY <1>3, <1>5, <1>6, <1>8, <3>1 DEF Less
    <3>3. redisViolations'[k].count = 0 <=> redisViolations'[k].left = 0
      BY <1>3, <1>5, <1>6, <3>1 DEF Less
    <3>4. ASSUME redisViolations'[k].count > 0
          PROVE  breach'[k].last = BlockTtl(redisViolations'[k].count)
      <4>1. n # 1 /\ redisViolations'[k].count = c /\ c > 0
        BY <1>5, <3>4
      <4>2. q # 1
        BY <1>3, <1>6, <3>1, <4>1
      <4> QED  BY <1>8, <3>1, <4>1, <4>2
    <3> QED  BY <1>2, <2>2, <3>2, <3>3, <3>4 DEF CountedByRedis
  <2> QED  BY <2>1, <2>2
<1>12. ASSUME CountedInMemory(k) PROVE CountedInMemory(k)'
  <2>1. m = q /\ (m > 0 => d > 0 /\ breach[k].last = BlockTtl(d))
    BY <1>12 DEF CountedInMemory
  <2> HIDE DEF d, m, q
  <2>2. memoryViolations'[k].left = breach'[k].quiet
    BY <1>5, <1>8, <2>1
  <2>3. ASSUME memoryViolations'[k].left > 0
        PROVE  /\ memoryViolations'[k].count > 0
               /\ breach'[k].last = BlockTtl(memoryViolations'[k].count)
    <3>1. m # 1 /\ m > 0
      BY <1>3, <1>5, <2>3 DEF Less
    <3> QED  BY <1>5, <1>8, <2>1, <3>1
  <2> QED  BY <2>2, <2>3 DEF CountedInMemory
<1> QED  BY <1>1, <1>2, <1>10, <1>11, <1>12 DEF SeriesCounted

\* A request's step charges its own key or none (index.js:112-141, 212-241).
LEMMA RequestSeries ==
  ASSUME SteadyRedis, TypeOK, TypeOK', TurnsHeld, Series, NEW r \in Requests,
         Arrive(r) \/ Step(r), NEW k \in Keys, Recorded(k)
  PROVE  SeriesCounted(k)' /\ Doubles(k)
<1>1. SeriesCounted(k)
  BY DEF Series
<1>2. regime' = regime
  BY DEF Arrive, Step, RedisStep, GuardCheck, Recheck, CheckJail, JailLimit,
         IncrViolations, ExpireViolations, SetBlock, ReleaseJail, PlaceInJail, Forward,
         Reply, RecordOutcome, FailLimit, store
<1>3. CASE \E o \in regime : IncrViolations(r, o) \/ ExpireViolations(r, o)
  <2>1. PICK o \in regime : IncrViolations(r, o) \/ ExpireViolations(r, o)
    BY <1>3
  <2>2. CASE k = Key(r)
    <3>1. SeriesCounted(Key(r)) /\ Recorded(Key(r))
      BY <1>1, <2>2
    <3>2. SeriesCounted(Key(r))' /\ Doubles(Key(r))
      BY <2>1, <3>1, OwnCharge
    <3>3. k = Key(r)'
      BY <2>1, <2>2 DEF IncrViolations, ExpireViolations, Key
    <3> QED  BY <2>2, <3>2, <3>3
  <2>3. CASE k # Key(r)
    <3>1. OthersStay(r) /\ todo' = todo
      <4>1. TurnStep(r)
        BY <2>1 DEF TurnStep
      <4> QED  BY <2>1, <4>1, TurnFrame DEF IncrViolations, ExpireViolations
    <3>2. ~Escalates(k) /\ (Settling(k)' <=> Settling(k))
      BY <2>3, <3>1, NoCharge
    <3>3. /\ memoryViolations'[k] = memoryViolations[k]
          /\ redisViolations'[k] = redisViolations[k]
      BY <2>1, <2>3, ChargesOneKey
    <3> QED  BY <1>1, <1>2, <3>2, <3>3, SeriesStays
  <2> QED  BY <2>2, <2>3
<1>4. ASSUME UNCHANGED <<memoryViolations, redisViolations>>, OthersStay(r),
             pc[r] \notin {"incr", "expire"} /\ pc'[r] # "expire"
      PROVE  SeriesCounted(k)' /\ Doubles(k)
  <2>1. ~Escalates(k) /\ (Settling(k)' <=> Settling(k))
    BY <1>4, NoCharge
  <2> QED  BY <1>1, <1>2, <1>4, <2>1, SeriesStays
<1>5. CASE \/ JailLimit(r)
           \/ \E o \in regime : \/ Recheck(r, o) \/ CheckJail(r, o) \/ SetBlock(r, o)
                                \/ ReleaseJail(r, o) \/ PlaceInJail(r, o)
  <2>1. OthersStay(r)
    <3>1. TurnStep(r)
      BY <1>5 DEF TurnStep
    <3> QED  BY <3>1, TurnFrame
  <2>2. UNCHANGED <<memoryViolations, redisViolations>>
    BY <1>5 DEF JailLimit, Recheck, CheckJail, SetBlock, ReleaseJail, PlaceInJail,
         store, memory, redis
  <2>3. pc[r] \in TurnPcs \ {"incr", "expire"} /\ pc[r] # "idle"
    BY <1>5 DEF JailLimit, Recheck, CheckJail, SetBlock, ReleaseJail, PlaceInJail, TurnPcs
  <2>4. \/ PassOn(r)
        \/ \E p \in Pcs \ {"expire"} : Goto(r, p)
    BY <1>5 DEF JailLimit, Recheck, CheckJail, SetBlock, ReleaseJail, PlaceInJail, EndTurn,
         Pcs, TurnPcs
  <2>5. pc'[r] # "expire"
    <3>1. CASE PassOn(r)
      BY <2>3, <3>1, PassOnType
    <3>2. CASE \E p \in Pcs \ {"expire"} : Goto(r, p)
      BY <3>2 DEF Goto, TypeOK
    <3> QED  BY <2>4, <3>1, <3>2
  <2> QED  BY <1>4, <2>1, <2>2, <2>3, <2>5
<1>6. CASE \/ Arrive(r) \/ Forward(r) \/ Reply(r) \/ RecordOutcome(r) \/ FailLimit(r)
           \/ \E o \in regime : GuardCheck(r, o)
  <2>1. UNCHANGED <<memoryViolations, redisViolations>>
    BY <1>6 DEF Arrive, Forward, Reply, RecordOutcome, FailLimit, GuardCheck,
         store, memory, redis
  <2>2. pc[r] \notin {"incr", "expire"}
    BY <1>6 DEF Arrive, Forward, Reply, RecordOutcome, FailLimit, GuardCheck
  <2>3. OthersStay(r) /\ pc'[r] # "expire"
    <3>1. CASE FailLimit(r) /\ PassOn(r)
      BY <3>1, PassOnType DEF FailLimit, OthersStay
    <3>2. CASE ~(FailLimit(r) /\ PassOn(r))
      <4>1. \E p \in Pcs \ {"expire"} : Goto(r, p)
        BY <1>6, <3>2 DEF Arrive, Forward, Reply, RecordOutcome, FailLimit, GuardCheck,
             Pcs, TurnPcs
      <4>2. \/ todo' = todo \/ \E t : todo' = [todo EXCEPT ![r] = t]
        BY <1>6, <3>2 DEF Arrive, Forward, Reply, RecordOutcome, FailLimit, GuardCheck
      <4> QED  BY <4>1, <4>2 DEF Goto, OthersStay, TypeOK
    <3> QED  BY <3>1, <3>2
  <2> QED  BY <1>4, <2>1, <2>2, <2>3
<1> QED  BY <1>3, <1>5, <1>6 DEF Step, RedisStep

\* Every step keeps the series, and doubles.
LEMMA SeriesStep ==
  ASSUME SteadyRedis, TypeOK, TypeOK', TurnsHeld, Series, HNext, NEW k \in Keys
  PROVE  SeriesCounted(k)' /\ Doubles(k)
<1>1. SeriesCounted(k)
  BY DEF Series
<1>2. CASE Tick /\ breach' = [l \in Keys |-> AgeBreach(breach[l])]
  BY <1>1, <1>2, TickSeries
<1>3. CASE breach' = [l \in Keys |-> IF Escalates(l) THEN Breached(l) ELSE breach[l]]
  <2>1. Recorded(k)
    BY <1>3 DEF Recorded
  <2>2. ASSUME NEW r \in Requests, Arrive(r) \/ Step(r)
        PROVE  SeriesCounted(k)' /\ Doubles(k)
    BY <2>1, <2>2, RequestSeries
  <2>3. ASSUME NEW a \in Admins, AdminStep(a)
        PROVE  SeriesCounted(k)' /\ Doubles(k)
    <3>1. /\ pc' = pc /\ todo' = todo /\ regime' = regime
          /\ UNCHANGED <<memoryViolations, redisViolations>>
      BY <2>3 DEF AdminStep, AdminBlock, AdminBlocked, request, memory
    <3>2. ~Escalates(k) /\ (Settling(k)' <=> Settling(k))
      BY <3>1 DEF Escalates, Settling, Key
    <3> QED  BY <1>1, <2>1, <3>1, <3>2, SeriesStays
  <2> QED  BY <1>2, <2>2, <2>3 DEF HNext
<1> QED  BY <1>2, <1>3 DEF HNext

LEMMA SeriesInit == HInit => Series
<1> SUFFICES ASSUME HInit, NEW k \in Keys PROVE SeriesCounted(k)
  BY DEF Series
<1>1. /\ breach[k] = NoBreach /\ memoryViolations[k] = NoCount
      /\ redisViolations[k] = NoCount /\ \A r \in Requests : pc[r] # "expire"
  BY DEF HInit, Init, StoreInit
<1>2. breach[k] \in BreachType /\ breach[k].window = 0 /\ breach[k].quiet = 0
  BY <1>1, DurationAssumption DEF NoBreach, BreachType
<1>3. CountedByRedis(k)
  BY <1>1, <1>2 DEF CountedByRedis, Settling, NoCount
<1>4. CountedInMemory(k)
  BY <1>1, <1>2 DEF CountedInMemory, NoCount
<1> QED  BY <1>2, <1>3, <1>4 DEF SeriesCounted

\* Progressive delays (blocklist.js:79-83) for any requests, admins, keys and
\* durations, with Redis up, or down, throughout: each repeat breach within the
\* window doubles the block up to the cap, and after a quiet window the next one
\* earns the base block.
THEOREM BreachesDouble == ASSUME SteadyRedis PROVE HSpec => RepeatBreachDoubles
<1> DEFINE HInv == Inv /\ Series
<1>1. HInit => HInv
  BY TypeInit, TurnsInit, DecidesInit, SeriesInit DEF HInit, Inv
<1>2. [HNext]_hvars => [Next]_vars
  BY DEF HNext, Next, hvars
<1>3. HInv /\ [HNext]_hvars => HInv'
  <2> SUFFICES ASSUME HInv, [HNext]_hvars PROVE HInv'
    OBVIOUS
  <2>1. Inv'
    BY <1>2, TypeStep, TurnsStep, DecidesStep DEF Inv
  <2>2. CASE HNext
    BY <2>1, <2>2, SeriesStep DEF Inv, Series
  <2>3. CASE UNCHANGED hvars
    <3>1. \A k \in Keys : SeriesCounted(k)' <=> SeriesCounted(k)
      BY <2>3 DEF hvars, vars, request, store, memory, redis, SeriesCounted,
           CountedByRedis, CountedInMemory, Settling, Key
    <3>2. Series'
      BY <3>1 DEF Series
    <3> QED  BY <2>1, <3>2
  <2> QED  BY <2>2, <2>3
<1>4. HInv /\ HInv' /\ [HNext]_hvars =>
        [\A k \in Keys : Escalates(k) =>
            /\ breach[k].window > 0 => Earned(k) = Least(MaxBlock, 2 * breach[k].last)
            /\ breach[k].quiet = 0 => Earned(k) = Least(MaxBlock, BaseBlock)]_hvars
  BY SeriesStep DEF Inv, Doubles
<1> QED  BY <1>1, <1>3, <1>4, PTL DEF HSpec, RepeatBreachDoubles

=============================================================================
