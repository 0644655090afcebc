------------------------ MODULE AdaptiveJailRestart ------------------------
(***************************************************************************)
(* AdaptiveJail in a process that may stop at any point and be started     *)
(* again: what it had in memory is gone, what Redis has stays, and of the  *)
(* commands that were on their way Redis has read some.                    *)
(***************************************************************************)
EXTENDS AdaptiveJail

CONSTANT Restarts  \* bound: how often the process is started again

ASSUME RestartsAssumption == Restarts \in Nat

VARIABLE lives  \* restarts that are left

rvars == <<vars, lives>>

RInit == Init /\ lives = Restarts

\* The turn that holds k waits for the answer to this command.
Awaits(k, command) == queue[k] # <<>> /\ pc[Head(queue[k])] = command

\* redis.incr, redis.expire, and the SET and DEL of the jail, for the keys
\* whose turn's command Redis had read.
LandedCount(k) ==
    IF Awaits(k, "incr")
    THEN [count |-> CountUpTo(redisViolations[k].count + 1),
          left |-> IF redisViolations[k].count = 0 THEN NoTtl ELSE redisViolations[k].left]
    ELSE IF Awaits(k, "expire") THEN [redisViolations[k] EXCEPT !.left = ViolationWindow]
    ELSE redisViolations[k]

LandedJail(k) ==
    IF Awaits(k, "place") THEN JailTtl ELSE IF Awaits(k, "del") THEN 0 ELSE redisJail[k]

Land(keys) ==
    /\ redisViolations' =
           [k \in Keys |-> IF k \in keys THEN LandedCount(k) ELSE redisViolations[k]]
    /\ redisJail' = [k \in Keys |-> IF k \in keys THEN LandedJail(k) ELSE redisJail[k]]

Restart ==
    /\ lives > 0
    /\ lives' = lives - 1
    /\ DrainWire
    /\ \E landed \in IF Reachable THEN SUBSET Keys ELSE {{}} : Land(landed)
    /\ memoryStore' = [k \in Keys |-> Unblocked]
    /\ memoryJail' = [k \in Keys |-> 0]
    /\ memoryViolations' = [k \in Keys |-> NoCount]
    /\ pc' = [r \in Requests |-> "idle"]
    /\ phase' = [r \in Requests |-> "guard"]
    /\ todo' = [r \in Requests |-> <<>>]
    /\ carried' = [r \in Requests |-> NoAccount]
    /\ account' = [r \in Requests |-> NoAccount]
    /\ denied' = [r \in Requests |-> FALSE]
    /\ gate' = [r \in Requests |-> FALSE]
    /\ queue' = [k \in Keys |-> <<>>]
    /\ setting' = [a \in Admins |-> <<>>]
    /\ UNCHANGED regime

RNext ==
    \/ Next /\ UNCHANGED lives
    \/ Restart

RSpec == RInit /\ [][RNext]_rvars

RFairSpec == RSpec /\ Fairness

-----------------------------------------------------------------------------
(* Properties                                                               *)

\* Blocks survive restarts in Redis (redis/client.js:5-6), and do what they do
\* within a life: while Redis lists a key as blocked, no violation is charged
\* to the key and the jail does not take it in, by the process that blocked it
\* or by a later one.  With Redis up throughout, and no admin.
BlockOutlivesProcess ==
    [][\A k \in Keys : redisStore[k] # 0 =>
          /\ redisViolations'[k].count <= redisViolations[k].count
          /\ memoryViolations'[k].count <= memoryViolations[k].count
          /\ redisJail'[k] <= redisJail[k]]_rvars
=============================================================================
