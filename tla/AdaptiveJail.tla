---------------------------- MODULE AdaptiveJail ----------------------------
(***************************************************************************)
(* The blocklist guard and the login-outcome recorder (rate-limiter/       *)
(* index.js) over the stores of Blocklist, taking turns per key with       *)
(* withKeyLock.  A step of a request is what the code does between two     *)
(* awaits that other requests can be seen through: the reply to a Redis    *)
(* command, and all the synchronous code up to the next one.               *)
(*                                                                         *)
(* External here: the limiters of rate-limiter-flexible accept or reject   *)
(* freely, and the upstream answers anything.                              *)
(***************************************************************************)
EXTENDS Blocklist

CONSTANTS
    Requests,   \* requests in flight; one that is done may arrive anew
    Admins,     \* callers of POST /api/v1/security/blocklist
    Ips,
    Accounts,
    NoAccount   \* armourapiAccount undefined

IpKey(i) == <<"ip", i>>
AccountKey(a) == <<"account", a>>

ASSUME ActorAssumption ==
    /\ Keys = {IpKey(i) : i \in Ips} \cup {AccountKey(a) : a \in Accounts}
    /\ NoAccount \notin Accounts
    /\ Writers = Requests \cup Admins
    /\ Requests \cap Admins = {}

VARIABLES
    pc,       \* where request r is: what it awaits
    phase,    \* in the guard's turn, or in a turn of recordLoginOutcome
    todo,     \* the keys it has yet to deal with, in order; the first is at work
    carried,  \* the account that the request's body names
    account,  \* request.armourapiAccount
    denied,   \* the reply's status is 401 or 403
    gate,     \* request.armourapiBlockedByGate
    queue,    \* queue[k]: the turns of withKeyLock on k
    setting   \* the key that an admin is blocking, or <<>>

request == <<pc, phase, todo, carried, account, denied, gate>>
vars == <<request, queue, setting, store>>

Lock == INSTANCE KeyQueue WITH Calls <- Requests

\* The awaits of a turn, in the order of the code.
TurnPcs == {"recheck", "jailed", "jailLimit", "incr", "expire", "set", "del", "place"}
Pcs == {"idle", "guard", "admitted", "upstream", "replied", "failLimit"} \cup TurnPcs

Key(r) == Head(todo[r])

Goto(r, p) == pc' = [pc EXCEPT ![r] = p]

Init ==
    /\ StoreInit
    /\ pc = [r \in Requests |-> "idle"]
    /\ phase = [r \in Requests |-> "guard"]
    /\ todo = [r \in Requests |-> <<>>]
    /\ carried = [r \in Requests |-> NoAccount]
    /\ account = [r \in Requests |-> NoAccount]
    /\ denied = [r \in Requests |-> FALSE]
    /\ gate = [r \in Requests |-> FALSE]
    /\ Lock!Init
    /\ setting = [a \in Admins |-> <<>>]

-----------------------------------------------------------------------------
(* createBlocklistGuard                                                     *)

\* A request reaches the guard, with an address and a body.
Arrive(r) ==
    /\ pc[r] = "idle"
    /\ Goto(r, "guard")
    /\ phase' = [phase EXCEPT ![r] = "guard"]
    /\ \E i \in Ips : todo' = [todo EXCEPT ![r] = <<IpKey(i)>>]
    /\ \E a \in Accounts \cup {NoAccount} : carried' = [carried EXCEPT ![r] = a]
    /\ UNCHANGED <<account, denied, gate, queue, setting, store>>

\* A denial by the guard: the gate flags the request and answers 403.
Deny(r) ==
    /\ gate' = [gate EXCEPT ![r] = TRUE]
    /\ denied' = [denied EXCEPT ![r] = TRUE]

\* The guard's own look at the blocklist, outside the lock.  account[r] is
\* still undefined here: the login guard sets it later in the chain.
GuardCheck(r, o) ==
    /\ pc[r] = "guard"
    /\ IF \/ BlockedSeen(Key(r), o)
          \/ account[r] # NoAccount /\ BlockedSeen(AccountKey(account[r]), o)
       THEN /\ Goto(r, "replied") /\ Deny(r)
            /\ UNCHANGED queue
       ELSE /\ Goto(r, "recheck") /\ Lock!Enqueue(Key(r), r)
            /\ UNCHANGED <<denied, gate>>
    /\ UNCHANGED <<phase, todo, carried, account, setting, store>>

-----------------------------------------------------------------------------
(* A turn under the key's lock                                              *)

\* Mutant: the turns of a key are not waited for.
MyTurnAtOnce(r) == pc[r] \in TurnPcs

MyTurn(r) == Lock!Holds(Key(r), r)

\* Mutant: the loop over the targets runs once too often.
PassOnOneMore(r) ==
    \/ /\ phase[r] = "guard"
       /\ Goto(r, "admitted")
       /\ UNCHANGED todo
    \/ /\ phase[r] = "outcome"
       /\ todo' = [todo EXCEPT ![r] = Tail(@)]
       /\ Goto(r, IF Len(todo[r]) > 0 THEN "failLimit" ELSE "idle")

\* The turn's function returns: the guard admits the request, and
\* recordLoginOutcome goes on with its next target.
PassOn(r) ==
    \/ /\ phase[r] = "guard"
       /\ Goto(r, "admitted")
       /\ UNCHANGED todo
    \/ /\ phase[r] = "outcome"
       /\ todo' = [todo EXCEPT ![r] = Tail(@)]
       /\ Goto(r, IF Len(todo[r]) > 1 THEN "failLimit" ELSE "idle")

\* Mutant: a turn that has ended does not hand the lock on.
LeaveTurnKept(r) == UNCHANGED queue

LeaveTurn(r) == Lock!Leave(Key(r), r)

EndTurn(r) ==
    /\ LeaveTurn(r)
    /\ PassOn(r)
    /\ UNCHANGED <<phase, carried, account, denied, gate>>

\* Mutant: the check before the lock was taken is enough.
RecheckSkipped(r, o) ==
    /\ pc[r] = "recheck" /\ MyTurn(r)
    /\ Goto(r, "jailed")
    /\ UNCHANGED <<phase, todo, carried, account, denied, gate, queue, setting, store>>

\* if (await isBlocked(...)) return: whoever comes later in a burst does
\* nothing more.  The guard's turn returns null there, which admits.
Recheck(r, o) ==
    /\ pc[r] = "recheck" /\ MyTurn(r)
    /\ IF BlockedSeen(Key(r), o)
       THEN EndTurn(r)
       ELSE Goto(r, "jailed") /\ UNCHANGED <<phase, todo, carried, account, denied, gate, queue>>
    /\ UNCHANGED <<setting, store>>

\* isJailed.  In the guard a jailed caller is held to the jail's limit; after
\* a failed login it escalates, and one that is not in jail is placed there.
CheckJail(r, o) ==
    /\ pc[r] = "jailed" /\ MyTurn(r)
    /\ \/ /\ phase[r] = "guard" /\ JailSeen(Key(r), o)
          /\ Goto(r, "jailLimit")
          /\ UNCHANGED <<todo, phase, carried, account, denied, gate, queue, memoryJail>>
       \/ /\ phase[r] = "guard" /\ ~JailSeen(Key(r), o)
          /\ EndTurn(r)
          /\ UNCHANGED memoryJail
       \/ /\ phase[r] = "outcome" /\ JailSeen(Key(r), o)
          /\ Goto(r, "incr")
          /\ UNCHANGED <<todo, phase, carried, account, denied, gate, queue, memoryJail>>
       \/ /\ phase[r] = "outcome" /\ ~JailSeen(Key(r), o)
          /\ Goto(r, "place") /\ JailInMemory(Key(r))
          /\ UNCHANGED <<todo, phase, carried, account, denied, gate, queue>>
    /\ UNCHANGED <<memoryStore, memoryViolations, redis, regime, setting>>

\* jailLimiter.consume: within the jail's limit, or beyond it.
JailLimit(r) ==
    /\ pc[r] = "jailLimit" /\ MyTurn(r)
    /\ \/ EndTurn(r)
       \/ Goto(r, "incr") /\ UNCHANGED <<phase, todo, carried, account, denied, gate, queue>>
    /\ UNCHANGED <<setting, store>>

\* The block that a count of violations earns, up to its await.
Escalate(r, count) ==
    /\ StartBlock(r, Key(r), BlockTtl(count), "escalated")
    /\ Goto(r, "set")

\* redis.incr.  The first violation of a window goes on to set the TTL; an
\* error falls back to the mirror's count.
IncrViolations(r, o) ==
    /\ pc[r] = "incr" /\ MyTurn(r)
    /\ Incr(Key(r), o)
    /\ \/ /\ Acked(o) /\ RedisCount(Key(r), o) = 1
          /\ Goto(r, "expire")
          /\ UNCHANGED <<memoryStore, memoryViolations, wire>>
       \/ /\ Acked(o) /\ RedisCount(Key(r), o) # 1
          /\ Escalate(r, RedisCount(Key(r), o))
          /\ UNCHANGED memoryViolations
       \/ /\ ~Acked(o)
          /\ CountInMemory(Key(r))
          /\ Escalate(r, MemoryCount(Key(r)))
    /\ UNCHANGED <<phase, todo, carried, account, denied, gate, queue, setting>>
    /\ UNCHANGED <<memoryJail, redisStore, redisJail, regime>>

\* redis.expire, in the same try: its failure also counts in memory.
ExpireViolations(r, o) ==
    /\ pc[r] = "expire" /\ MyTurn(r)
    /\ Expire(Key(r), o)
    /\ \/ /\ Acked(o)
          /\ Escalate(r, 1)
          /\ UNCHANGED memoryViolations
       \/ /\ ~Acked(o)
          /\ CountInMemory(Key(r))
          /\ Escalate(r, MemoryCount(Key(r)))
    /\ UNCHANGED <<phase, todo, carried, account, denied, gate, queue, setting>>
    /\ UNCHANGED <<memoryJail, redisStore, redisJail, regime>>

\* Mutant: the jail is kept when its caller is blocked.
SetBlockKeepJail(r, o) ==
    /\ pc[r] = "set" /\ MyTurn(r)
    /\ EndBlock(r, o)
    /\ EndTurn(r)
    /\ UNCHANGED <<memory, redisJail, redisViolations, regime, setting>>

\* block() returns, and releaseFromJail starts.
SetBlock(r, o) ==
    /\ pc[r] = "set" /\ MyTurn(r)
    /\ EndBlock(r, o)
    /\ ReleaseInMemory(Key(r))
    /\ Goto(r, "del")
    /\ UNCHANGED <<phase, todo, carried, account, denied, gate, queue, setting>>
    /\ UNCHANGED <<memoryStore, memoryViolations, redisJail, redisViolations, regime>>

\* releaseFromJail returns: the turn ends, and the guard denies.
ReleaseJail(r, o) ==
    /\ pc[r] = "del" /\ MyTurn(r)
    /\ ReleaseInRedis(Key(r), o)
    /\ LeaveTurn(r)
    /\ \/ /\ phase[r] = "guard" /\ Goto(r, "replied") /\ Deny(r)
          /\ UNCHANGED todo
       \/ /\ phase[r] = "outcome" /\ PassOn(r)
          /\ UNCHANGED <<denied, gate>>
    /\ UNCHANGED <<phase, carried, account, setting>>
    /\ UNCHANGED <<memory, redisStore, redisViolations, wire, regime>>

\* placeInJail returns.
PlaceInJail(r, o) ==
    /\ pc[r] = "place" /\ MyTurn(r)
    /\ JailInRedis(Key(r), o)
    /\ EndTurn(r)
    /\ UNCHANGED <<memory, redisStore, redisViolations, wire, regime, setting>>

-----------------------------------------------------------------------------
(* The rest of the chain, the upstream and recordLoginOutcome               *)

\* createLoginGuard stashes the body's account and the request goes to the
\* upstream; or another scanner of the chain denies it.
Forward(r) ==
    /\ pc[r] = "admitted"
    /\ \/ /\ account' = [account EXCEPT ![r] = carried[r]]
          /\ Goto(r, "upstream")
          /\ UNCHANGED <<denied, gate>>
       \/ Deny(r) /\ Goto(r, "replied") /\ UNCHANGED account
    /\ UNCHANGED <<phase, todo, carried, queue, setting, store>>

\* The upstream's reply is sent: the login failed (401 or 403), or not.
Reply(r) ==
    /\ pc[r] = "upstream"
    /\ \E failure \in BOOLEAN : denied' = [denied EXCEPT ![r] = failure]
    /\ Goto(r, "replied")
    /\ UNCHANGED <<phase, todo, carried, account, gate, queue, setting, store>>

\* onResponse: only a denial that came from the upstream is a login failure,
\* of the address and of the account.
RecordOutcome(r) ==
    /\ pc[r] = "replied"
    /\ IF ~gate[r] /\ denied[r]
       THEN /\ Goto(r, "failLimit")
            /\ phase' = [phase EXCEPT ![r] = "outcome"]
            /\ todo' = [todo EXCEPT ![r] =
                            IF account[r] = NoAccount THEN @
                            ELSE Append(@, AccountKey(account[r]))]
       ELSE /\ Goto(r, "idle")
            /\ todo' = [todo EXCEPT ![r] = <<>>]
            /\ UNCHANGED phase
    /\ carried' = [carried EXCEPT ![r] = NoAccount]
    /\ account' = [account EXCEPT ![r] = NoAccount]
    /\ denied' = [denied EXCEPT ![r] = FALSE]
    /\ gate' = [gate EXCEPT ![r] = FALSE]
    /\ UNCHANGED <<queue, setting, store>>

\* loginFailureLimiter.consume(value): under the threshold it is done with
\* this target, a breach queues for the target's lock.
FailLimit(r) ==
    /\ pc[r] = "failLimit"
    /\ \/ PassOn(r) /\ UNCHANGED queue
       \/ /\ Goto(r, "recheck") /\ Lock!Enqueue(Key(r), r)
          /\ UNCHANGED todo
    /\ UNCHANGED <<phase, carried, account, denied, gate, setting, store>>

-----------------------------------------------------------------------------
(* The admin endpoint calls block() without the lock.  A call that names an *)
(* address and an account blocks one after the other, as two calls do.      *)

AdminBlock(a) ==
    /\ setting[a] = <<>>
    /\ \E k \in Keys :
        /\ StartBlock(a, k, ManualBlock, "manual")
        /\ setting' = [setting EXCEPT ![a] = k]
    /\ UNCHANGED <<request, queue, memoryJail, memoryViolations>>
    /\ UNCHANGED <<redisStore, redisJail, redisViolations, regime>>

AdminBlocked(a, o) ==
    /\ setting[a] # <<>>
    /\ EndBlock(a, o)
    /\ setting' = [setting EXCEPT ![a] = <<>>]
    /\ UNCHANGED <<request, queue, memory, redisJail, redisViolations, regime>>

Tick == StoreTick /\ UNCHANGED <<request, queue, setting>>

-----------------------------------------------------------------------------

RedisStep(r, o) ==
    \/ GuardCheck(r, o) \/ Recheck(r, o) \/ CheckJail(r, o)
    \/ IncrViolations(r, o) \/ ExpireViolations(r, o) \/ SetBlock(r, o)
    \/ ReleaseJail(r, o) \/ PlaceInJail(r, o)

\* What a request does once it is there.
Step(r) ==
    \/ \E o \in regime : RedisStep(r, o)
    \/ JailLimit(r) \/ Forward(r) \/ Reply(r) \/ RecordOutcome(r) \/ FailLimit(r)

AdminStep(a) == AdminBlock(a) \/ \E o \in regime : AdminBlocked(a, o)

Next ==
    \/ \E r \in Requests : Arrive(r) \/ Step(r)
    \/ \E a \in Admins : AdminStep(a)
    \/ Tick

Spec == Init /\ [][Next]_vars

\* A Redis promise settles, the limiters and the upstream answer, and the
\* clock runs.  No request need ever arrive.
Fairness == WF_vars(Tick) /\ \A r \in Requests : WF_vars(Step(r))

FairSpec == Spec /\ Fairness

-----------------------------------------------------------------------------
(* Properties                                                               *)

\* Every variable has its type, and a request that is on its way has a key at
\* work: the loop over the targets of index.js:203 ends with the last one.
TypeOK ==
    /\ StoreTypeOK
    /\ pc \in [Requests -> Pcs]
    /\ phase \in [Requests -> {"guard", "outcome"}]
    /\ todo \in [Requests -> Seq(Keys)]
    /\ carried \in [Requests -> Accounts \cup {NoAccount}]
    /\ account \in [Requests -> Accounts \cup {NoAccount}]
    /\ denied \in [Requests -> BOOLEAN]
    /\ gate \in [Requests -> BOOLEAN]
    /\ queue \in [Keys -> Seq(Requests)]
    /\ setting \in [Admins -> Keys \cup {<<>>}]
    /\ \A r \in Requests : pc[r] # "idle" => todo[r] # <<>>

\* A request that has begun its turn holds the lock of its key until the turn
\* ends, and nobody stands in a queue twice, in the wrong queue or after its
\* turn (blocklist.js:38-44, index.js:112, 212).
TurnsHeld ==
    /\ \A k \in Keys : \A i, j \in DOMAIN queue[k] :
           queue[k][i] = queue[k][j] => i = j
    /\ \A k \in Keys : \A i \in DOMAIN queue[k] :
           pc[queue[k][i]] \in TurnPcs /\ Key(queue[k][i]) = k
    /\ \A r \in Requests :
           pc[r] \in TurnPcs \ {"recheck"} => Lock!Holds(Key(r), r)

Escalated(k) == memoryStore[k].left > 0 /\ memoryStore[k].reason = "escalated"

\* What a turn saw in its recheck still holds when it acts on it, some awaits
\* later (index.js:117-123, 223-241): until the turn blocks the key itself, no
\* escalation is in force on it.
DecidesUnblocked ==
    \A r \in Requests :
        pc[r] \in {"jailed", "jailLimit", "incr", "expire"} => ~Escalated(Key(r))

\* ARM-02 (blocklist.js:25-34, index.js:207-222): a burst escalates once.
\* While a key's own escalation is in force nobody charges the key another
\* violation and nobody lengthens the block, whatever Redis does.
OneEscalationPerBlock ==
    [][\A k \in Keys : Escalated(k) =>
          /\ memoryStore'[k].reason = "escalated"
                => memoryStore'[k].left <= memoryStore[k].left
          /\ memoryViolations'[k].count <= memoryViolations[k].count
          /\ redisViolations'[k].count <= redisViolations[k].count]_vars

\* A block survives the loss of the mirror (redis/client.js:5-6): as long as
\* Redis answers, what the mirror enforces and no SET is still on its way for
\* is in Redis for at least as long, also when an admin and an escalation
\* block the same key at once.
MirrorIsBacked ==
    \A k \in Keys :
        /\ regime \subseteq {"ok", "resent"}
        /\ memoryStore[k].left > 0
        /\ \A i \in DOMAIN wire : wire[i].key # k
        => redisStore[k] >= memoryStore[k].left

\* The tier a key is in: a turn that has decided counts as what it decided.
HolderAt(k, pcs) == queue[k] # <<>> /\ pc[Head(queue[k])] \in pcs

Blocked(k) ==
    memoryStore[k].left > 0 \/ redisStore[k] # 0 \/ HolderAt(k, {"set", "del"})

Jailed(k) ==
    \/ memoryJail[k] > 0 \/ redisJail[k] > 0
    \/ HolderAt(k, {"jailLimit", "incr", "expire", "place"})

Tier(k) == IF Blocked(k) THEN "blocked" ELSE IF Jailed(k) THEN "jailed" ELSE "free"

Tiers == INSTANCE Quarantine WITH tier <- [k \in Keys |-> Tier(k)]

\* With Redis up, or down, throughout, the keys go through the tiers as
\* "Mode 3" says (index.js:32-37): one block per stay in the jail, no block
\* of a key that is not in it, and no stay left over when a block lapses.
JailsBeforeBlocks == Tiers!Spec

\* Every request comes to an end, in the guard and in recordLoginOutcome,
\* though others keep queueing for the same lock (blocklist.js:32-34).
EveryRequestEnds == \A r \in Requests : pc[r] # "idle" ~> pc[r] = "idle"

\* The blocklist is temporary (blocklist.js:4): no key stays blocked.
BlocksLapse == \A k \in Keys : Blocked(k) ~> ~Blocked(k)

\* Violations are forgotten when their window ends (blocklist.js:77, 94): the
\* count that Redis keeps of a key goes back to none, whoever comes.
CountsLapse ==
    \A k \in Keys : redisViolations[k].count > 0 ~> redisViolations[k].count = 0

\* index.js:87-90: an already-blocked IP gets rejected.
BlockedIpRejected ==
    [][\A r \in Requests :
          pc[r] \in {"guard"} \cup TurnPcs /\ pc'[r] = "admitted"
              => ~(memoryStore[Key(r)].left > 0 /\ redisStore[Key(r)] # 0)]_vars

\* index.js:87-90: an already-blocked account gets rejected.
BlockedAccountRejected ==
    [][\A r \in Requests :
          pc[r] \in {"guard"} \cup TurnPcs /\ pc'[r] = "admitted" /\ carried[r] # NoAccount
              => LET k == AccountKey(carried[r])
                 IN  ~(memoryStore[k].left > 0 /\ redisStore[k] # 0)]_vars
=============================================================================
