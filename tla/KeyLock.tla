------------------------------ MODULE KeyLock ------------------------------
(***************************************************************************)
(* The per-key promise chain of withKeyLock (rate-limiter/blocklist.js).   *)
(* The map holds, per key, the tail of a chain of promises; a new call     *)
(* hangs its function on the tail, for fulfilment and for rejection alike, *)
(* and becomes the tail.  A function may throw, and may never settle (a    *)
(* Redis reply that never comes): the calls in Hanging.                    *)
(***************************************************************************)
EXTENDS Naturals, Sequences

CONSTANTS Keys,     \* the locked keys
          Calls,    \* the calls of withKeyLock, each made once
          Hanging   \* the calls whose function may never settle

ASSUME HangingAssumption == Hanging \subseteq Calls

VARIABLES
    keyChains,  \* keyChains[k]: the calls chained on k; the map holds the last
    turn        \* turn[c]: where call c is

vars == <<keyChains, turn>>

Turns == {"unmade", "waiting", "running", "fulfilled", "rejected"}

Settled(c) == turn[c] \in {"fulfilled", "rejected"}

ChainedOn(k, c) == \E i \in DOMAIN keyChains[k] : keyChains[k][i] = c

\* Mutants: fn is called at once; only fulfilment hands the turn on
\* (tail.then(fn)); the next call hangs on the tail before the last.
RunAtOnce(k, i) == TRUE
RunIfFulfilled(k, i) == i > 1 => turn[keyChains[k][i - 1]] = "fulfilled"
RunBehindOlder(k, i) == i > 2 => Settled(keyChains[k][i - 2])

\* The i-th call of k hangs on the one before it, or on Promise.resolve():
\* its function may run when that promise has settled.
MayRun(k, i) == i > 1 => Settled(keyChains[k][i - 1])

Init ==
    /\ keyChains = [k \in Keys |-> <<>>]
    /\ turn = [c \in Calls |-> "unmade"]

\* Mutant: the new promise is never stored in the map.
WithKeyLockUnstored(k, c) ==
    /\ turn[c] = "unmade"
    /\ turn' = [turn EXCEPT ![c] = "waiting"]
    /\ UNCHANGED keyChains

\* withKeyLock(type, value, fn): run = tail.then(fn, fn) is the new tail.
WithKeyLock(k, c) ==
    /\ turn[c] = "unmade"
    /\ keyChains' = [keyChains EXCEPT ![k] = Append(@, c)]
    /\ turn' = [turn EXCEPT ![c] = "waiting"]

\* The promise a call hangs on has settled: its function starts.
StartTurn(k, c) ==
    /\ turn[c] = "waiting"
    /\ \E i \in DOMAIN keyChains[k] : keyChains[k][i] = c /\ MayRun(k, i)
    /\ turn' = [turn EXCEPT ![c] = "running"]
    /\ UNCHANGED keyChains

\* The function returns or throws.
Settle(c) ==
    /\ turn[c] = "running"
    /\ \E outcome \in {"fulfilled", "rejected"} :
           turn' = [turn EXCEPT ![c] = outcome]
    /\ UNCHANGED keyChains

Next ==
    \/ \E k \in Keys, c \in Calls : WithKeyLock(k, c) \/ StartTurn(k, c)
    \/ \E c \in Calls : Settle(c)

\* The event loop runs a reaction whose promise has settled, and a function
\* that does not hang settles.  Nobody has to call.
Fairness ==
    \A c \in Calls :
        /\ WF_vars(\E k \in Keys : StartTurn(k, c))
        /\ c \notin Hanging => WF_vars(Settle(c))

Spec == Init /\ [][Next]_vars /\ Fairness

-----------------------------------------------------------------------------

\* Exactly the calls made stand in a chain, each at one place of one chain.
ChainedOnce ==
    /\ \A k \in Keys : \A i \in DOMAIN keyChains[k] : turn[keyChains[k][i]] # "unmade"
    /\ \A c \in Calls : turn[c] # "unmade" => \E k \in Keys : ChainedOn(k, c)
    /\ \A k, l \in Keys : \A i \in DOMAIN keyChains[k], j \in DOMAIN keyChains[l] :
           keyChains[k][i] = keyChains[l][j] => k = l /\ i = j

\* The chains hold calls, and a call is in a chain from the moment it is made:
\* withKeyLock stores the new tail before it returns (blocklist.js:40-43).
TypeOK ==
    /\ keyChains \in [Keys -> Seq(Calls)]
    /\ turn \in [Calls -> Turns]
    /\ ChainedOnce

\* ARM-02 (blocklist.js:32-34): concurrent callers for the same key run one
\* at a time.
OneAtATime ==
    \A k \in Keys : \A c, d \in Calls :
        /\ ChainedOn(k, c) /\ ChainedOn(k, d)
        /\ turn[c] = "running" /\ turn[d] = "running"
        => c = d

\* ... in arrival order (blocklist.js:33): once a call has started, every
\* call that was chained on its key before it has settled.
ArrivalOrder ==
    \A k \in Keys : \A i, j \in DOMAIN keyChains[k] :
        i < j /\ turn[keyChains[k][j]] # "waiting" => Settled(keyChains[k][i])

\* The chain of k from its oldest call that has not settled on: the queue that
\* it implements.
Unsettled(k) ==
    LET n == Len(keyChains[k])
        first == CHOOSE i \in 1..(n + 1) :
                     /\ i <= n => ~Settled(keyChains[k][i])
                     /\ \A j \in 1..(i - 1) : Settled(keyChains[k][j])
    IN  SubSeq(keyChains[k], first, n)

Queue == INSTANCE KeyQueue WITH queue <- [k \in Keys |-> Unsettled(k)]

\* The chain is a queue per key: calls enter at the back, and only the head
\* leaves, whatever its function's outcome.
ChainIsQueue == Queue!Spec

\* A call that may never settle stands at or before c in its chain.
HeldUp(c) ==
    \E k \in Keys : \E i, j \in DOMAIN keyChains[k] :
        i <= j /\ keyChains[k][j] = c /\ keyChains[k][i] \in Hanging

\* A turn that throws does not poison the chain, and different keys never
\* block each other (blocklist.js:33-34, 41-42): a call settles unless a call
\* that hangs is ahead of it on its own key.
TurnComes == \A c \in Calls : turn[c] = "waiting" ~> Settled(c) \/ HeldUp(c)
=============================================================================
