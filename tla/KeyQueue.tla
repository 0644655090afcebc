------------------------------ MODULE KeyQueue ------------------------------
(***************************************************************************)
(* What withKeyLock (rate-limiter/blocklist.js) promises its callers: for  *)
(* each key a queue of calls in arrival order, whose head is the only call *)
(* whose function is running.  KeyLock shows that the chain of promises    *)
(* implements this, and AdaptiveJail takes its turns from it.              *)
(***************************************************************************)
EXTENDS Naturals, Sequences

CONSTANTS Keys,   \* the locked keys: `${type}:${value}`
          Calls   \* the callers of withKeyLock

VARIABLE queue    \* queue[k]: the calls that entered and have not left

Waits(k, c) == \E i \in DOMAIN queue[k] : queue[k][i] = c

\* The call whose turn it is.
Holds(k, c) == queue[k] # <<>> /\ Head(queue[k]) = c

Init == queue = [k \in Keys |-> <<>>]

\* A caller waits in one queue at a time, once: it awaits its own turn.
Enqueue(k, c) ==
    /\ \A j \in Keys : ~Waits(j, c)
    /\ queue' = [queue EXCEPT ![k] = Append(@, c)]

Leave(k, c) ==
    /\ Holds(k, c)
    /\ queue' = [queue EXCEPT ![k] = Tail(@)]

Next == \E k \in Keys, c \in Calls : Enqueue(k, c) \/ Leave(k, c)

Spec == Init /\ [][Next]_queue
=============================================================================
