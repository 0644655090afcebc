----------------------------- MODULE Quarantine -----------------------------
(***************************************************************************)
(* What the adaptive jail promises (blocklist.js:106-116, rate-limiter/    *)
(* index.js:32-37): a key is free, quarantined in the jail, or hard-       *)
(* blocked.  A key is blocked out of the jail only, each block uses up the *)
(* quarantine it came from, and both lapse.                                *)
(***************************************************************************)
CONSTANT Keys

VARIABLE tier

Init == tier = [k \in Keys |-> "free"]

Move(k, from, to) == tier[k] = from /\ tier' = [tier EXCEPT ![k] = to]

\* The first breach of the login-failure threshold.
Jail(k) == Move(k, "free", "jailed")

\* A second breach while jailed, or the jail's own limit exceeded.
Escalate(k) == Move(k, "jailed", "blocked")

\* Time passes.  Keys may lapse together.
Lapse ==
    \E gone \in SUBSET Keys :
        tier' = [k \in Keys |-> IF k \in gone THEN "free" ELSE tier[k]]

Next == Lapse \/ \E k \in Keys : Jail(k) \/ Escalate(k)

Spec == Init /\ [][Next]_tier
=============================================================================
