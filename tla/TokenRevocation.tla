-------------------------- MODULE TokenRevocation --------------------------
(***************************************************************************)
(* "Mode 2: Token Invalidation": auth/jwt.js and auth/routes.js, with the  *)
(* token guard of auth/token-guard.js, over the stores of Blocklist (a     *)
(* revoked jti is a key of type token).                                    *)
(*                                                                         *)
(* The clock of Blocklist ticks every half second here, since the claims   *)
(* of a token and the TTL of a block are in whole seconds and now is not.  *)
(* The Bloom filter is its set of bits; Hash gives the bits of a jti, so   *)
(* it has false positives.  The process may restart: what it keeps in      *)
(* memory is lost, what Redis keeps is not (redis/client.js:5-6).          *)
(***************************************************************************)
EXTENDS Blocklist

CONSTANTS
    Tokens,         \* jtis; each is issued once
    AccessTokens,   \* those of type access, the others refresh
    AccessSeconds,  \* ACCESS_TTL_SECONDS
    RefreshSeconds, \* REFRESH_TTL_SECONDS
    Clients,        \* calls in flight
    NoToken,
    Bits,           \* of the Bloom filter
    Hash,           \* the bits of a jti
    Horizon         \* bound: the half seconds that the clock runs

TokenKey(t) == <<"token", t>>

ASSUME TokenAssumption ==
    /\ Keys = {TokenKey(t) : t \in Tokens}
    /\ NoToken \notin Tokens
    /\ AccessTokens \subseteq Tokens
    /\ AccessSeconds \in Nat \ {0} /\ RefreshSeconds \in Nat \ {0}
    /\ Writers = Clients
    /\ Hash \in [Tokens -> SUBSET Bits]
    /\ Horizon \in Nat

\* A block of a token lasts at most as long as the token.
ASSUME LifetimeAssumption ==
    2 * AccessSeconds \in Durations /\ 2 * RefreshSeconds \in Durations

VARIABLES
    now,    \* half seconds
    exp,    \* exp[t]: the claim, in seconds; 0 is a token not issued yet
    bloom,  \* REVOCATION_BLOOM_FILTER
    pc,     \* what the call of c awaits, or its answer
    token,  \* the bearer token of c's call
    mark    \* when logout was called for t: never, in this life of the
            \* process, or in an earlier one that did, or did not, answer

call == <<pc, token>>
vars == <<now, exp, bloom, call, mark, store>>

Answers == {"accepted", "revoked", "invalid", "loggedOut"}
Marks == {"never", "called", "earlierUnanswered", "earlier"}

Init ==
    /\ StoreInit
    /\ now = 0
    /\ exp = [t \in Tokens |-> 0]
    /\ bloom = {}
    /\ pc = [c \in Clients |-> "idle"]
    /\ token = [c \in Clients |-> NoToken]
    /\ mark = [t \in Tokens |-> "never"]

Second == now \div 2
Lifetime(t) == IF t \in AccessTokens THEN AccessSeconds ELSE RefreshSeconds

\* jwt.sign: iat is the current second, cut off.
Issue(t) ==
    /\ exp[t] = 0
    /\ exp' = [exp EXCEPT ![t] = Second + Lifetime(t)]
    /\ UNCHANGED <<now, bloom, call, mark, store>>

\* jwt.verify: a token is good up to, and not in, the second of its exp.
Valid(t) == Second < exp[t]

\* The call of c, with token t, and what it comes to.
Call(c, t, p) ==
    /\ pc[c] = "idle" /\ exp[t] # 0
    /\ pc' = [pc EXCEPT ![c] = p]
    /\ token' = [token EXCEPT ![c] = t]

-----------------------------------------------------------------------------
(* token-guard and isTokenRevoked                                           *)

BloomHas(t) == Hash[t] \subseteq bloom

\* A miss in the Bloom filter admits the request there and then.
Guard(c, t) ==
    /\ \/ /\ ~Valid(t) \/ t \notin AccessTokens
          /\ Call(c, t, "invalid")
       \/ /\ Valid(t) /\ t \in AccessTokens /\ ~BloomHas(t)
          /\ Call(c, t, "accepted")
       \/ /\ Valid(t) /\ t \in AccessTokens /\ BloomHas(t)
          /\ Call(c, t, "exists")
    /\ UNCHANGED <<now, exp, bloom, mark, store>>

\* Mutant: a hit in the Bloom filter is enough.
GuardConfirmBloomOnly(c, o) ==
    /\ pc[c] = "exists"
    /\ pc' = [pc EXCEPT ![c] = "revoked"]
    /\ UNCHANGED <<now, exp, bloom, token, mark, store>>

\* A hit is confirmed by isBlocked.
GuardConfirm(c, o) ==
    /\ pc[c] = "exists"
    /\ pc' = [pc EXCEPT ![c] =
                  IF BlockedSeen(TokenKey(token[c]), o) THEN "revoked" ELSE "accepted"]
    /\ UNCHANGED <<now, exp, bloom, token, mark, store>>

-----------------------------------------------------------------------------
(* logout and revokeToken                                                   *)

\* Mutants: the rest of a second that has begun is not counted; milliseconds.
RemainingRoundedDown(t) ==
    IF exp[t] - ((now + 1) \div 2) > 1 THEN exp[t] - ((now + 1) \div 2) ELSE 1
RemainingMillis(t) == IF exp[t] - Second > 1 THEN 1000 * (exp[t] - Second) ELSE 1

\* Math.max(1, claims.exp - Math.floor(Date.now() / 1000))
Remaining(t) == IF exp[t] - Second > 1 THEN exp[t] - Second ELSE 1

\* Mutant: the filter is not told.
RevokeExactOnly(c, t) ==
    /\ UNCHANGED bloom
    /\ StartBlock(c, TokenKey(t), 2 * Remaining(t), "revoked")

\* revokeToken up to its await.
Revoke(c, t) ==
    /\ bloom' = bloom \cup Hash[t]
    /\ StartBlock(c, TokenKey(t), 2 * Remaining(t), "revoked")

\* Mutant: logout does not await revokeToken.
LogoutUnawaited(c, t) ==
    \/ /\ ~Valid(t)
       /\ Call(c, t, "invalid")
       /\ UNCHANGED <<now, exp, bloom, mark, store>>
    \/ /\ Valid(t)
       /\ Call(c, t, "loggedOut")
       /\ Revoke(c, t)
       /\ mark' = [mark EXCEPT ![t] = "called"]
       /\ UNCHANGED <<now, exp, memoryJail, memoryViolations>>
       /\ UNCHANGED <<redisStore, redisJail, redisViolations, regime>>

\* Logout takes access and refresh tokens alike.
Logout(c, t) ==
    \/ /\ ~Valid(t)
       /\ Call(c, t, "invalid")
       /\ UNCHANGED <<now, exp, bloom, mark, store>>
    \/ /\ Valid(t)
       /\ Call(c, t, "set")
       /\ Revoke(c, t)
       /\ mark' = [mark EXCEPT ![t] = "called"]
       /\ UNCHANGED <<now, exp, memoryJail, memoryViolations>>
       /\ UNCHANGED <<redisStore, redisJail, redisViolations, regime>>

LogoutDone(c, o) ==
    /\ pc[c] = "set"
    /\ EndBlock(c, o)
    /\ pc' = [pc EXCEPT ![c] = "loggedOut"]
    /\ UNCHANGED <<now, exp, bloom, token, mark, memory, redisJail, redisViolations, regime>>

\* The answer reaches the client.
Return(c) ==
    /\ pc[c] \in Answers
    /\ pc' = [pc EXCEPT ![c] = "idle"]
    /\ token' = [token EXCEPT ![c] = NoToken]
    /\ UNCHANGED <<now, exp, bloom, mark, store>>

-----------------------------------------------------------------------------

\* The logouts of t that had not been answered.
Pending(t) == \E c \in Clients : pc[c] = "set" /\ token[c] = t

\* The process stops, at any point, and is started again.
Restart ==
    /\ DrainWire
    /\ memoryStore' = [k \in Keys |-> Unblocked]
    /\ bloom' = {}
    /\ pc' = [c \in Clients |-> "idle"]
    /\ token' = [c \in Clients |-> NoToken]
    /\ mark' = [t \in Tokens |->
                    IF mark[t] # "called" THEN mark[t]
                    ELSE IF Pending(t) THEN "earlierUnanswered" ELSE "earlier"]
    /\ UNCHANGED <<now, exp, memoryJail, memoryViolations, redisJail, redisViolations, regime>>

Tick ==
    /\ now < Horizon
    /\ now' = now + 1
    /\ StoreTick
    /\ UNCHANGED <<exp, bloom, call, mark>>

-----------------------------------------------------------------------------

Next ==
    \/ \E t \in Tokens : Issue(t)
    \/ \E c \in Clients, t \in Tokens : Guard(c, t) \/ Logout(c, t)
    \/ \E c \in Clients, o \in regime : GuardConfirm(c, o) \/ LogoutDone(c, o)
    \/ \E c \in Clients : Return(c)
    \/ Restart
    \/ Tick

Spec == Init /\ [][Next]_vars

-----------------------------------------------------------------------------
(* Properties                                                               *)

TypeOK ==
    /\ StoreTypeOK
    /\ now \in 0..Horizon
    /\ exp \in [Tokens -> 0..(Horizon + AccessSeconds + RefreshSeconds)]
    /\ bloom \subseteq Bits
    /\ pc \in [Clients -> {"idle", "exists", "set"} \cup Answers]
    /\ token \in [Clients -> Tokens \cup {NoToken}]
    /\ mark \in [Tokens -> Marks]
    /\ \A c \in Clients : pc[c] # "idle" => token[c] # NoToken

\* What is left of the life of a token, in half seconds.
Left(t) == 2 * exp[t] - now

\* jwt.js:26-29: a revoked token does not outlive its revocation.  From the
\* moment logout is called the mirror, and the filter in front of it, last as
\* long as the token does, to the half second.
RevocationOutlivesToken ==
    \A t \in Tokens : mark[t] = "called" =>
        /\ Left(t) > 0 => memoryStore[TokenKey(t)].left >= Left(t)
        /\ BloomHas(t)

Accepted(c) == pc[c] # "accepted" /\ pc'[c] = "accepted"

\* jwt.js:39-47, "zero false negatives": in the process that was asked to
\* revoke a token no request with it is admitted any more, not even one
\* whose check was under way, whatever Redis does; but for a check that was
\* begun while the token was good and ends when it has expired.
RevokedRefused ==
    [][\A c \in Clients :
          Accepted(c) /\ Left(token'[c]) > 0 => mark[token'[c]] # "called"]_vars

\* jwt.js:45-47, 53-56: a false positive of the filter costs a lookup and
\* never a session.
OnlyRevokedRefused ==
    \A c \in Clients : pc[c] = "revoked" => mark[token[c]] # "never"

\* A logout that was answered while Redis is up is in Redis, for as long as
\* the token is good, across restarts (redis/client.js:5-6).
RevocationIsBacked ==
    \A t \in Tokens :
        /\ regime = {"ok"} /\ Left(t) > 0
        /\ mark[t] = "earlier" \/ (mark[t] = "called" /\ ~Pending(t))
        => redisStore[TokenKey(t)] >= Left(t)

\* jwt.js:45-47: the filter "can never let a genuinely revoked token slip
\* through", here with Redis up throughout.
RevokedStaysRefused ==
    [][\A c \in Clients :
          Accepted(c) /\ regime = {"ok"} => mark[token'[c]] # "earlier"]_vars
=============================================================================
