----------------------- MODULE TokenRevocationProofs -----------------------
(***************************************************************************)
(* A revoked token is refused for as long as it lives, and no other token  *)
(* is: for any tokens, clients and durations, any Bloom filter, any number *)
(* of restarts and whatever Redis does.                                    *)
(***************************************************************************)
EXTENDS TokenRevocation, BlocklistProofs

\* A claim lies within the token's lifetime from now, and only a token that
\* was issued is revoked.
Issued ==
    \A t \in Tokens :
        /\ exp[t] # 0 => exp[t] <= Second + Lifetime(t)
        /\ mark[t] # "never" => exp[t] # 0

\* Every SET on the connection is that of a logout that awaits it, and lasts
\* as long as the token.
SetsAwaited ==
    /\ \A i \in DOMAIN wire :
           /\ wire[i].by \in Clients
           /\ pc[wire[i].by] = "set"
           /\ wire[i].key = TokenKey(token[wire[i].by])
           /\ mark[token[wire[i].by]] = "called"
           /\ wire[i].ttl >= Left(token[wire[i].by])
    /\ \A i, j \in DOMAIN wire : wire[i].by = wire[j].by => i = j

\* No store has a token that nobody has revoked.
UnmarkedUnlisted ==
    \A t \in Tokens : mark[t] = "never" =>
        memoryStore[TokenKey(t)].left = 0 /\ redisStore[TokenKey(t)] = 0

Inv ==
    /\ TypeOK
    /\ Issued
    /\ RevocationOutlivesToken
    /\ SetsAwaited
    /\ UnmarkedUnlisted
    /\ OnlyRevokedRefused
    /\ RevocationIsBacked

-----------------------------------------------------------------------------
(* Keys, seconds and lifetimes                                              *)

\* Each token has a key of its own (blocklist.js:36: `${type}:${value}`).
LEMMA TokenKeys ==
  /\ \A t \in Tokens : TokenKey(t) \in Keys
  /\ \A t, u \in Tokens : TokenKey(t) = TokenKey(u) => t = u
  /\ \A k \in Keys : \E t \in Tokens : k = TokenKey(t)
<1>1. \A t, u : TokenKey(t) = TokenKey(u) => t = u
  BY DEF TokenKey
<1> QED  BY <1>1, TokenAssumption

\* A second is two ticks, the last of them cut off (Math.floor, jwt.js:29).
LEMMA Seconds ==
  ASSUME NEW n \in Nat
  PROVE  /\ n \div 2 \in Nat
         /\ 2 * (n \div 2) <= n /\ n < 2 * (n \div 2) + 2
         /\ n \div 2 <= n
         /\ n \div 2 <= (n + 1) \div 2
  OBVIOUS

\* The lifetime of a token, doubled, is a duration of the blocklist
\* (jwt.js:13-14).
LEMMA Lifetimes ==
  ASSUME NEW t \in Tokens
  PROVE  /\ Lifetime(t) \in Nat \ {0}
         /\ Lifetime(t) <= AccessSeconds + RefreshSeconds
         /\ \A n \in Nat : n <= Lifetime(t) => 2 * n \in Durations
<1>1. /\ AccessSeconds \in Nat \ {0} /\ RefreshSeconds \in Nat \ {0}
      /\ MaxBlock \in Nat /\ ManualBlock \in Nat
  BY TokenAssumption, DurationAssumption
<1>2. 2 * AccessSeconds \in Durations /\ 2 * RefreshSeconds \in Durations
  BY LifetimeAssumption
<1> QED  BY <1>1, <1>2 DEF Lifetime, Durations

\* The numbers of the state.
LEMMA NumberTypes ==
  ASSUME TypeOK
  PROVE  /\ now \in Nat /\ Second \in Nat
         /\ \A t \in Tokens : exp[t] \in Nat /\ Left(t) \in Int
         /\ \A k \in Keys : memoryStore[k].left \in Nat /\ redisStore[k] \in Nat
         /\ \A i \in DOMAIN wire : wire[i].ttl \in Nat
         /\ \A c \in Clients : pc[c] # "idle" => token[c] \in Tokens
<1>1. Horizon \in Nat /\ AccessSeconds \in Nat /\ RefreshSeconds \in Nat
  BY TokenAssumption
<1>2. Durations \subseteq Nat
  BY DurationAssumption DEF Durations
<1>3. now \in Nat /\ \A t \in Tokens : exp[t] \in Nat
  BY <1>1 DEF TypeOK
<1>4. Second \in Nat /\ \A t \in Tokens : Left(t) \in Int
  BY <1>3, Seconds DEF Second, Left
<1>5. \A k \in Keys : memoryStore[k].left \in Nat /\ redisStore[k] \in Nat
  BY <1>2 DEF TypeOK, StoreTypeOK
<1>6. \A i \in DOMAIN wire : wire[i] \in [by : Writers, key : Keys, ttl : Durations]
  BY ElementOfSeq, LenProperties DEF TypeOK, StoreTypeOK
<1>7. \A i \in DOMAIN wire : wire[i].ttl \in Nat
  BY <1>2, <1>6
<1> QED  BY <1>3, <1>4, <1>5, <1>7 DEF TypeOK

\* A token that is valid has more than nothing left, and the TTL of its
\* revocation lasts as long (jwt.js:28-29).
LEMMA RemainingLasts ==
  ASSUME TypeOK, Issued, NEW t \in Tokens, exp[t] # 0, Valid(t)
  PROVE  /\ 2 * Remaining(t) \in Durations
         /\ 2 * Remaining(t) >= Left(t)
         /\ Left(t) > 0
<1>1. /\ now \in Nat /\ Second \in Nat /\ exp[t] \in Nat
      /\ 2 * Second <= now /\ now < 2 * Second + 2
  BY NumberTypes, Seconds DEF Second
<1>2. Remaining(t) = exp[t] - Second /\ Remaining(t) \in Nat
  BY <1>1 DEF Remaining, Valid
<1>3. Remaining(t) <= Lifetime(t)
  BY <1>1, <1>2, Lifetimes DEF Issued
<1>4. 2 * Remaining(t) \in Durations
  BY <1>2, <1>3, Lifetimes
<1> QED  BY <1>1, <1>2, <1>4 DEF Left, Valid

-----------------------------------------------------------------------------
(* Every step keeps the invariant                                           *)

\* Nothing is revoked at first.
LEMMA InitInv == Init => Inv
<1> SUFFICES ASSUME Init PROVE Inv
  OBVIOUS
<1>1. StoreTypeOK
  BY StoreInitType DEF Init
<1>2. Horizon \in Nat /\ AccessSeconds \in Nat /\ RefreshSeconds \in Nat
  BY TokenAssumption
<1>3. TypeOK
  BY <1>1, <1>2 DEF Init, TypeOK, Marks
<1>4. wire = <<>> /\ \A k \in Keys : memoryStore[k].left = 0 /\ redisStore[k] = 0
  BY DEF Init, StoreInit, Unblocked
<1>5. SetsAwaited
  BY <1>4 DEF SetsAwaited
<1>6. UnmarkedUnlisted
  BY <1>4, TokenKeys DEF UnmarkedUnlisted
<1>7. /\ \A t \in Tokens : mark[t] = "never" /\ exp[t] = 0
      /\ \A c \in Clients : pc[c] = "idle"
  BY DEF Init
<1>8. Issued /\ RevocationOutlivesToken /\ OnlyRevokedRefused /\ RevocationIsBacked
  BY <1>7 DEF Issued, RevocationOutlivesToken, OnlyRevokedRefused, RevocationIsBacked
<1> QED  BY <1>3, <1>5, <1>6, <1>8 DEF Inv

\* A token is issued once: nothing was known of it (jwt.js:5-9).
LEMMA IssueInv ==
  ASSUME Inv, NEW t \in Tokens, Issue(t)
  PROVE  Inv'
<1>1. /\ exp[t] = 0 /\ mark[t] = "never"
      /\ exp' = [exp EXCEPT ![t] = Second + Lifetime(t)]
      /\ now' = now /\ bloom' = bloom /\ pc' = pc /\ token' = token /\ mark' = mark
      /\ UNCHANGED store
  BY DEF Issue, call, Inv, Issued
<1>2. UNCHANGED <<memoryStore, redisStore, wire, regime>>
  BY <1>1 DEF store, memory, redis
<1>3. now \in 0..Horizon /\ now \in Nat /\ Second \in 0..now
      /\ Horizon \in Nat /\ AccessSeconds \in Nat /\ RefreshSeconds \in Nat
  BY TokenAssumption, NumberTypes, Seconds DEF Inv, TypeOK, Second
<1>4. exp' \in [Tokens -> 0..(Horizon + AccessSeconds + RefreshSeconds)]
      /\ \A u \in Tokens : u # t => exp'[u] = exp[u]
      /\ exp'[t] = Second + Lifetime(t)
  BY <1>1, <1>3, Lifetimes DEF Inv, TypeOK
<1>5. StoreTypeOK'
  BY <1>1 DEF Inv, TypeOK, StoreTypeOK, store, memory, redis
<1>6. TypeOK'
  BY <1>1, <1>4, <1>5 DEF Inv, TypeOK
<1>7. Second' = Second
  BY <1>1 DEF Second
<1>8. Issued'
  BY <1>1, <1>3, <1>4, <1>7, Lifetimes DEF Inv, Issued, Lifetime
<1>9. \A u \in Tokens : mark[u] # "never" => Left(u)' = Left(u)
  BY <1>1, <1>4 DEF Left
<1>10. \A u \in Tokens : BloomHas(u)' = BloomHas(u) /\ Pending(u)' = Pending(u)
  BY <1>1 DEF BloomHas, Pending
<1>11. RevocationOutlivesToken'
  BY <1>1, <1>2, <1>9, <1>10 DEF Inv, RevocationOutlivesToken
<1>12. SetsAwaited'
  <2>1. \A i \in DOMAIN wire : token[wire[i].by] \in Tokens
    BY NumberTypes DEF Inv, SetsAwaited
  <2> QED  BY <1>1, <1>2, <1>9, <2>1 DEF Inv, SetsAwaited
<1>13. UnmarkedUnlisted' /\ OnlyRevokedRefused'
  BY <1>1, <1>2 DEF Inv, UnmarkedUnlisted, OnlyRevokedRefused
<1>14. RevocationIsBacked'
  BY <1>1, <1>2, <1>9, <1>10 DEF Inv, RevocationIsBacked
<1> QED  BY <1>6, <1>8, <1>11, <1>12, <1>13, <1>14 DEF Inv

\* A step of a call that is no logout, and leaves the stores and the filter.
LEMMA QuietInv ==
  ASSUME Inv, NEW c \in Clients, NEW p \in {"idle", "exists"} \cup Answers,
         NEW t \in Tokens \cup {NoToken}, pc[c] # "set",
         pc' = [pc EXCEPT ![c] = p], token' = [token EXCEPT ![c] = t],
         p # "idle" => t # NoToken,
         p = "revoked" => mark[t] # "never",
         UNCHANGED <<now, exp, bloom, mark, store>>
  PROVE  Inv'
<1>1. UNCHANGED <<now, exp, bloom, mark, memoryStore, redisStore, wire, regime>>
  BY DEF store, memory, redis
<1>2. p # "set"
  BY DEF Answers
<1>3. /\ pc'[c] = p /\ token'[c] = t
      /\ \A d \in Clients : d # c => pc'[d] = pc[d] /\ token'[d] = token[d]
  BY DEF Inv, TypeOK
<1>4. StoreTypeOK'
  BY DEF Inv, TypeOK, StoreTypeOK, store, memory, redis
<1>5. TypeOK'
  BY <1>1, <1>3, <1>4 DEF Inv, TypeOK
<1>6. \A u \in Tokens : Left(u)' = Left(u) /\ BloomHas(u)' = BloomHas(u)
  BY <1>1 DEF Left, BloomHas
<1>7. \A u \in Tokens : Pending(u)' <=> Pending(u)
  BY <1>2, <1>3 DEF Pending
<1>8. Issued'
  BY <1>1 DEF Inv, Issued, Second
<1>9. RevocationOutlivesToken'
  BY <1>1, <1>6 DEF Inv, RevocationOutlivesToken
<1>10. SetsAwaited'
  <2>1. \A i \in DOMAIN wire : wire[i].by # c /\ token[wire[i].by] \in Tokens
    BY NumberTypes DEF Inv, SetsAwaited
  <2> QED  BY <1>1, <1>3, <1>6, <2>1 DEF Inv, SetsAwaited
<1>11. UnmarkedUnlisted'
  BY <1>1 DEF Inv, UnmarkedUnlisted
<1>12. OnlyRevokedRefused'
  BY <1>1, <1>3 DEF Inv, OnlyRevokedRefused
<1>13. RevocationIsBacked'
  BY <1>1, <1>6, <1>7 DEF Inv, RevocationIsBacked
<1> QED  BY <1>5, <1>8, <1>9, <1>10, <1>11, <1>12, <1>13 DEF Inv

\* The first half of the guard's check (token-guard.js, jwt.js:53-54).
LEMMA GuardInv ==
  ASSUME Inv, NEW c \in Clients, NEW t \in Tokens, Guard(c, t)
  PROVE  Inv'
<1>1. PICK p \in {"invalid", "accepted", "exists"} : Call(c, t, p)
  BY DEF Guard
<1>2. UNCHANGED <<now, exp, bloom, mark, store>> /\ pc[c] = "idle"
  BY <1>1 DEF Guard, Call
<1>3. p \in {"idle", "exists"} \cup Answers /\ p # "revoked" /\ t # NoToken
  BY <1>1, TokenAssumption DEF Answers
<1> QED  BY <1>1, <1>2, <1>3, QuietInv DEF Call

\* The second half (jwt.js:55-56): who is refused is in a store, and only a
\* revoked token is.
LEMMA GuardConfirmInv ==
  ASSUME Inv, NEW c \in Clients, NEW o, GuardConfirm(c, o)
  PROVE  Inv'
<1> DEFINE p == IF BlockedSeen(TokenKey(token[c]), o) THEN "revoked" ELSE "accepted"
<1>1. /\ pc[c] = "exists" /\ pc' = [pc EXCEPT ![c] = p] /\ token' = token
      /\ UNCHANGED <<now, exp, bloom, mark, store>>
  BY DEF GuardConfirm
<1>2. token[c] \in Tokens /\ token[c] # NoToken
  BY <1>1, NumberTypes, TokenAssumption DEF Inv
<1>3. token' = [token EXCEPT ![c] = token[c]]
  BY <1>1 DEF Inv, TypeOK
<1>4. p = "revoked" => mark[token[c]] # "never"
  <2> SUFFICES ASSUME BlockedSeen(TokenKey(token[c]), o) PROVE mark[token[c]] # "never"
    OBVIOUS
  <2> QED  BY <1>2, NumberTypes DEF Inv, UnmarkedUnlisted, BlockedSeen
<1>5. p \in {"idle", "exists"} \cup Answers
  BY DEF Answers
<1> HIDE DEF p
<1> QED  BY <1>1, <1>2, <1>3, <1>4, <1>5, QuietInv

\* The answer reaches the client.
LEMMA ReturnInv ==
  ASSUME Inv, NEW c \in Clients, Return(c)
  PROVE  Inv'
<1>1. pc[c] # "set"
  BY DEF Return, Answers
<1> QED  BY <1>1, QuietInv DEF Return

\* A logout tells the filter and the mirror before its await, and its SET is
\* the last on the connection (jwt.js:26-36).
LEMMA LogoutInv ==
  ASSUME Inv, NEW c \in Clients, NEW t \in Tokens, Logout(c, t)
  PROVE  Inv'
<1> DEFINE ttl == 2 * Remaining(t)
           mine == [by |-> c, key |-> TokenKey(t), ttl |-> ttl]
           Command == [by : Writers, key : Keys, ttl : Durations]
<1>1. CASE ~Valid(t) /\ Call(c, t, "invalid") /\ UNCHANGED <<now, exp, bloom, mark, store>>
  <2>1. "invalid" \in {"idle", "exists"} \cup Answers /\ t # NoToken
    BY TokenAssumption DEF Answers
  <2> QED  BY <1>1, <2>1, QuietInv DEF Call
<1>2. CASE Valid(t) /\ Call(c, t, "set") /\ Revoke(c, t)
  <2>1. /\ pc[c] = "idle" /\ exp[t] # 0 /\ Valid(t)
        /\ pc' = [pc EXCEPT ![c] = "set"] /\ token' = [token EXCEPT ![c] = t]
        /\ bloom' = bloom \cup Hash[t] /\ mark' = [mark EXCEPT ![t] = "called"]
        /\ memoryStore' = [memoryStore EXCEPT ![TokenKey(t)] = [left |-> ttl, reason |-> "revoked"]]
        /\ wire' = Append(wire, mine)
        /\ StartBlock(c, TokenKey(t), ttl, "revoked")
    <3>1. ~(~Valid(t) /\ Call(c, t, "invalid"))  BY <1>2
    <3> QED  BY <1>2, <3>1 DEF Logout, Call, Revoke, StartBlock
  <2>2. UNCHANGED <<now, exp, memoryJail, memoryViolations, redisStore, redisJail,
                    redisViolations, regime>>
    BY <1>2 DEF Logout
  <2>3. TypeOK /\ Issued /\ StoreTypeOK
    BY DEF Inv, TypeOK
  <2>4. ttl \in Durations /\ ttl >= Left(t) /\ Left(t) > 0
    BY <2>1, <2>3, RemainingLasts
  <2>5. mine \in Command /\ mine.by = c /\ mine.key = TokenKey(t) /\ mine.ttl = ttl
    BY <2>4, TokenKeys, TokenAssumption
  <2> HIDE DEF ttl, mine
  <2>6. /\ pc'[c] = "set" /\ token'[c] = t /\ mark'[t] = "called"
        /\ \A d \in Clients : d # c => pc'[d] = pc[d] /\ token'[d] = token[d]
        /\ \A u \in Tokens : u # t => mark'[u] = mark[u]
    BY <2>1, <2>3 DEF TypeOK
  <2>7. /\ memoryStore'[TokenKey(t)].left = ttl
        /\ \A u \in Tokens : u # t => memoryStore'[TokenKey(u)] = memoryStore[TokenKey(u)]
    BY <2>1, <2>3, TokenKeys DEF StoreTypeOK
  <2>8. StoreTypeOK'
    <3>1. c \in Writers /\ TokenKey(t) \in Keys /\ "revoked" \in Reasons
      BY TokenKeys, TokenAssumption DEF Reasons
    <3>2. /\ memoryStore' \in [Keys -> [left : Durations, reason : Reasons]]
          /\ wire' \in Seq([by : Writers, key : Keys, ttl : Durations])
      BY <2>1, <2>3, <2>4, <3>1, StartBlockType
    <3> QED  BY <2>2, <2>3, <3>2 DEF StoreTypeOK
  <2>9. TypeOK'
    <3>1. Hash[t] \subseteq Bits /\ t # NoToken
      BY TokenAssumption
    <3>2. "called" \in Marks
      BY DEF Marks
    <3> QED  BY <2>1, <2>2, <2>3, <2>6, <2>8, <3>1, <3>2 DEF TypeOK
  <2>10. Issued'
    BY <2>1, <2>2, <2>3, <2>6 DEF Issued, Second
  <2>11. \A u \in Tokens : Left(u)' = Left(u)
    BY <2>2 DEF Left
  <2>12. BloomHas(t)' /\ \A u \in Tokens : BloomHas(u) => BloomHas(u)'
    BY <2>1 DEF BloomHas
  <2>13. RevocationOutlivesToken'
    BY <2>4, <2>6, <2>7, <2>11, <2>12 DEF Inv, RevocationOutlivesToken
  <2>14. /\ DOMAIN wire' = 1..(Len(wire) + 1) /\ DOMAIN wire = 1..Len(wire) /\ Len(wire) \in Nat
         /\ wire'[Len(wire) + 1] = mine
         /\ \A i \in 1..Len(wire) : wire'[i] = wire[i]
    <3>1. wire \in Seq(Command)
      BY <2>3 DEF StoreTypeOK
    <3> HIDE DEF Command
    <3> QED  BY <2>1, <3>1
  <2>15. \A i \in 1..Len(wire) :
            wire[i].by # c /\ token[wire[i].by] \in Tokens
    BY <2>1, <2>14, NumberTypes DEF Inv, SetsAwaited
  <2>16. SetsAwaited'
    <3>1. ASSUME NEW i \in DOMAIN wire'
          PROVE  /\ wire'[i].by \in Clients
                 /\ pc'[wire'[i].by] = "set"
                 /\ wire'[i].key = TokenKey(token'[wire'[i].by])
                 /\ mark'[token'[wire'[i].by]] = "called"
                 /\ wire'[i].ttl >= 2 * exp'[token'[wire'[i].by]] - now'
      <4>1. CASE i \in 1..Len(wire)
        <5>1. wire'[i] = wire[i] /\ wire[i].by # c /\ token[wire[i].by] \in Tokens
          BY <2>14, <2>15, <4>1
        <5>2. /\ wire[i].by \in Clients /\ pc[wire[i].by] = "set"
              /\ wire[i].key = TokenKey(token[wire[i].by])
              /\ mark[token[wire[i].by]] = "called"
              /\ wire[i].ttl >= Left(token[wire[i].by])
          BY <2>14, <4>1 DEF Inv, SetsAwaited
        <5>3. token'[wire[i].by] = token[wire[i].by] /\ pc'[wire[i].by] = "set"
          BY <2>6, <5>1, <5>2
        <5>4. mark'[token[wire[i].by]] = "called"
          BY <2>6, <5>1, <5>2
        <5> QED  BY <2>2, <5>1, <5>2, <5>3, <5>4 DEF Left
      <4>2. CASE i = Len(wire) + 1
        <5>1. wire'[i] = mine
          BY <2>14, <4>2
        <5> QED  BY <2>2, <2>4, <2>5, <2>6, <5>1, TokenAssumption DEF Left
      <4> QED  BY <2>14, <4>1, <4>2
    <3>2. ASSUME NEW i \in DOMAIN wire', NEW j \in DOMAIN wire', wire'[i].by = wire'[j].by
          PROVE  i = j
      BY <2>5, <2>14, <2>15, <3>2 DEF Inv, SetsAwaited
    <3> QED  BY <3>1, <3>2 DEF SetsAwaited, Left
  <2>17. UnmarkedUnlisted'
    BY <2>2, <2>6, <2>7 DEF Inv, UnmarkedUnlisted
  <2>18. OnlyRevokedRefused'
    <3>1. \A d \in Clients : pc'[d] = "revoked" =>
             d # c /\ pc[d] = "revoked" /\ token[d] \in Tokens /\ mark[token[d]] # "never"
      BY <2>3, <2>6, NumberTypes DEF Inv, OnlyRevokedRefused
    <3> QED  BY <2>6, <3>1 DEF OnlyRevokedRefused
  <2>19. Pending(t)' /\ \A u \in Tokens : Pending(u) => Pending(u)'
    BY <2>1, <2>6 DEF Pending
  <2>20. RevocationIsBacked'
    BY <2>2, <2>6, <2>11, <2>19 DEF Inv, RevocationIsBacked
  <2> QED  BY <2>9, <2>10, <2>13, <2>16, <2>17, <2>18, <2>20 DEF Inv
<1> QED  BY <1>1, <1>2 DEF Logout

\* A logout returns: what it sent is in Redis if Redis took it, and lasts as
\* long as the token (blocklist.js:51-55).
LEMMA LogoutDoneInv ==
  ASSUME Inv, NEW c \in Clients, NEW o, o \in regime, LogoutDone(c, o)
  PROVE  Inv'
<1>1. /\ pc[c] = "set" /\ EndBlock(c, o) /\ pc' = [pc EXCEPT ![c] = "loggedOut"]
      /\ UNCHANGED <<now, exp, bloom, token, mark, memoryStore, memoryJail, memoryViolations,
                     redisJail, redisViolations, regime>>
  BY DEF LogoutDone, memory
<1>2. TypeOK /\ StoreTypeOK
  BY DEF Inv, TypeOK
<1>3. PICK i \in DOMAIN wire :
        /\ wire[i].by = c
        /\ redisStore' = IF Applied(o) THEN [redisStore EXCEPT ![wire[i].key] = wire[i].ttl]
                         ELSE redisStore
        /\ \A j \in DOMAIN wire' :
              /\ j \in Nat
              /\ j < i => j \in DOMAIN wire /\ wire'[j] = wire[j]
              /\ j >= i => j + 1 \in DOMAIN wire /\ wire'[j] = wire[j + 1]
  BY <1>1, <1>2, EndBlockTakes
<1> DEFINE t == token[c]
<1>4. /\ t \in Tokens /\ mark[t] = "called"
      /\ wire[i].key = TokenKey(t) /\ wire[i].ttl >= Left(t)
  BY <1>1, <1>2, <1>3, NumberTypes DEF Inv, SetsAwaited
<1>5. i \in Nat
  BY <1>2, LenProperties DEF StoreTypeOK
<1>6. /\ pc'[c] = "loggedOut"
      /\ \A d \in Clients : d # c => pc'[d] = pc[d]
  BY <1>1, <1>2 DEF TypeOK
<1>7. StoreTypeOK'
  BY <1>1, <1>2, EndBlockType DEF StoreTypeOK
<1>8. TypeOK'
  BY <1>1, <1>2, <1>6, <1>7 DEF TypeOK, Answers
<1>9. Issued' /\ RevocationOutlivesToken'
  BY <1>1 DEF Inv, Issued, RevocationOutlivesToken, Second, Left, BloomHas
<1>10. SetsAwaited'
  <2>1. ASSUME NEW j \in DOMAIN wire'
        PROVE  \E m \in DOMAIN wire : wire'[j] = wire[m] /\ m # i
    BY <1>3, <1>5
  <2>2. \A m \in DOMAIN wire : m # i => wire[m].by # c
    BY <1>3 DEF Inv, SetsAwaited
  <2>3. ASSUME NEW j \in DOMAIN wire'
        PROVE  /\ wire'[j].by \in Clients
               /\ pc'[wire'[j].by] = "set"
               /\ wire'[j].key = TokenKey(token'[wire'[j].by])
               /\ mark'[token'[wire'[j].by]] = "called"
               /\ wire'[j].ttl >= 2 * exp'[token'[wire'[j].by]] - now'
    <3>1. PICK m \in DOMAIN wire : wire'[j] = wire[m] /\ m # i
      BY <2>1
    <3>2. wire[m].by # c
      BY <2>2, <3>1
    <3> QED  BY <1>1, <1>6, <3>1, <3>2 DEF Inv, SetsAwaited, Left
  <2>4. ASSUME NEW j \in DOMAIN wire', NEW l \in DOMAIN wire', wire'[j].by = wire'[l].by
        PROVE  j = l
    BY <1>3, <1>5, <2>4 DEF Inv, SetsAwaited
  <2> QED  BY <2>3, <2>4 DEF SetsAwaited, Left
<1>11. \A u \in Tokens : u # t => redisStore'[TokenKey(u)] = redisStore[TokenKey(u)]
  BY <1>2, <1>3, <1>4, TokenKeys DEF StoreTypeOK
<1>12. UnmarkedUnlisted'
  BY <1>1, <1>4, <1>11 DEF Inv, UnmarkedUnlisted
<1>13. OnlyRevokedRefused'
  BY <1>1, <1>6 DEF Inv, OnlyRevokedRefused
<1>14. RevocationIsBacked'
  <2> SUFFICES ASSUME NEW u \in Tokens, regime = {"ok"}, Left(u) > 0,
                      mark[u] = "earlier" \/ (mark[u] = "called" /\ ~Pending(u)')
               PROVE  redisStore'[TokenKey(u)] >= Left(u)
    BY <1>1 DEF RevocationIsBacked, Left
  <2>1. CASE u = t
    <3>1. Applied(o)
      BY DEF Applied
    <3>2. redisStore'[TokenKey(t)] = wire[i].ttl
      BY <1>2, <1>3, <1>4, <3>1, TokenKeys DEF StoreTypeOK
    <3> QED  BY <1>4, <2>1, <3>2
  <2>2. CASE u # t
    <3>1. Pending(u) => Pending(u)'
      BY <1>1, <1>6, <2>2 DEF Pending
    <3> QED  BY <1>11, <2>2, <3>1 DEF Inv, RevocationIsBacked
  <2> QED  BY <2>1, <2>2
<1> QED  BY <1>8, <1>9, <1>10, <1>12, <1>13, <1>14 DEF Inv

\* The process starts again: the filter and the mirror are empty, no logout of
\* this life has been called, and Redis has what it had, with some of the SETs
\* that were on their way (redis/client.js:5-6).
LEMMA RestartInv ==
  ASSUME Inv, Restart
  PROVE  Inv'
<1>1. /\ DrainWire /\ wire' = <<>>
      /\ memoryStore' = [k \in Keys |-> Unblocked]
      /\ bloom' = {}
      /\ pc' = [c \in Clients |-> "idle"]
      /\ token' = [c \in Clients |-> NoToken]
      /\ mark' = [t \in Tokens |->
                     IF mark[t] # "called" THEN mark[t]
                     ELSE IF Pending(t) THEN "earlierUnanswered" ELSE "earlier"]
      /\ UNCHANGED <<now, exp, memoryJail, memoryViolations, redisJail, redisViolations, regime>>
  BY DEF Restart, DrainWire
<1>2. TypeOK /\ StoreTypeOK
  BY DEF Inv, TypeOK
<1>3. Unblocked \in [left : Durations, reason : Reasons] /\ Unblocked.left = 0
  BY DurationAssumption DEF Unblocked, Durations, Reasons
<1>4. StoreTypeOK'
  BY <1>1, <1>2, <1>3, DrainType DEF StoreTypeOK
<1>5. mark' \in [Tokens -> Marks]
  BY <1>1, <1>2 DEF TypeOK, Marks
<1>6. TypeOK'
  BY <1>1, <1>2, <1>4, <1>5 DEF TypeOK
<1>7. /\ \A t \in Tokens : mark'[t] # "called" /\ (mark'[t] = "never" <=> mark[t] = "never")
      /\ \A t \in Tokens : mark'[t] = "earlier" =>
            mark[t] = "earlier" \/ (mark[t] = "called" /\ ~Pending(t))
  BY <1>1, <1>2 DEF TypeOK
<1>8. Issued'
  BY <1>1, <1>7 DEF Inv, Issued, Second
<1>9. RevocationOutlivesToken' /\ OnlyRevokedRefused'
  BY <1>1, <1>7 DEF RevocationOutlivesToken, OnlyRevokedRefused
<1>10. SetsAwaited'
  BY <1>1 DEF SetsAwaited
\* A SET on its way was that of a revoked token, for as long as that lives.
<1>11. ASSUME NEW t \in Tokens
       PROVE  \/ redisStore'[TokenKey(t)] = redisStore[TokenKey(t)]
              \/ mark[t] = "called" /\ redisStore'[TokenKey(t)] >= Left(t)
  <2>1. TokenKey(t) \in Keys
    BY TokenKeys
  <2>2. CASE \E i \in DOMAIN wire :
                wire[i].key = TokenKey(t) /\ redisStore'[TokenKey(t)] = wire[i].ttl
    <3>1. PICK i \in DOMAIN wire :
             wire[i].key = TokenKey(t) /\ redisStore'[TokenKey(t)] = wire[i].ttl
      BY <2>2
    <3>2. token[wire[i].by] = t
      BY <1>2, <3>1, TokenKeys, NumberTypes DEF Inv, SetsAwaited
    <3> QED  BY <3>1, <3>2 DEF Inv, SetsAwaited
  <2> QED  BY <1>1, <1>2, <2>1, <2>2, DrainedFromWire
<1>12. UnmarkedUnlisted'
  BY <1>1, <1>3, <1>7, <1>11, TokenKeys DEF Inv, UnmarkedUnlisted
<1>13. RevocationIsBacked'
  <2> SUFFICES ASSUME NEW t \in Tokens, regime = {"ok"}, Left(t) > 0, mark'[t] = "earlier"
               PROVE  redisStore'[TokenKey(t)] >= Left(t)
    BY <1>1, <1>7 DEF RevocationIsBacked, Left
  <2> QED  BY <1>7, <1>11 DEF Inv, RevocationIsBacked
<1> QED  BY <1>6, <1>8, <1>9, <1>10, <1>12, <1>13 DEF Inv

\* Half a second passes, for the token and for its revocation alike.
LEMMA TickInv ==
  ASSUME Inv, Tick
  PROVE  Inv'
<1>1. /\ now < Horizon /\ now' = now + 1
      /\ UNCHANGED <<exp, bloom, pc, token, mark, wire, regime>>
      /\ StoreTick
      /\ memoryStore' = [k \in Keys |-> AgeBlock(memoryStore[k])]
      /\ redisStore' = [k \in Keys |-> Less(redisStore[k])]
  BY DEF Tick, StoreTick, call
<1>2. TypeOK /\ StoreTypeOK
  BY DEF Inv, TypeOK
<1>3. now \in Nat /\ Horizon \in Nat
  BY <1>2, NumberTypes, TokenAssumption
<1>4. StoreTypeOK'
  BY <1>1, <1>2, StoreTickType
<1>5. TypeOK'
  BY <1>1, <1>2, <1>3, <1>4 DEF TypeOK
<1>6. /\ Second \in Nat /\ Second' \in Nat /\ Second <= Second'
  BY <1>1, <1>3, Seconds DEF Second
<1>7. Issued'
  <2>1. \A t \in Tokens : Lifetime(t) \in Nat /\ exp[t] \in Nat
    BY <1>2, Lifetimes, NumberTypes
  <2> QED  BY <1>1, <1>6, <2>1 DEF Inv, Issued, Lifetime
<1>8. \A t \in Tokens : Left(t)' = Left(t) - 1
  BY <1>1, <1>2, <1>3, NumberTypes DEF Left
<1>9. \A k \in Keys :
        /\ memoryStore[k].left \in Nat /\ redisStore[k] \in Nat
        /\ memoryStore'[k].left = Less(memoryStore[k].left)
        /\ redisStore'[k] = Less(redisStore[k])
  <2> TAKE k \in Keys
  <2>1. memoryStore[k] \in [left : Durations, reason : Reasons]
    BY <1>2 DEF StoreTypeOK
  <2>2. memoryStore[k].left \in Nat /\ redisStore[k] \in Nat
    BY <1>2, NumberTypes
  <2>3. AgeBlock(memoryStore[k]).left = Less(memoryStore[k].left)
    BY <2>1, <2>2 DEF AgeBlock, Unblocked, Less
  <2> QED  BY <1>1, <2>2, <2>3
<1>10. RevocationOutlivesToken'
  <2> SUFFICES ASSUME NEW t \in Tokens, mark[t] = "called"
               PROVE  /\ Left(t)' > 0 => memoryStore'[TokenKey(t)].left >= Left(t)'
                      /\ BloomHas(t)'
    BY <1>1 DEF RevocationOutlivesToken
  <2>1. BloomHas(t)'
    BY <1>1 DEF Inv, RevocationOutlivesToken, BloomHas
  <2>2. Left(t) > 0 => memoryStore[TokenKey(t)].left >= Left(t)
    BY DEF Inv, RevocationOutlivesToken
  <2>3. Left(t)' > 0 => memoryStore'[TokenKey(t)].left >= Left(t)'
    BY <1>2, <1>8, <1>9, <2>2, TokenKeys, NumberTypes DEF Less
  <2> QED  BY <2>1, <2>3
<1>11. SetsAwaited'
  <2>1. \A i \in DOMAIN wire : wire[i].ttl \in Nat /\ token[wire[i].by] \in Tokens
    BY <1>2, NumberTypes DEF Inv, SetsAwaited
  <2>2. ASSUME NEW i \in DOMAIN wire
        PROVE  wire[i].ttl >= 2 * exp[token[wire[i].by]] - (now + 1)
    BY <1>2, <1>3, <2>1, NumberTypes DEF Inv, SetsAwaited, Left
  <2> QED  BY <1>1, <2>2 DEF Inv, SetsAwaited, Left
<1>12. UnmarkedUnlisted'
  BY <1>1, <1>9, TokenKeys DEF Inv, UnmarkedUnlisted, Less
<1>13. OnlyRevokedRefused'
  BY <1>1 DEF Inv, OnlyRevokedRefused
<1>14. RevocationIsBacked'
  <2> SUFFICES ASSUME NEW t \in Tokens, regime = {"ok"}, Left(t)' > 0,
                      mark[t] = "earlier" \/ (mark[t] = "called" /\ ~Pending(t))
               PROVE  redisStore'[TokenKey(t)] >= Left(t)'
    BY <1>1 DEF RevocationIsBacked, Pending
  <2>1. Left(t) > 0 /\ Left(t) \in Int
    BY <1>2, <1>8, NumberTypes
  <2>2. redisStore[TokenKey(t)] >= Left(t)
    BY <2>1 DEF Inv, RevocationIsBacked
  <2> QED  BY <1>8, <1>9, <2>1, <2>2, TokenKeys DEF Less
<1> QED  BY <1>5, <1>7, <1>10, <1>11, <1>12, <1>13, <1>14 DEF Inv

\* Every step keeps the invariant, and so it holds in every state.
LEMMA Invariance == Spec => []Inv
<1>1. Inv /\ [Next]_vars => Inv'
  <2> SUFFICES ASSUME Inv, [Next]_vars PROVE Inv'
    OBVIOUS
  <2>1. CASE Next
    BY <2>1, IssueInv, GuardInv, GuardConfirmInv, LogoutInv, LogoutDoneInv, ReturnInv,
       RestartInv, TickInv DEF Next
  <2>2. CASE UNCHANGED vars
    <3>1. UNCHANGED <<now, exp, bloom, pc, token, mark, memoryStore, memoryJail,
                      memoryViolations, redisStore, redisJail, redisViolations, wire, regime>>
      BY <2>2 DEF vars, call, store, memory, redis
    <3>2. TypeOK' /\ Issued'
      BY <3>1 DEF Inv, TypeOK, StoreTypeOK, Issued, Second
    <3>3. RevocationOutlivesToken' /\ SetsAwaited' /\ UnmarkedUnlisted'
      BY <3>1 DEF Inv, RevocationOutlivesToken, SetsAwaited, UnmarkedUnlisted, Left, BloomHas
    <3>4. OnlyRevokedRefused' /\ RevocationIsBacked'
      BY <3>1 DEF Inv, OnlyRevokedRefused, RevocationIsBacked, Left, Pending
    <3> QED  BY <3>2, <3>3, <3>4 DEF Inv
  <2> QED  BY <2>1, <2>2
<1> QED  BY <1>1, InitInv, PTL DEF Spec

-----------------------------------------------------------------------------
(* What follows                                                             *)

\* The types of the state, in every life of the process.
THEOREM TypeCorrect == Spec => []TypeOK
<1>1. Inv => TypeOK  BY DEF Inv
<1> QED  BY <1>1, Invariance, PTL

\* A revoked token does not outlive its revocation in the process that was
\* asked for it (jwt.js:26-29), and the filter has it (jwt.js:39-47).
THEOREM RevocationOutlives == Spec => []RevocationOutlivesToken
<1>1. Inv => RevocationOutlivesToken  BY DEF Inv
<1> QED  BY <1>1, Invariance, PTL

\* Nobody loses a session to a false positive of the filter (jwt.js:45-47,
\* 53-56), in any life of the process.
THEOREM OnlyTheRevokedAreRefused == Spec => []OnlyRevokedRefused
<1>1. Inv => OnlyRevokedRefused  BY DEF Inv
<1> QED  BY <1>1, Invariance, PTL

\* A logout that was answered with Redis up stays in Redis for as long as the
\* token lives, over any number of restarts (redis/client.js:5-6).
THEOREM RevocationBacked == Spec => []RevocationIsBacked
<1>1. Inv => RevocationIsBacked  BY DEF Inv
<1> QED  BY <1>1, Invariance, PTL

\* "Zero false negatives" (jwt.js:39-47), whatever Redis does: the filter and
\* the mirror of the process that was asked to revoke a token refuse it until
\* it has expired, also where a check was under way.
THEOREM TheRevokedAreRefused == Spec => RevokedRefused
<1>1. Inv /\ [Next]_vars =>
        [\A c \in Clients :
            Accepted(c) /\ Left(token'[c]) > 0 => mark[token'[c]] # "called"]_vars
  <2> SUFFICES ASSUME Inv, Next, NEW c \in Clients, Accepted(c), Left(token'[c]) > 0,
                      mark[token'[c]] = "called"
               PROVE  FALSE
    OBVIOUS
  <2>1. TypeOK
    BY DEF Inv
  <2>2. pc[c] # "accepted" /\ pc'[c] = "accepted"
    BY DEF Accepted
  <2>3. CASE \E t \in Tokens : Guard(c, t)
    <3>1. PICK t \in Tokens : Guard(c, t)
      BY <2>3
    <3>2. ~BloomHas(t) /\ token'[c] = t
      BY <2>1, <2>2, <3>1 DEF Guard, Call, TypeOK
    <3> QED  BY <3>2 DEF Inv, RevocationOutlivesToken
  <2>4. CASE \E o \in regime : GuardConfirm(c, o)
    <3>1. PICK o \in regime : GuardConfirm(c, o)
      BY <2>4
    <3>2. /\ pc[c] = "exists" /\ token' = token
          /\ ~BlockedSeen(TokenKey(token[c]), o)
      BY <2>1, <2>2, <3>1 DEF GuardConfirm, TypeOK
    <3>3. token[c] \in Tokens /\ ~(memoryStore[TokenKey(token[c])].left > 0)
      BY <2>1, <3>2, NumberTypes DEF BlockedSeen
    <3> QED  BY <2>1, <3>2, <3>3, TokenKeys, NumberTypes DEF Inv, RevocationOutlivesToken
  <2>5. CASE /\ \A t \in Tokens : ~Guard(c, t)
             /\ \A o \in regime : ~GuardConfirm(c, o)
    <3>1. ASSUME NEW d \in Clients, NEW t \in Tokens, Guard(d, t)
          PROVE  d # c => pc'[c] = pc[c]
      BY <2>1, <3>1 DEF Guard, Call, TypeOK
    <3>2. ASSUME NEW d \in Clients, NEW t \in Tokens, Logout(d, t)
          PROVE  pc'[c] = pc[c] \/ pc'[c] \in {"invalid", "set"}
      BY <2>1, <3>2 DEF Logout, Call, TypeOK
    <3>3. ASSUME NEW d \in Clients, NEW o \in regime, GuardConfirm(d, o)
          PROVE  d # c => pc'[c] = pc[c]
      BY <2>1, <3>3 DEF GuardConfirm, TypeOK
    <3>4. ASSUME NEW d \in Clients, NEW o \in regime, LogoutDone(d, o)
          PROVE  pc'[c] = pc[c] \/ pc'[c] = "loggedOut"
      BY <2>1, <3>4 DEF LogoutDone, TypeOK
    <3>5. ASSUME NEW d \in Clients, Return(d)
          PROVE  pc'[c] = pc[c] \/ pc'[c] = "idle"
      BY <2>1, <3>5 DEF Return, TypeOK
    <3>6. (\E t \in Tokens : Issue(t)) \/ Tick => pc' = pc
      BY DEF Issue, Tick, call
    <3>7. Restart => pc'[c] = "idle"
      BY DEF Restart
    <3> QED  BY <2>2, <2>5, <3>1, <3>2, <3>3, <3>4, <3>5, <3>6, <3>7 DEF Next
  <2> QED  BY <2>3, <2>4, <2>5
<1> QED  BY <1>1, Invariance, PTL DEF Spec, RevokedRefused
=============================================================================
