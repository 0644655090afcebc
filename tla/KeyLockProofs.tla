--------------------------- MODULE KeyLockProofs ---------------------------
(***************************************************************************)
(* The chain of withKeyLock gives every key one running call at a time, in *)
(* arrival order, for any number of keys and calls and whichever of them   *)
(* throw or hang; and it implements a FIFO queue per key.                  *)
(***************************************************************************)
EXTENDS KeyLock, SequenceTheorems, TLAPS

\* ArrivalOrder speaks of the call at a place; it is inductive together with
\* the fact that a call stands at one place only.
Inv == TypeOK /\ ArrivalOrder

\* The chain of every key is empty at first (blocklist.js:23).
LEMMA InitInv == Init => Inv
  BY DEF Init, Inv, TypeOK, ChainedOnce, ChainedOn, ArrivalOrder, Turns

\* Making a call keeps the invariant: the new tail is behind every other call
\* and waits (blocklist.js:38-44).
LEMMA WithKeyLockInv ==
  ASSUME Inv, NEW k \in Keys, NEW c \in Calls, WithKeyLock(k, c)
  PROVE  Inv'
<1> DEFINE n == Len(keyChains[k])
<1>1. /\ keyChains[k] \in Seq(Calls)
      /\ n \in Nat
      /\ keyChains'[k] = Append(keyChains[k], c)
      /\ \A l \in Keys : l # k => keyChains'[l] = keyChains[l]
      /\ turn[c] = "unmade"
      /\ turn'[c] = "waiting"
      /\ \A d \in Calls : d # c => turn'[d] = turn[d]
  BY DEF WithKeyLock, Inv, TypeOK
<1>2. /\ DOMAIN keyChains'[k] = 1..(n + 1)
      /\ DOMAIN keyChains[k] = 1..n
      /\ keyChains'[k][n + 1] = c
      /\ \A i \in 1..n : keyChains'[k][i] = keyChains[k][i]
  BY <1>1
<1>3. \A l \in Keys : \A i \in DOMAIN keyChains[l] :
         keyChains[l][i] \in Calls /\ keyChains[l][i] # c
  BY <1>1 DEF Inv, TypeOK, ChainedOnce
\* The old places keep their calls, and c has the new place at the end of k.
<1>4. \A l \in Keys : \A i \in DOMAIN keyChains[l] :
         /\ i \in DOMAIN keyChains'[l]
         /\ keyChains'[l][i] = keyChains[l][i]
         /\ l = k => i \in Nat /\ i < n + 1
  <2> TAKE l \in Keys
  <2>1. CASE l = k   BY <2>1, <1>1, <1>2
  <2>2. CASE l # k   BY <2>2, <1>1
  <2> QED  BY <2>1, <2>2
<1>5. \A l \in Keys : \A i \in DOMAIN keyChains'[l] :
         \/ l = k /\ i = n + 1 /\ keyChains'[l][i] = c
         \/ i \in DOMAIN keyChains[l]
  <2> TAKE l \in Keys
  <2>1. CASE l = k   BY <2>1, <1>1, <1>2
  <2>2. CASE l # k   BY <2>2, <1>1
  <2> QED  BY <2>1, <2>2
<1>6. n + 1 \in DOMAIN keyChains'[k] /\ keyChains'[k][n + 1] = c
  BY <1>1, <1>2
<1>7. keyChains' \in [Keys -> Seq(Calls)] /\ turn' \in [Calls -> Turns]
  BY <1>1 DEF WithKeyLock, Turns, Inv, TypeOK
<1> HIDE DEF n
<1>8. ChainedOnce'
  <2>1. ASSUME NEW l \in Keys, NEW i \in DOMAIN keyChains'[l]
        PROVE  turn'[keyChains'[l][i]] # "unmade"
    <3>1. CASE keyChains'[l][i] = c  BY <3>1, <1>1
    <3>2. CASE i \in DOMAIN keyChains[l]
      BY <3>2, <1>1, <1>3, <1>4 DEF Inv, TypeOK, ChainedOnce
    <3> QED  BY <3>1, <3>2, <1>5
  <2>2. ASSUME NEW d \in Calls, turn'[d] # "unmade"
        PROVE  \E l \in Keys : \E i \in DOMAIN keyChains'[l] : keyChains'[l][i] = d
    <3>1. CASE d = c  BY <3>1, <1>6
    <3>2. CASE d # c
      <4>1. PICK l \in Keys : \E i \in DOMAIN keyChains[l] : keyChains[l][i] = d
        BY <3>2, <2>2, <1>1 DEF Inv, TypeOK, ChainedOnce, ChainedOn
      <4>2. PICK i \in DOMAIN keyChains[l] : keyChains[l][i] = d
        BY <4>1
      <4> QED  BY <4>2, <1>4
    <3> QED  BY <3>1, <3>2
  <2>3. ASSUME NEW l \in Keys, NEW m \in Keys,
               NEW i \in DOMAIN keyChains'[l], NEW j \in DOMAIN keyChains'[m],
               keyChains'[l][i] = keyChains'[m][j]
        PROVE  l = m /\ i = j
    <3>1. CASE i \in DOMAIN keyChains[l] /\ j \in DOMAIN keyChains[m]
      BY <3>1, <2>3, <1>4 DEF Inv, TypeOK, ChainedOnce
    <3>2. CASE ~(i \in DOMAIN keyChains[l] /\ j \in DOMAIN keyChains[m])
      BY <3>2, <2>3, <1>3, <1>4, <1>5
    <3> QED  BY <3>1, <3>2
  <2> QED  BY <2>1, <2>2, <2>3 DEF ChainedOnce, ChainedOn
<1>9. ArrivalOrder'
  <2> SUFFICES ASSUME NEW l \in Keys, NEW i \in DOMAIN keyChains'[l],
                      NEW j \in DOMAIN keyChains'[l],
                      i < j, turn'[keyChains'[l][j]] # "waiting"
               PROVE  turn'[keyChains'[l][i]] \in {"fulfilled", "rejected"}
    BY DEF ArrivalOrder, Settled
  <2>1. j \in DOMAIN keyChains[l]
    BY <1>1, <1>5
  <2>2. i \in DOMAIN keyChains[l]
    <3> SUFFICES ASSUME l = k, i = n + 1 PROVE FALSE
      BY <1>5
    <3> QED  BY <2>1, <1>1, <1>4
  <2>3. Settled(keyChains[l][i])
    BY <2>1, <2>2, <1>1, <1>3, <1>4 DEF Inv, ArrivalOrder
  <2> QED  BY <2>2, <2>3, <1>1, <1>3, <1>4 DEF Settled
<1> QED  BY <1>7, <1>8, <1>9 DEF Inv, TypeOK

\* A call starts only behind a settled one, and that one stands behind
\* settled calls only (blocklist.js:41).
LEMMA StartTurnInv ==
  ASSUME Inv, NEW k \in Keys, NEW c \in Calls, StartTurn(k, c)
  PROVE  Inv'
<1> USE DEF Inv, TypeOK
<1>1. /\ keyChains' = keyChains
      /\ turn[c] = "waiting"
      /\ turn'[c] = "running"
      /\ \A d \in Calls : d # c => turn'[d] = turn[d]
      /\ turn' \in [Calls -> Turns]
  BY DEF StartTurn, Turns
<1>2. PICK n \in DOMAIN keyChains[k] : keyChains[k][n] = c /\ MayRun(k, n)
  BY DEF StartTurn
<1>3. \A l \in Keys : \A i \in DOMAIN keyChains[l] :
         /\ keyChains[l][i] \in Calls
         /\ keyChains[l][i] = c => l = k /\ i = n
         /\ DOMAIN keyChains[l] = 1..Len(keyChains[l])
         /\ Len(keyChains[l]) \in Nat
  BY <1>2 DEF ChainedOnce
<1>4. \A i \in DOMAIN keyChains[k] : i < n => Settled(keyChains[k][i])
  <2> TAKE i \in DOMAIN keyChains[k]
  <2> HAVE i < n
  <2>1. n - 1 \in DOMAIN keyChains[k] /\ n > 1 /\ (i < n - 1 \/ i = n - 1)
    BY <1>2, <1>3
  <2>2. Settled(keyChains[k][n - 1])
    BY <2>1, <1>2 DEF MayRun
  <2>3. turn[keyChains[k][n - 1]] # "waiting"
    BY <2>2 DEF Settled
  <2> QED  BY <2>1, <2>2, <2>3 DEF ArrivalOrder
<1>5. \A d \in Calls : Settled(d) => Settled(d)'
  BY <1>1 DEF Settled
<1>6. ChainedOnce'
  BY <1>1, <1>3 DEF ChainedOnce, ChainedOn
<1>7. ArrivalOrder'
  <2> SUFFICES ASSUME NEW l \in Keys, NEW i \in DOMAIN keyChains[l],
                      NEW j \in DOMAIN keyChains[l],
                      i < j, turn'[keyChains[l][j]] # "waiting"
               PROVE  turn'[keyChains[l][i]] \in {"fulfilled", "rejected"}
    BY <1>1 DEF ArrivalOrder, Settled
  <2>1. Settled(keyChains[l][i])
    <3>1. CASE keyChains[l][j] = c  BY <3>1, <1>3, <1>4
    <3>2. CASE keyChains[l][j] # c  BY <3>2, <1>1, <1>3 DEF ArrivalOrder
    <3> QED  BY <3>1, <3>2
  <2>2. keyChains[l][i] # c
    BY <2>1, <1>1 DEF Settled
  <2> QED  BY <2>1, <2>2, <1>1, <1>3 DEF Settled
<1> QED  BY <1>1, <1>6, <1>7

\* A settled call stays settled.
LEMMA SettleInv ==
  ASSUME Inv, NEW c \in Calls, Settle(c)
  PROVE  Inv'
<1> USE DEF Inv, TypeOK
<1>1. /\ keyChains' = keyChains
      /\ turn[c] = "running"
      /\ turn'[c] \in {"fulfilled", "rejected"}
      /\ \A d \in Calls : d # c => turn'[d] = turn[d]
      /\ turn' \in [Calls -> Turns]
  BY DEF Settle, Turns
<1>2. \A l \in Keys : \A i \in DOMAIN keyChains[l] : keyChains[l][i] \in Calls
  OBVIOUS
<1>3. \A d \in Calls : Settled(d) => Settled(d)'
  BY <1>1 DEF Settled
<1>4. ChainedOnce'
  BY <1>1, <1>2 DEF ChainedOnce, ChainedOn
<1>5. ArrivalOrder'
  BY <1>1, <1>2, <1>3 DEF ArrivalOrder
<1> QED  BY <1>1, <1>4, <1>5

\* The invariant holds in every state.
THEOREM Invariance == Spec => []Inv
<1>1. Inv /\ [Next]_vars => Inv'
  <2> SUFFICES ASSUME Inv, [Next]_vars PROVE Inv'
    OBVIOUS
  <2>1. CASE Next
    BY <2>1, WithKeyLockInv, StartTurnInv, SettleInv DEF Next
  <2>2. CASE UNCHANGED vars
    BY <2>2 DEF vars, Inv, TypeOK, ChainedOnce, ChainedOn, ArrivalOrder, Settled
  <2> QED  BY <2>1, <2>2
<1> QED  BY <1>1, InitInv, PTL DEF Spec

\* Type correctness, and every call made stands in exactly one chain.
THEOREM TypeCorrect == Spec => []TypeOK
<1>1. Inv => TypeOK  BY DEF Inv
<1> QED  BY <1>1, Invariance, PTL

\* Turns are taken in arrival order (blocklist.js:33).
THEOREM TurnsInArrivalOrder == Spec => []ArrivalOrder
<1>1. Inv => ArrivalOrder  BY DEF Inv
<1> QED  BY <1>1, Invariance, PTL

\* Two calls on one key never run together, whichever of them throw or hang
\* (ARM-02, blocklist.js:32-34).
THEOREM MutualExclusion == Spec => []OneAtATime
<1>1. Inv => OneAtATime
  <2> SUFFICES ASSUME Inv, NEW k \in Keys,
                      NEW i \in DOMAIN keyChains[k], NEW j \in DOMAIN keyChains[k],
                      turn[keyChains[k][i]] = "running",
                      turn[keyChains[k][j]] = "running"
               PROVE  keyChains[k][i] = keyChains[k][j]
    BY DEF OneAtATime, ChainedOn
  <2>1. i \in Nat /\ j \in Nat
    BY DEF Inv, TypeOK
  <2>2. ~(i < j) /\ ~(j < i)
    BY DEF Inv, ArrivalOrder, Settled
  <2> QED  BY <2>1, <2>2
<1> QED  BY <1>1, Invariance, PTL

-----------------------------------------------------------------------------
(* The chain implements the queue                                           *)

\* The first m calls of k have settled, and the others have not.
Boundary(k, m) ==
    /\ m \in 0..Len(keyChains[k])
    /\ \A i \in DOMAIN keyChains[k] : Settled(keyChains[k][i]) <=> i <= m

\* The settled calls are a prefix of every chain.  That there is such a prefix
\* is an invariant of its own: no induction over the chain is needed for it.
Bounded == \A k \in Keys : \E m \in 0..Len(keyChains[k]) : Boundary(k, m)

\* What Unsettled chooses is what follows the boundary.
QueueFromBoundary ==
    \A k \in Keys : \A m \in 0..Len(keyChains[k]) :
        Boundary(k, m) => Unsettled(k) = SubSeq(keyChains[k], m + 1, Len(keyChains[k]))

\* The lengths and places of a chain.
LEMMA ChainFacts ==
  ASSUME TypeOK, NEW k \in Keys
  PROVE  /\ keyChains[k] \in Seq(Calls) /\ Len(keyChains[k]) \in Nat
         /\ DOMAIN keyChains[k] = 1..Len(keyChains[k])
         /\ \A i \in 1..Len(keyChains[k]) : keyChains[k][i] \in Calls
<1>1. keyChains[k] \in Seq(Calls)
  BY DEF TypeOK
<1> QED  BY <1>1, LenProperties, ElementOfSeq

LEMMA ChosenBoundary ==
  ASSUME TypeOK
  PROVE  QueueFromBoundary
<1> SUFFICES ASSUME NEW k \in Keys, NEW m \in 0..Len(keyChains[k]), Boundary(k, m)
             PROVE  Unsettled(k) = SubSeq(keyChains[k], m + 1, Len(keyChains[k]))
  BY DEF QueueFromBoundary
<1> DEFINE n == Len(keyChains[k])
           First(i) == /\ i <= n => ~Settled(keyChains[k][i])
                       /\ \A j \in 1..(i - 1) : Settled(keyChains[k][j])
<1>1. n \in Nat /\ DOMAIN keyChains[k] = 1..n /\ m \in 0..n
  BY ChainFacts
<1>2. \A i \in 1..n : Settled(keyChains[k][i]) <=> i <= m
  BY <1>1 DEF Boundary
<1>3. Unsettled(k) = SubSeq(keyChains[k], CHOOSE i \in 1..(n + 1) : First(i), n)
  BY DEF Unsettled
<1> HIDE DEF n
<1>4. First(m + 1) /\ m + 1 \in 1..(n + 1)
  <2>1. m + 1 <= n => ~Settled(keyChains[k][m + 1])
    BY <1>1, <1>2
  <2>2. \A j \in 1..m : Settled(keyChains[k][j])
    BY <1>1, <1>2
  <2>3. (m + 1) - 1 = m
    BY <1>1
  <2> QED  BY <1>1, <2>1, <2>2, <2>3
<1>5. ASSUME NEW i \in 1..(n + 1), First(i) PROVE i = m + 1
  <2>1. ~(i <= m)
    BY <1>1, <1>2, <1>5
  <2>2. ~(i > m + 1)
    <3>1. i > m + 1 => m + 1 \in 1..(i - 1) /\ m + 1 \in 1..n
      BY <1>1
    <3> QED  BY <1>1, <1>2, <1>5, <3>1
  <2> QED  BY <1>1, <2>1, <2>2
<1> HIDE DEF First
<1>6. (CHOOSE i \in 1..(n + 1) : First(i)) = m + 1
  BY <1>4, <1>5
<1> QED  BY <1>3, <1>6 DEF n

\* Empty chains have nothing settled.
LEMMA BoundedInit == Init => Bounded
<1> SUFFICES ASSUME Init, NEW k \in Keys
             PROVE  \E m \in 0..Len(keyChains[k]) : Boundary(k, m)
  BY DEF Bounded
<1>1. keyChains[k] = <<>> /\ Len(<<>>) = 0 /\ \A i \in DOMAIN <<>> : FALSE
  BY DEF Init
<1>2. Boundary(k, 0) /\ 0 \in 0..Len(keyChains[k])
  BY <1>1 DEF Boundary
<1> QED  BY <1>2

\* A new call is behind the boundary of its chain (blocklist.js:38-44).
LEMMA WithKeyLockBoundary ==
  ASSUME Inv, NEW k \in Keys, NEW c \in Calls, WithKeyLock(k, c),
         NEW l \in Keys, NEW m, Boundary(l, m)
  PROVE  Boundary(l, m)'
<1>1. TypeOK /\ turn[c] = "unmade" /\ turn' = [turn EXCEPT ![c] = "waiting"]
      /\ keyChains' = [keyChains EXCEPT ![k] = Append(keyChains[k], c)]
  BY DEF Inv, WithKeyLock
<1>2. \A d \in Calls : Settled(d)' <=> Settled(d)
  BY <1>1 DEF Settled, TypeOK
<1>3. Len(keyChains[l]) \in Nat /\ \A i \in DOMAIN keyChains[l] : keyChains[l][i] \in Calls
  BY <1>1, ChainFacts
<1>4. CASE l # k
  BY <1>1, <1>2, <1>3, <1>4 DEF Boundary, TypeOK, Settled
<1>5. CASE l = k
  <2>1. /\ DOMAIN keyChains[k] = 1..Len(keyChains[k])
        /\ DOMAIN keyChains'[k] = 1..(Len(keyChains[k]) + 1)
        /\ Len(keyChains'[k]) = Len(keyChains[k]) + 1
        /\ keyChains'[k][Len(keyChains[k]) + 1] = c
        /\ \A i \in 1..Len(keyChains[k]) : keyChains'[k][i] = keyChains[k][i]
    BY <1>1 DEF TypeOK
  <2>2. ~Settled(c)
    BY <1>1 DEF Settled
  <2>3. \A i \in DOMAIN keyChains'[k] :
           \/ i \in DOMAIN keyChains[k]
           \/ i = Len(keyChains[k]) + 1
    BY <1>3, <1>5, <2>1
  <2>4. m \in 0..Len(keyChains'[k])
    BY <1>3, <1>5, <2>1 DEF Boundary
  <2>5. ASSUME NEW i \in DOMAIN keyChains'[k]
        PROVE  turn'[keyChains'[k][i]] \in {"fulfilled", "rejected"} <=> i <= m
    <3>1. CASE i \in DOMAIN keyChains[k]
      BY <1>2, <1>3, <1>5, <2>1, <3>1 DEF Boundary, Settled
    <3>2. CASE i = Len(keyChains[k]) + 1
      <4>1. ~(i <= m)
        BY <1>3, <1>5, <3>2 DEF Boundary
      <4> QED  BY <1>2, <2>1, <2>2, <3>2, <4>1 DEF Settled
    <3> QED  BY <2>3, <3>1, <3>2
  <2> QED  BY <1>5, <2>4, <2>5 DEF Boundary, Settled
<1> QED  BY <1>4, <1>5

\* A call that starts has not settled.
LEMMA StartTurnBoundary ==
  ASSUME Inv, NEW k \in Keys, NEW c \in Calls, StartTurn(k, c),
         NEW l \in Keys, NEW m, Boundary(l, m)
  PROVE  Boundary(l, m)'
<1>1. TypeOK /\ keyChains' = keyChains
      /\ turn[c] = "waiting" /\ turn' = [turn EXCEPT ![c] = "running"]
  BY DEF Inv, StartTurn
<1>2. \A d \in Calls : Settled(d)' <=> Settled(d)
  BY <1>1 DEF Settled, TypeOK
<1>3. \A i \in DOMAIN keyChains[l] : keyChains[l][i] \in Calls
  BY <1>1, ChainFacts
<1> QED  BY <1>1, <1>2, <1>3 DEF Boundary, Settled

\* The call that settles is the one behind the boundary of its chain, which
\* takes it in; the other chains keep theirs.
LEMMA SettleBoundary ==
  ASSUME Inv, Bounded, NEW c \in Calls, Settle(c)
  PROVE  \E k \in Keys : \E m \in 0..(Len(keyChains[k]) - 1) :
           /\ Boundary(k, m) /\ Boundary(k, m + 1)'
           /\ keyChains[k][m + 1] = c
           /\ \A l \in Keys \ {k} : \A p : Boundary(l, p) => Boundary(l, p)'
<1>1. TypeOK /\ ArrivalOrder /\ keyChains' = keyChains /\ turn[c] = "running"
      /\ Settled(c)' /\ \A d \in Calls \ {c} : turn'[d] = turn[d]
  BY DEF Inv, Settle, TypeOK, Settled
<1>2. PICK k \in Keys : ChainedOn(k, c)
  BY <1>1 DEF TypeOK, ChainedOnce
<1>3. PICK q \in DOMAIN keyChains[k] : keyChains[k][q] = c
  BY <1>2 DEF ChainedOn
<1>4. \A l \in Keys : \A i \in DOMAIN keyChains[l] :
         keyChains[l][i] \in Calls /\ (keyChains[l][i] = c => l = k /\ i = q)
  BY <1>1, <1>3, ChainFacts DEF TypeOK, ChainedOnce
<1>5. PICK m \in 0..Len(keyChains[k]) : Boundary(k, m)
  BY DEF Bounded
<1>6. Len(keyChains[k]) \in Nat /\ DOMAIN keyChains[k] = 1..Len(keyChains[k])
  BY <1>1, ChainFacts
<1>7. q = m + 1
  <2>1. ~(q <= m)
    BY <1>1, <1>3, <1>5 DEF Boundary, Settled
  <2>2. ~(m + 1 < q)
    <3> SUFFICES ASSUME m + 1 < q PROVE FALSE
      OBVIOUS
    <3>1. m + 1 \in DOMAIN keyChains[k] /\ turn[keyChains[k][q]] # "waiting"
      BY <1>1, <1>3, <1>5, <1>6
    <3>2. Settled(keyChains[k][m + 1])
      BY <1>1, <3>1 DEF ArrivalOrder
    <3>3. m + 1 <= m
      BY <1>5, <3>1, <3>2 DEF Boundary
    <3> QED  BY <1>5, <1>6, <3>3
  <2> QED  BY <1>5, <1>6, <2>1, <2>2
<1>8. m \in 0..(Len(keyChains[k]) - 1)
  BY <1>5, <1>6, <1>7
<1>9. Boundary(k, m + 1)'
  <2>1. m + 1 \in 0..Len(keyChains[k])
    BY <1>6, <1>8
  <2>2. ASSUME NEW i \in DOMAIN keyChains[k]
        PROVE  turn'[keyChains[k][i]] \in {"fulfilled", "rejected"} <=> i <= m + 1
    <3>1. CASE i = m + 1
      BY <1>1, <1>3, <1>6, <1>7, <3>1 DEF Settled
    <3>2. CASE i # m + 1
      <4>1. turn'[keyChains[k][i]] = turn[keyChains[k][i]]
        BY <1>1, <1>4, <1>7, <3>2
      <4>2. i <= m + 1 <=> i <= m
        BY <1>5, <1>6, <3>2
      <4> QED  BY <1>5, <4>1, <4>2 DEF Boundary, Settled
    <3> QED  BY <3>1, <3>2
  <2> QED  BY <1>1, <2>1, <2>2 DEF Boundary, Settled
<1>10. ASSUME NEW l \in Keys \ {k}, NEW p, Boundary(l, p)
       PROVE  Boundary(l, p)'
  <2>1. \A i \in DOMAIN keyChains[l] : turn'[keyChains[l][i]] = turn[keyChains[l][i]]
    BY <1>1, <1>4
  <2> QED  BY <1>1, <1>10, <2>1 DEF Boundary, Settled
<1> QED  BY <1>3, <1>5, <1>7, <1>8, <1>9, <1>10

\* Every step keeps the settled calls a prefix of each chain.
LEMMA BoundedStep ==
  ASSUME Inv, Inv', Bounded, [Next]_vars
  PROVE  Bounded'
<1>1. ASSUME NEW k \in Keys, NEW c \in Calls, WithKeyLock(k, c) \/ StartTurn(k, c)
      PROVE  Bounded'
  <2>1. \A l \in Keys : \A m : Boundary(l, m) => Boundary(l, m)'
    BY <1>1, WithKeyLockBoundary, StartTurnBoundary
  <2> QED  BY <2>1 DEF Bounded, Boundary
<1>2. ASSUME NEW c \in Calls, Settle(c) PROVE Bounded'
  <2>1. PICK k \in Keys : \E m :
          /\ Boundary(k, m + 1)'
          /\ \A l \in Keys \ {k} : \A p : Boundary(l, p) => Boundary(l, p)'
    BY <1>2, SettleBoundary
  <2> QED  BY <2>1 DEF Bounded, Boundary
<1>3. CASE UNCHANGED vars
  BY <1>3 DEF vars, Bounded, Boundary, Settled
<1> QED  BY <1>1, <1>2, <1>3 DEF Next

\* A step of the chain is one of the queue: a call enters at the back, the head
\* leaves, or the queue stays.
LEMMA QueueStep ==
  ASSUME Inv, Inv', Bounded, QueueFromBoundary, QueueFromBoundary', [Next]_vars
  PROVE  Queue!Next \/ UNCHANGED [k \in Keys |-> Unsettled(k)]
<1> DEFINE queue == [k \in Keys |-> Unsettled(k)]
<1>1. TypeOK /\ TypeOK'
  BY DEF Inv
\* A chain that keeps its calls and its boundary keeps its queue.
<1>2. ASSUME NEW l \in Keys, keyChains'[l] = keyChains[l],
             \A m : Boundary(l, m) => Boundary(l, m)'
      PROVE  Unsettled(l)' = Unsettled(l)
  <2>1. PICK m \in 0..Len(keyChains[l]) : Boundary(l, m)
    BY DEF Bounded
  <2>2. Boundary(l, m)'
    BY <1>2, <2>1
  <2>3. /\ Unsettled(l) = SubSeq(keyChains[l], m + 1, Len(keyChains[l]))
        /\ Unsettled(l)' = SubSeq(keyChains'[l], m + 1, Len(keyChains'[l]))
    BY <1>2, <2>1, <2>2 DEF QueueFromBoundary
  <2> QED  BY <1>2, <2>3
<1>3. ASSUME NEW k \in Keys, NEW c \in Calls, WithKeyLock(k, c)
      PROVE  Queue!Enqueue(k, c)
  <2> DEFINE s == keyChains[k]
             n == Len(keyChains[k])
  <2>1. s \in Seq(Calls) /\ n \in Nat /\ keyChains'[k] = Append(s, c)
        /\ \A l \in Keys \ {k} : keyChains'[l] = keyChains[l]
    BY <1>1, <1>3, ChainFacts DEF WithKeyLock, TypeOK
  <2>2. PICK m \in 0..n : Boundary(k, m)
    BY DEF Bounded
  <2>3. /\ Append(s, c) \in Seq(Calls) /\ Len(Append(s, c)) = n + 1
        /\ Append(s, c) = s \o <<c>>
        /\ \A i \in 1..n : Append(s, c)[i] = s[i]
        /\ Append(s, c)[n + 1] = c
    BY <2>1, AppendProperties, AppendIsConcat
  <2>4. Boundary(k, m)' /\ m \in 0..(n + 1)
    BY <1>3, <2>1, <2>2, WithKeyLockBoundary
  <2>5. /\ Unsettled(k) = SubSeq(s, m + 1, n)
        /\ Unsettled(k)' = SubSeq(Append(s, c), m + 1, n + 1)
    BY <2>1, <2>2, <2>3, <2>4 DEF QueueFromBoundary
  <2> HIDE DEF s, n
  <2>6. Unsettled(k)' = Append(Unsettled(k), c)
    <3>1. \A i \in (m + 1)..n : s[i] \in Calls
      BY <2>1, <2>2, ElementOfSeq DEF n, s
    <3>2. \A i \in (m + 1)..(n + 1) : Append(s, c)[i] \in Calls
      BY <2>1, <2>2, <2>3, <3>1
    <3>3. /\ SubSeq(s, m + 1, n) \in Seq(Calls)
          /\ Len(SubSeq(s, m + 1, n)) = n - m
          /\ \A i \in 1..(n - m) : SubSeq(s, m + 1, n)[i] = s[m + i]
      <4>1. /\ SubSeq(s, m + 1, n) \in Seq(Calls)
            /\ Len(SubSeq(s, m + 1, n)) = IF m + 1 <= n THEN n - (m + 1) + 1 ELSE 0
            /\ \A i \in 1..(n - (m + 1) + 1) : SubSeq(s, m + 1, n)[i] = s[m + 1 + i - 1]
        BY <2>1, <2>2, <3>1, SubSeqProperties
      <4> QED  BY <2>1, <2>2, <4>1
    <3>4. /\ SubSeq(Append(s, c), m + 1, n + 1) \in Seq(Calls)
          /\ Len(SubSeq(Append(s, c), m + 1, n + 1)) = n - m + 1
          /\ \A i \in 1..(n - m + 1) :
                SubSeq(Append(s, c), m + 1, n + 1)[i] = Append(s, c)[m + i]
      <4> DEFINE t == Append(s, c)
                 p == m + 1
                 q == n + 1
      <4>1. p \in Int /\ q \in Int /\ q - p + 1 = n - m + 1 /\ p <= q
            /\ \A i \in 1..(n - m + 1) : p + i - 1 = m + i
        BY <2>1, <2>2
      <4>2. \A i \in p..q : t[i] \in Calls
        BY <3>2
      <4> HIDE DEF t, p, q
      <4>3. /\ SubSeq(t, p, q) \in Seq(Calls)
            /\ Len(SubSeq(t, p, q)) = IF p <= q THEN q - p + 1 ELSE 0
            /\ \A i \in 1..(q - p + 1) : SubSeq(t, p, q)[i] = t[p + i - 1]
        BY <4>1, <4>2, SubSeqProperties
      <4>4. /\ SubSeq(t, p, q) \in Seq(Calls)
            /\ Len(SubSeq(t, p, q)) = n - m + 1
            /\ \A i \in 1..(n - m + 1) : SubSeq(t, p, q)[i] = t[m + i]
        BY <4>1, <4>3
      <4> QED  BY <4>4 DEF t, p, q
    <3> DEFINE old == SubSeq(s, m + 1, n)
               new == SubSeq(Append(s, c), m + 1, n + 1)
    <3> HIDE DEF old, new
    <3>5. /\ Append(old, c) \in Seq(Calls) /\ Len(Append(old, c)) = n - m + 1
          /\ \A i \in 1..(n - m) : Append(old, c)[i] = old[i]
          /\ Append(old, c)[n - m + 1] = c
      BY <3>3, AppendProperties DEF old
    <3>6. ASSUME NEW i \in 1..(n - m + 1) PROVE new[i] = Append(old, c)[i]
      <4>1. new[i] = Append(s, c)[m + i]
        BY <3>4 DEF new
      <4>2. CASE i \in 1..(n - m)
        <5>1. m + i \in 1..n
          BY <2>1, <2>2, <4>2
        <5> QED  BY <2>3, <3>3, <3>5, <4>1, <4>2, <5>1 DEF old
      <4>3. CASE i = n - m + 1
        <5>1. m + i = n + 1
          BY <2>1, <2>2, <4>3
        <5> QED  BY <2>3, <3>5, <4>1, <4>3, <5>1
      <4>4. i \in 1..(n - m) \/ i = n - m + 1
        BY <2>1, <2>2
      <4> QED  BY <4>2, <4>3, <4>4
    <3>7. new = Append(old, c)
      BY <3>4, <3>5, <3>6, SeqEqual DEF new
    <3> QED  BY <2>5, <3>7 DEF old, new
  <2>7. \A l \in Keys \ {k} : Unsettled(l)' = Unsettled(l)
    BY <1>2, <1>3, <2>1, WithKeyLockBoundary
  <2>8. queue' = [queue EXCEPT ![k] = Append(queue[k], c)]
    BY <2>6, <2>7
  <2>9. ASSUME NEW l \in Keys, NEW i \in DOMAIN Unsettled(l), Unsettled(l)[i] = c
        PROVE  FALSE
    <3> DEFINE t == keyChains[l]
               e == Len(keyChains[l])
    <3>1. t \in Seq(Calls) /\ e \in Nat /\ DOMAIN t = 1..e
      BY <1>1, ChainFacts
    <3>2. PICK p \in 0..e : Boundary(l, p)
      BY DEF Bounded
    <3>3. Unsettled(l) = SubSeq(t, p + 1, e)
      BY <3>2 DEF QueueFromBoundary
    <3> HIDE DEF t, e
    <3>4. \A j \in (p + 1)..e : t[j] \in Calls
      BY <3>1, <3>2, ElementOfSeq DEF t, e
    <3>5. /\ Unsettled(l) \in Seq(Calls)
          /\ Len(Unsettled(l)) = IF p + 1 <= e THEN e - (p + 1) + 1 ELSE 0
          /\ \A j \in 1..(e - (p + 1) + 1) : Unsettled(l)[j] = t[p + 1 + j - 1]
      BY <3>1, <3>2, <3>3, <3>4, SubSeqProperties
    <3>6. DOMAIN Unsettled(l) = 1..Len(Unsettled(l))
      BY <3>5, LenProperties
    <3>7. i \in 1..(e - (p + 1) + 1) /\ p + 1 + i - 1 \in DOMAIN t
      BY <3>1, <3>2, <3>5, <3>6
    <3>8. t[p + 1 + i - 1] = c
      BY <2>9, <3>5, <3>7
    <3>9. turn[c] # "unmade"
      BY <1>1, <3>7, <3>8 DEF t, TypeOK, ChainedOnce
    <3> QED  BY <1>3, <3>9 DEF WithKeyLock
  <2> QED  BY <2>8, <2>9 DEF Queue!Enqueue, Queue!Waits
<1>4. ASSUME NEW k \in Keys, NEW c \in Calls, StartTurn(k, c)
      PROVE  UNCHANGED queue
  <2>1. \A l \in Keys : Unsettled(l)' = Unsettled(l)
    BY <1>2, <1>4, StartTurnBoundary DEF StartTurn
  <2> QED  BY <2>1
<1>5. ASSUME NEW c \in Calls, Settle(c)
      PROVE  \E k \in Keys : Queue!Leave(k, c)
  <2>1. PICK k \in Keys : \E m \in 0..(Len(keyChains[k]) - 1) :
          /\ Boundary(k, m) /\ Boundary(k, m + 1)'
          /\ keyChains[k][m + 1] = c
          /\ \A l \in Keys \ {k} : \A p : Boundary(l, p) => Boundary(l, p)'
    BY <1>5, SettleBoundary
  <2>2. PICK m \in 0..(Len(keyChains[k]) - 1) :
          /\ Boundary(k, m) /\ Boundary(k, m + 1)'
          /\ keyChains[k][m + 1] = c
    BY <2>1
  <2> DEFINE s == keyChains[k]
             n == Len(keyChains[k])
  <2>3. s \in Seq(Calls) /\ n \in Nat /\ keyChains' = keyChains
    BY <1>1, <1>5, ChainFacts DEF Settle
  <2>4. m \in 0..n /\ m + 1 \in 1..n /\ n \in (m + 1)..n /\ m + 1 \in 0..n
    BY <2>2, <2>3
  <2>5. /\ Unsettled(k) = SubSeq(s, m + 1, n)
        /\ Unsettled(k)' = SubSeq(s, m + 1 + 1, n)
    BY <2>2, <2>3, <2>4 DEF QueueFromBoundary
  <2> HIDE DEF s, n
  <2>6. /\ Head(SubSeq(s, m + 1, n)) = s[m + 1]
        /\ Tail(SubSeq(s, m + 1, n)) = SubSeq(s, m + 1 + 1, n)
    BY <2>3, <2>4, HeadTailOfSubSeq DEF n
  <2>7. SubSeq(s, m + 1, n) # <<>>
    <3>0. \A i \in 1..n : s[i] \in Calls
      BY <2>3, ElementOfSeq DEF n, s
    <3>1. \A i \in (m + 1)..n : s[i] \in Calls
      BY <2>3, <2>4, <3>0
    <3>2. Len(SubSeq(s, m + 1, n)) = IF m + 1 <= n THEN n - (m + 1) + 1 ELSE 0
      BY <2>3, <2>4, <3>1, SubSeqProperties
    <3>3. Len(SubSeq(s, m + 1, n)) # 0
      BY <2>3, <2>4, <3>2
    <3> QED  BY <3>3, EmptySeq
  <2>8. \A l \in Keys \ {k} : Unsettled(l)' = Unsettled(l)
    BY <1>2, <2>1, <2>3
  <2>9. queue' = [queue EXCEPT ![k] = Tail(queue[k])]
    BY <2>5, <2>6, <2>8
  <2>10. queue[k] # <<>> /\ Head(queue[k]) = c
    BY <2>2, <2>5, <2>6, <2>7 DEF s
  <2> QED  BY <2>9, <2>10 DEF Queue!Leave, Queue!Holds
<1>6. CASE UNCHANGED vars
  <2>1. \A l \in Keys : \A m : Boundary(l, m) => Boundary(l, m)'
    BY <1>6 DEF vars, Boundary, Settled
  <2>2. \A l \in Keys : Unsettled(l)' = Unsettled(l)
    BY <1>2, <1>6, <2>1 DEF vars
  <2> QED  BY <2>2
<1> QED  BY <1>3, <1>4, <1>5, <1>6 DEF Next, Queue!Next

\* No call has been made.
LEMMA QueueInit == Init => Queue!Init
<1> SUFFICES ASSUME Init, NEW k \in Keys PROVE Unsettled(k) = <<>>
  BY DEF Queue!Init
<1>1. keyChains[k] = <<>> /\ Len(<<>>) = 0 /\ <<>> \in Seq(Calls)
  BY DEF Init
<1>2. Boundary(k, 0)
  BY <1>1 DEF Boundary
<1>3. Unsettled(k) = SubSeq(<<>>, 1, 0)
  BY <1>1, <1>2, InitInv, ChosenBoundary DEF Inv, QueueFromBoundary
<1> QED  BY <1>3, SubSeqEmpty

\* The promise chain implements a FIFO queue per key: a call enters at the back
\* and only the head leaves, whether its function returns or throws
\* (blocklist.js:32-44).
THEOREM ChainImplementsQueue == Spec => ChainIsQueue
<1>1. Inv => QueueFromBoundary
  BY ChosenBoundary DEF Inv
<1>2. Inv /\ Inv' /\ Bounded /\ [Next]_vars => Bounded'
  BY BoundedStep
<1>3. Inv /\ Inv' /\ Bounded /\ QueueFromBoundary /\ QueueFromBoundary' /\ [Next]_vars
        => Queue!Next \/ UNCHANGED [k \in Keys |-> Unsettled(k)]
  BY QueueStep
<1> QED
  BY <1>1, <1>2, <1>3, BoundedInit, QueueInit, Invariance, PTL
     DEF Spec, ChainIsQueue, Queue!Spec
=============================================================================
