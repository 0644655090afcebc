------------------------ MODULE GraphqlGuardProofs ------------------------
(***************************************************************************)
(* Theorems about GraphqlGuard, whatever a request may bring: the walk     *)
(* stops one step beyond a limit, the fragments it remembers are those on  *)
(* its path, and its verdict is true of the query written out.             *)
(***************************************************************************)
EXTENDS GraphqlGuard, SequenceTheorems, FiniteSetTheorems, TLAPS

\* The calls of walkSelectionSet, with what their sets and fragments are left
\* open: selection sets nest without end.
Frames(R, F) == [rest : R, depth : Nat, fragment : F]

\* The stack of calls is empty but for the walk, and no call is deeper than
\* what was seen.
Calling ==
    /\ \E R, F : stack \in Seq(Frames(R, F))
    /\ \A i \in DOMAIN stack : stack[i].depth <= maxDepthSeen
    /\ pc # "walk" => stack = <<>>

\* The loop of scan is at an operation, and the walk at a document.
Scanning ==
    /\ \A i \in DOMAIN operations :
           operations[i].form = "document" => NoFragment \notin DOMAIN operations[i].fragments
    /\ pc # "ended" => Len(operations) \in Nat /\ DOMAIN operations = 1..Len(operations)
    /\ pc # "ended" => at \in 1..Len(operations)
    /\ pc = "walk" => Operation.form = "document"

Inv == TypeOK /\ Calling /\ Scanning /\ SeenIsPath

-----------------------------------------------------------------------------
(* The calls                                                                *)

LEMMA StackFacts ==
  ASSUME NEW R, NEW F, NEW s \in Seq(Frames(R, F))
  PROVE  /\ Len(s) \in Nat /\ DOMAIN s = 1..Len(s)
         /\ \A i \in 1..Len(s) : s[i] \in Frames(R, F)
         /\ s # <<>> => Len(s) \in 1..Len(s)
<1>1. Len(s) \in Nat /\ DOMAIN s = 1..Len(s) /\ (\A i \in 1..Len(s) : s[i] \in Frames(R, F))
  BY LenProperties, ElementOfSeq
<1>2. s # <<>> => Len(s) # 0
  BY EmptySeq
<1> QED  BY <1>1, <1>2

\* The call that takes a selection keeps its depth and its fragment.
LEMMA TakenFacts ==
  ASSUME NEW R, NEW F, stack \in Seq(Frames(R, F)), stack # <<>>
  PROVE  /\ Taken \in Seq(Frames(R \cup {Tail(Top.rest)}, F))
         /\ Len(Taken) = Len(stack)
         /\ \A i \in 1..Len(stack) : /\ Taken[i].depth = stack[i].depth
                                     /\ Taken[i].fragment = stack[i].fragment
<1> DEFINE n == Len(stack)
           G == Frames(R \cup {Tail(Top.rest)}, F)
<1>1. n \in 1..n /\ n \in Nat /\ DOMAIN stack = 1..n /\ \A i \in 1..n : stack[i] \in Frames(R, F)
  BY StackFacts
<1>2. Taken = [i \in 1..n |-> IF i = n THEN [stack[n] EXCEPT !.rest = Tail(@)] ELSE stack[i]]
  BY <1>1 DEF Taken
<1> HIDE DEF n
<1>3. \A i \in 1..n : stack[i] \in G
  BY <1>1 DEF Frames
<1>4. [stack[n] EXCEPT !.rest = Tail(@)]
        = [rest |-> Tail(stack[n].rest), depth |-> stack[n].depth, fragment |-> stack[n].fragment]
  <2>1. PICK r \in R, d \in Nat, f \in F : stack[n] = [rest |-> r, depth |-> d, fragment |-> f]
    BY <1>1 DEF Frames
  <2> DEFINE rest == Tail(stack[n].rest)
  <2> HIDE DEF rest
  <2>2. [stack[n] EXCEPT !.rest = rest] = [rest |-> rest, depth |-> d, fragment |-> f]
    BY <2>1
  <2> QED  BY <2>1, <2>2 DEF rest
<1>5. /\ [stack[n] EXCEPT !.rest = Tail(@)] \in G
      /\ [stack[n] EXCEPT !.rest = Tail(@)].depth = stack[n].depth
      /\ [stack[n] EXCEPT !.rest = Tail(@)].fragment = stack[n].fragment
  <2>1. stack[n].depth \in Nat /\ stack[n].fragment \in F /\ Top = stack[n]
    BY <1>1 DEF Frames, Top, n
  <2> QED  BY <1>4, <2>1 DEF Frames
<1> HIDE DEF G
<1>6. \A i \in 1..n : Taken[i] \in G
  BY <1>1, <1>2, <1>3, <1>5
<1>7. \A i \in 1..n : Taken[i].depth = stack[i].depth /\ Taken[i].fragment = stack[i].fragment
  BY <1>1, <1>2, <1>5
<1>8. Taken \in Seq(G) /\ Len(Taken) = n
  <2>1. Taken = [i \in 1..n |-> Taken[i]]
    BY <1>2
  <2> QED  BY <1>1, <1>6, <2>1, IsASeq, LenProperties
<1> QED  BY <1>7, <1>8 DEF n, G

Frame(set, depth, fragment) == [rest |-> set, depth |-> depth, fragment |-> fragment]

LEMMA LargerFacts ==
  ASSUME NEW m \in Nat, NEW n \in Nat
  PROVE  /\ Larger(m, n) \in {m, n}
         /\ m <= Larger(m, n) /\ n <= Larger(m, n)
BY DEF Larger

-----------------------------------------------------------------------------
(* The walk                                                                 *)

\* What a step of the walk owes to the stack.
Stacked ==
    /\ Calling /\ SeenIsPath
    /\ maxDepthSeen \in 0..(MaxDepth + 1)
    /\ \A i \in DOMAIN stack : stack[i].depth \in 1..(MaxDepth + 1)

\* A selection that is passed over, or has no set (index.js:55, 72).
LEMMA PassingOver ==
  ASSUME Inv, stack # <<>>, stack' = Taken, pc' = "walk",
         maxDepthSeen' = maxDepthSeen, seenFragments' = seenFragments
  PROVE  Stacked'
<1>1. PICK R, F : stack \in Seq(Frames(R, F))
  BY DEF Inv, Calling
<1>2. Len(stack) \in Nat /\ DOMAIN stack = 1..Len(stack)
  BY <1>1, StackFacts
<1>3. /\ stack' \in Seq(Frames(R \cup {Tail(Top.rest)}, F))
      /\ Len(stack') = Len(stack)
      /\ \A i \in 1..Len(stack) : /\ stack'[i].depth = stack[i].depth
                                  /\ stack'[i].fragment = stack[i].fragment
  BY <1>1, TakenFacts
<1>4. DOMAIN stack' = DOMAIN stack
  BY <1>2, <1>3, LenProperties
<1>5. Calling'
  BY <1>2, <1>3, <1>4 DEF Calling, Inv
<1>6. SeenIsPath'
  <2>1. \A i \in DOMAIN stack : stack'[i].fragment = stack[i].fragment
    BY <1>2, <1>3
  <2>2. {stack'[i].fragment : i \in DOMAIN stack'} = {stack[i].fragment : i \in DOMAIN stack}
    BY <1>4, <2>1
  <2> QED  BY <1>4, <2>1, <2>2 DEF SeenIsPath, Inv
<1> QED  BY <1>2, <1>3, <1>4, <1>5, <1>6 DEF Stacked, Inv, TypeOK

\* A selection set that is entered within the limits: that of a field, one
\* level deeper, that of an inline fragment, or that of a fragment which is not
\* on the path yet (index.js:42-69).
LEMMA Entering ==
  ASSUME Inv, stack # <<>>, ~OverLimit, pc' = "walk",
         NEW set, NEW depth \in {Top.depth, Top.depth + 1},
         NEW fragment, Call(Taken, set, depth, fragment),
         \/ fragment = NoFragment /\ seenFragments' = seenFragments
         \/ /\ fragment # NoFragment /\ fragment \notin seenFragments
            /\ seenFragments' = seenFragments \cup {fragment}
  PROVE  Stacked'
<1> DEFINE n == Len(stack)
<1>1. PICK R, F : stack \in Seq(Frames(R, F))
  BY DEF Inv, Calling
<1>2. n \in Nat /\ DOMAIN stack = 1..n /\ n \in 1..n /\ stack[n] = Top
  BY <1>1, StackFacts DEF Top
<1>3. /\ Taken \in Seq(Frames(R \cup {Tail(Top.rest)}, F))
      /\ Len(Taken) = n
      /\ \A i \in 1..n : Taken[i].depth = stack[i].depth /\ Taken[i].fragment = stack[i].fragment
  BY <1>1, TakenFacts
<1> HIDE DEF n
<1>4. /\ maxDepthSeen \in Nat /\ maxDepthSeen <= MaxDepth /\ MaxDepth \in Nat
      /\ \A i \in 1..n : stack[i].depth \in 1..(MaxDepth + 1) /\ stack[i].depth <= maxDepthSeen
  <2>1. maxDepthSeen \in 0..(MaxDepth + 1) /\ MaxDepth \in Nat /\ ~(maxDepthSeen > MaxDepth)
    BY LimitsAssumption DEF Inv, TypeOK, OverLimit
  <2>2. \A i \in DOMAIN stack : stack[i].depth \in 1..(MaxDepth + 1)
    BY DEF Inv, TypeOK
  <2>3. \A i \in DOMAIN stack : stack[i].depth <= maxDepthSeen
    BY DEF Inv, Calling
  <2> QED  BY <1>2, <2>1, <2>2, <2>3
<1>5. depth \in 1..(MaxDepth + 1) /\ depth \in Nat
  <2>1. Top.depth \in 1..(MaxDepth + 1) /\ Top.depth <= MaxDepth
    BY <1>2, <1>4
  <2> QED  BY <1>4, <2>1
<1>6. /\ \E Q, G : stack' \in Seq(Frames(Q, G))
      /\ DOMAIN stack' = 1..(n + 1)
      /\ \A i \in 1..n : stack'[i] = Taken[i]
      /\ stack'[n + 1].depth = depth /\ stack'[n + 1].fragment = fragment
      /\ maxDepthSeen' \in Nat
      /\ maxDepthSeen <= maxDepthSeen' /\ depth <= maxDepthSeen'
      /\ \/ maxDepthSeen' = maxDepthSeen
         \/ maxDepthSeen' = depth
  <2>1. /\ stack' = Append(Taken, Frame(set, depth, fragment))
        /\ maxDepthSeen' = Larger(maxDepthSeen, depth)
    BY DEF Call, Frame
  <2>2. PICK Q, G, call :
               /\ Q = R \cup {Tail(Top.rest)} /\ G = Frames(Q \cup {set}, F \cup {fragment})
               /\ call = Frame(set, depth, fragment)
    OBVIOUS
  <2>3. call \in G /\ call.depth = depth /\ call.fragment = fragment /\ Frames(Q, F) \subseteq G
    <3>1. depth \in Nat
      BY <1>5
    <3>2. call.depth = depth /\ call.fragment = fragment
      BY <2>2 DEF Frame
    <3>3. Frames(Q, F) \subseteq G
      BY <2>2 DEF Frames
    <3>4. call \in G
      BY <2>2, <3>1 DEF Frame, Frames
    <3> QED  BY <3>2, <3>3, <3>4
  <2>4. /\ stack' \in Seq(G) /\ Len(stack') = n + 1
        /\ \A i \in 1..n : stack'[i] = Taken[i]
        /\ stack'[n + 1] = call
    <3>1. PICK calls : calls = Taken
      OBVIOUS
    <3>2. calls \in Seq(G) /\ Len(calls) = n /\ stack' = Append(calls, call)
      <4>1. calls \in Seq(Frames(Q, F)) /\ Len(calls) = n
        BY <1>3, <2>2, <3>1
      <4>2. calls \in Seq(G)
        BY <2>3, <4>1, SeqMonotonic
      <4> QED  BY <2>1, <2>2, <3>1, <4>1, <4>2
    <3> QED  BY <2>3, <3>1, <3>2, AppendProperties
  <2>6. DOMAIN stack' = 1..(n + 1) /\ \E P, H : stack' \in Seq(Frames(P, H))
    BY <2>2, <2>4, LenProperties
  <2>5. /\ maxDepthSeen' \in {maxDepthSeen, depth}
        /\ maxDepthSeen <= maxDepthSeen' /\ depth <= maxDepthSeen'
    BY <1>4, <1>5, <2>1, LargerFacts
  <2> QED  BY <1>4, <1>5, <2>3, <2>4, <2>5, <2>6
<1>7. /\ \A i \in 1..n : /\ stack'[i].depth = stack[i].depth
                         /\ stack'[i].fragment = stack[i].fragment
      /\ \A i \in 1..(n + 1) : i \in 1..n \/ i = n + 1
      /\ n + 1 \in 1..(n + 1) /\ n + 1 \notin 1..n /\ 1..n \subseteq 1..(n + 1)
  <2>1. \A i \in 1..n : /\ stack'[i].depth = stack[i].depth
                       /\ stack'[i].fragment = stack[i].fragment
    BY <1>3, <1>6
  <2> QED  BY <1>2, <2>1
<1>8. Calling'
  <2>1. ASSUME NEW i \in 1..n PROVE stack'[i].depth <= maxDepthSeen'
    <3>1. stack'[i].depth = stack[i].depth /\ stack[i].depth \in Nat
      BY <1>4, <1>7
    <3> QED  BY <1>4, <1>6, <3>1
  <2>2. \A i \in DOMAIN stack' : stack'[i].depth <= maxDepthSeen'
    BY <1>6, <1>7, <2>1
  <2> QED  BY <1>6, <2>2 DEF Calling
<1>9. SeenIsPath'
  <2>1. seenFragments = {stack[i].fragment : i \in 1..n} \ {NoFragment}
    BY <1>2 DEF Inv, SeenIsPath
  <2>2. {stack'[i].fragment : i \in 1..(n + 1)} = {stack[i].fragment : i \in 1..n} \cup {fragment}
    BY <1>6, <1>7
  <2>3. seenFragments' = {stack'[i].fragment : i \in DOMAIN stack'} \ {NoFragment}
    BY <1>6, <2>1, <2>2
  <2>4. ASSUME NEW i \in 1..(n + 1), NEW j \in 1..(n + 1),
               stack'[i].fragment = stack'[j].fragment, stack'[i].fragment # NoFragment
        PROVE  i = j
    <3>1. CASE i \in 1..n /\ j \in 1..n
      BY <1>2, <1>7, <2>4, <3>1 DEF Inv, SeenIsPath
    <3>2. ASSUME NEW k \in 1..n, stack'[k].fragment = fragment, fragment # NoFragment
          PROVE  FALSE
      BY <1>7, <2>1, <3>2
    <3> QED  BY <1>6, <1>7, <2>4, <3>1, <3>2
  <2> QED  BY <1>6, <2>3, <2>4 DEF SeenIsPath
<1>10. maxDepthSeen' \in 0..(MaxDepth + 1)
  BY <1>4, <1>5, <1>6
<1>11. \A i \in DOMAIN stack' : stack'[i].depth \in 1..(MaxDepth + 1)
  BY <1>4, <1>5, <1>6, <1>7
<1> QED  BY <1>8, <1>9, <1>10, <1>11 DEF Stacked

\* The call that returns takes its fragment off the path (index.js:59).
LEMMA Returning ==
  ASSUME Inv, Return
  PROVE  Stacked'
<1> DEFINE n == Len(stack)
<1>1. PICK R, F : stack \in Seq(Frames(R, F))
  BY DEF Inv, Calling
<1>2. /\ n \in Nat /\ DOMAIN stack = 1..n /\ n \in 1..n
      /\ \A i \in 1..n : stack[i] \in Frames(R, F)
  BY <1>1, StackFacts DEF Return
<1>3. /\ stack' = SubSeq(stack, 1, n - 1) /\ pc' = "walk" /\ maxDepthSeen' = maxDepthSeen
      /\ seenFragments' = seenFragments \ {stack[n].fragment}
  BY DEF Return, Top, seen
<1> HIDE DEF n
<1>4. /\ stack' \in Seq(Frames(R, F)) /\ Len(stack') = n - 1
      /\ \A i \in 1..(n - 1) : stack'[i] = stack[i]
  <2> DEFINE e == n - 1
             G == Frames(R, F)
  <2>1. e \in Nat /\ 1..e \subseteq 1..n /\ e - 1 + 1 = e /\ (1 <= e \/ e = 0)
        /\ \A i \in 1..e : 1 + i - 1 = i
    BY <1>2
  <2>2. \A i \in 1..e : stack[i] \in G
    BY <1>2, <2>1
  <2> HIDE DEF e, G
  <2>3. /\ SubSeq(stack, 1, e) \in Seq(G)
        /\ Len(SubSeq(stack, 1, e)) = IF 1 <= e THEN e - 1 + 1 ELSE 0
        /\ \A i \in 1..(e - 1 + 1) : SubSeq(stack, 1, e)[i] = stack[1 + i - 1]
    BY <2>1, <2>2, SubSeqProperties
  <2>4. Len(SubSeq(stack, 1, e)) = e /\ \A i \in 1..e : SubSeq(stack, 1, e)[i] = stack[i]
    BY <2>1, <2>3
  <2> QED  BY <1>3, <2>3, <2>4 DEF e, G
<1>5. DOMAIN stack' = 1..(n - 1) /\ 1..(n - 1) \subseteq 1..n /\ n \notin 1..(n - 1)
      /\ \A i \in 1..n : i \in 1..(n - 1) \/ i = n
  BY <1>2, <1>4, LenProperties
<1>6. Calling'
  BY <1>2, <1>3, <1>4, <1>5 DEF Calling, Inv
<1>7. SeenIsPath'
  <2>1. /\ seenFragments = {stack[i].fragment : i \in 1..n} \ {NoFragment}
        /\ \A i, j \in 1..n :
               stack[i].fragment = stack[j].fragment /\ stack[i].fragment # NoFragment => i = j
    BY <1>2 DEF Inv, SeenIsPath
  <2>2. seenFragments' = {stack'[i].fragment : i \in 1..(n - 1)} \ {NoFragment}
    <3>1. {stack'[i].fragment : i \in 1..(n - 1)} = {stack[i].fragment : i \in 1..(n - 1)}
      BY <1>4
    <3>2. \A i \in 1..(n - 1) :
             stack[i].fragment # NoFragment => stack[i].fragment # stack[n].fragment
      BY <1>2, <1>5, <2>1
    <3> QED  BY <1>2, <1>3, <1>5, <2>1, <3>1, <3>2
  <2> QED  BY <1>4, <1>5, <2>1, <2>2 DEF SeenIsPath
<1> QED
  BY <1>2, <1>3, <1>4, <1>5, <1>6, <1>7 DEF Stacked, Inv, TypeOK

-----------------------------------------------------------------------------
(* The invariant                                                            *)

LEMMA InvInit == Init => Inv
<1> SUFFICES ASSUME Init PROVE Inv
  OBVIOUS
<1>1. PICK payload \in Payloads :
          /\ operations = IF payload.form = "malformed" THEN <<>> ELSE Extracted(payload)
          /\ verdict = Screened(payload)
          /\ pc = IF Screened(payload) = "none" THEN "operation" ELSE "ended"
  BY DEF Init
<1>2. stack = <<>> /\ DOMAIN <<>> = {} /\ at = 1 /\ seenFragments = {}
  BY DEF Init
<1>3. TypeOK
  <2>1. /\ verdict \in {"none", "allow"} \cup Categories
        /\ pc \in {"operation", "walk", "ended"}
    <3>1. Screened(payload) \in {"none", "allow"} \cup Categories
      BY DEF Screened, Categories
    <3> QED  BY <1>1, <3>1
  <2>2. maxDepthSeen = 0 /\ fieldCount = 0 /\ introspectionUsed = FALSE
    BY DEF Init
  <2>3. maxDepthSeen \in 0..(MaxDepth + 1) /\ fieldCount \in 0..(MaxComplexity + 1)
    BY <2>2, LimitsAssumption
  <2>4. DOMAIN stack = {} /\ introspectionUsed \in BOOLEAN
    BY <1>2, <2>2
  <2> QED  BY <2>1, <2>3, <2>4 DEF TypeOK
<1>4. Calling
  <2>1. stack \in Seq(Frames({}, {}))
    BY <1>2
  <2> QED  BY <1>1, <1>2, <2>1 DEF Calling
<1>5. Scanning
  <2>1. CASE payload.form \in {"absent", "malformed"}
    <3>1. operations = <<>> /\ pc = "ended"
      BY <1>1, <2>1 DEF Screened, Extracted
    <3> QED  BY <1>2, <3>1 DEF Scanning
  <2>2. CASE payload.form \notin {"absent", "malformed"}
    <3>1. /\ operations = payload.operations
          /\ pc # "ended" => operations # <<>>
          /\ pc # "walk"
      BY <1>1, <2>2 DEF Extracted, Screened
    <3>2. /\ operations \in Seq({operations[i] : i \in DOMAIN operations})
          /\ \A i \in DOMAIN operations :
                operations[i].form = "document" => NoFragment \notin DOMAIN operations[i].fragments
      BY <2>2, <3>1, PayloadsAssumption
    <3>3. Len(operations) \in Nat /\ DOMAIN operations = 1..Len(operations)
      BY <3>2, LenProperties
    <3>4. operations # <<>> => Len(operations) # 0
      BY <3>2, EmptySeq
    <3> QED  BY <1>2, <3>1, <3>2, <3>3, <3>4 DEF Scanning
  <2> QED  BY <2>1, <2>2
<1>6. SeenIsPath
  BY <1>2 DEF SeenIsPath
<1> QED  BY <1>3, <1>4, <1>5, <1>6 DEF Inv

LEMMA InvNext == Inv /\ [Next]_vars => Inv'
<1> SUFFICES ASSUME Inv, [Next]_vars PROVE Inv'
  OBVIOUS
<1>1. TypeOK /\ Calling /\ Scanning /\ SeenIsPath
  BY DEF Inv
\* A step of the walk that leaves the operations alone.
<1>2. ASSUME pc = "walk", Stacked', pc' = "walk",
             UNCHANGED <<operations, at, verdict>>,
             fieldCount' \in 0..(MaxComplexity + 1), introspectionUsed' \in BOOLEAN
      PROVE  Inv'
  <2>1. Scanning'
    BY <1>1, <1>2 DEF Scanning, Operation
  <2> QED  BY <1>1, <1>2, <2>1 DEF Inv, Stacked, TypeOK
\* A step of the loop, with no call on the stack before or after it.
<1>3. ASSUME stack = <<>>, stack' = <<>>, seenFragments' = {}, maxDepthSeen' \in 0..(MaxDepth + 1)
      PROVE  /\ Calling' /\ SeenIsPath'
             /\ \A i \in DOMAIN stack' : stack'[i].depth \in 1..(MaxDepth + 1)
  <2>1. stack' \in Seq(Frames({}, {})) /\ DOMAIN stack' = {}
    BY <1>3
  <2> QED  BY <1>3, <2>1 DEF Calling, SeenIsPath
<1>4. stack = <<>> => seenFragments = {}
  BY <1>1 DEF SeenIsPath
<1>5. CASE Malformed
  <2>1. stack = <<>> /\ stack' = <<>> /\ seenFragments' = {} /\ pc' = "ended"
    BY <1>1, <1>4, <1>5 DEF Malformed, End, Calling
  <2>2. Scanning'
    BY <1>1, <1>5, <2>1 DEF Malformed, Scanning
  <2>3. TypeOK'
    BY <1>1, <1>3, <1>5, <2>1 DEF Malformed, End, TypeOK, Categories, seen
  <2> QED  BY <1>3, <2>1, <2>2, <2>3 DEF Inv, TypeOK
<1>6. CASE Analyze
  <2>1. stack = <<>> /\ stack' = <<>> /\ seenFragments' = {} /\ maxDepthSeen' = 0
    BY <1>1, <1>6 DEF Analyze, Calling
  <2>2. Scanning'
    BY <1>1, <1>6 DEF Analyze, Scanning, Operation
  <2>3. TypeOK'
    <3>1. /\ pc' = "walk" /\ verdict' = verdict /\ fieldCount' = 0
          /\ introspectionUsed' = FALSE
      BY <1>6 DEF Analyze
    <3>2. /\ maxDepthSeen' \in 0..(MaxDepth + 1)
          /\ fieldCount' \in 0..(MaxComplexity + 1)
      BY <2>1, <3>1, LimitsAssumption
    <3>3. \A i \in DOMAIN stack' : stack'[i].depth \in 1..(MaxDepth + 1)
      BY <1>3, <2>1, <3>2
    <3> QED  BY <1>1, <3>1, <3>2, <3>3 DEF TypeOK
  <2>4. Calling' /\ SeenIsPath'
    BY <1>3, <2>1, <2>3 DEF TypeOK
  <2> QED  BY <2>2, <2>3, <2>4 DEF Inv
<1>7. CASE WalkDefinition
  <2>1. /\ stack' = <<[rest |-> Head(definitions), depth |-> 1, fragment |-> NoFragment]>>
        /\ maxDepthSeen' = Larger(maxDepthSeen, 1)
    BY <1>7 DEF WalkDefinition, Call
  <2>2. /\ \E R, F : stack' \in Seq(Frames(R, F))
        /\ DOMAIN stack' = 1..1
        /\ stack'[1].depth = 1 /\ stack'[1].fragment = NoFragment
        /\ maxDepthSeen' \in {maxDepthSeen, 1} /\ maxDepthSeen' \in Nat /\ 1 <= maxDepthSeen'
    <3>1. maxDepthSeen \in Nat
      BY <1>1, LimitsAssumption DEF TypeOK
    <3>2. PICK call : call = [rest |-> Head(definitions), depth |-> 1, fragment |-> NoFragment]
      OBVIOUS
    <3>3. call \in Frames({Head(definitions)}, {NoFragment})
      BY <3>2 DEF Frames
    <3>4. stack' \in Seq(Frames({Head(definitions)}, {NoFragment}))
      BY <2>1, <3>2, <3>3
    <3>5. DOMAIN stack' = 1..1 /\ stack'[1] = call
      BY <2>1, <3>2
    <3>6. /\ maxDepthSeen' \in {maxDepthSeen, 1} /\ maxDepthSeen' \in Nat
          /\ 1 <= maxDepthSeen'
      BY <2>1, <3>1, LargerFacts
    <3> QED  BY <3>2, <3>4, <3>5, <3>6
  <2>3. seenFragments' = {} /\ pc = "walk" /\ pc' = "walk"
    BY <1>4, <1>7 DEF WalkDefinition
  <2>4. Calling' /\ SeenIsPath'
    <3>1. \A i \in DOMAIN stack' : i = 1
      BY <2>2
    <3>2. Calling'
      BY <2>2, <2>3, <3>1 DEF Calling
    <3>3. {stack'[i].fragment : i \in DOMAIN stack'} = {NoFragment}
      BY <2>2, <3>1
    <3> QED  BY <2>3, <3>1, <3>2, <3>3 DEF SeenIsPath
  <2>5. Stacked'
    <3>1. MaxDepth \in Nat /\ maxDepthSeen \in 0..(MaxDepth + 1)
      BY <1>1, LimitsAssumption DEF TypeOK
    <3>2. maxDepthSeen' \in 0..(MaxDepth + 1)
      BY <2>2, <3>1
    <3>3. \A i \in DOMAIN stack' : stack'[i].depth \in 1..(MaxDepth + 1)
      BY <2>2, <3>1
    <3> QED  BY <2>4, <3>2, <3>3 DEF Stacked
  <2> QED  BY <1>1, <1>2, <1>7, <2>3, <2>5 DEF WalkDefinition, TypeOK
<1>8. CASE SelectField
  <2>1. /\ pc = "walk" /\ pc' = "walk" /\ stack # <<>> /\ ~OverLimit
        /\ UNCHANGED <<operations, at, verdict, seenFragments>>
    BY <1>8 DEF SelectField, Selecting
  <2>2. fieldCount' \in 0..(MaxComplexity + 1)
    <3>1. fieldCount' = fieldCount + 1 /\ ~(fieldCount > MaxComplexity)
      BY <1>8, <2>1 DEF SelectField, OverLimit
    <3>2. MaxComplexity \in Nat /\ fieldCount \in 0..(MaxComplexity + 1)
      BY <1>1, LimitsAssumption DEF TypeOK
    <3> QED  BY <3>1, <3>2
  <2>3. introspectionUsed' \in BOOLEAN
    BY <1>8 DEF SelectField
  <2>4. CASE Selection.set # <<>>
    <3>1. Call(Taken, Selection.set, Top.depth + 1, NoFragment)
      BY <1>8, <2>4 DEF SelectField
    <3>2. Stacked'
      <4> DEFINE set == Selection.set
                 depth == Top.depth + 1
      <4> HIDE DEF set, depth
      <4>1. Call(Taken, set, depth, NoFragment)
        BY <3>1 DEF set, depth
      <4>2. depth \in {Top.depth, Top.depth + 1}
        BY DEF depth
      <4> QED  BY <2>1, <4>1, <4>2, Entering
    <3> QED  BY <1>2, <2>1, <2>2, <2>3, <3>2
  <2>5. CASE Selection.set = <<>>
    <3>1. stack' = Taken /\ maxDepthSeen' = maxDepthSeen
      BY <1>8, <2>5 DEF SelectField
    <3>2. Stacked'
      BY <2>1, <3>1, PassingOver
    <3> QED  BY <1>2, <2>1, <2>2, <2>3, <3>2
  <2> QED  BY <2>4, <2>5
<1>9. CASE SelectInline
  <2>1. /\ pc = "walk" /\ pc' = "walk" /\ stack # <<>> /\ ~OverLimit
        /\ UNCHANGED <<operations, at, verdict, seenFragments, fieldCount, introspectionUsed>>
        /\ Call(Taken, Selection.set, Top.depth, NoFragment)
    BY <1>9 DEF SelectInline, Selecting
  <2>2. Stacked'
    <3> DEFINE set == Selection.set
    <3> HIDE DEF set
    <3>1. Call(Taken, set, Top.depth, NoFragment)
      BY <2>1 DEF set
    <3> QED  BY <2>1, <3>1, Entering
  <2> QED  BY <1>1, <1>2, <2>1, <2>2 DEF TypeOK
<1>10. CASE SelectSpread
  <2>1. /\ pc = "walk" /\ pc' = "walk" /\ stack # <<>> /\ ~OverLimit
        /\ UNCHANGED <<operations, at, verdict, fieldCount, introspectionUsed>>
    BY <1>10 DEF SelectSpread, Selecting
  <2>2. CASE MayEnter(Selection.name)
    <3> DEFINE name == Selection.name
               set == Operation.fragments[Selection.name]
    <3>1. /\ name \in DOMAIN Operation.fragments /\ name \notin seenFragments
          /\ seenFragments' = seenFragments \cup {name}
          /\ Call(Taken, set, Top.depth, name)
      BY <1>10, <2>2 DEF SelectSpread, MayEnter, Defined
    <3>2. name # NoFragment
      BY <1>1, <2>1, <3>1 DEF Scanning, Operation
    <3> HIDE DEF name, set
    <3>3. Stacked'
      BY <2>1, <3>1, <3>2, Entering
    <3> QED  BY <1>1, <1>2, <2>1, <3>3 DEF TypeOK
  <2>3. CASE ~MayEnter(Selection.name)
    <3>1. stack' = Taken /\ UNCHANGED <<seenFragments, maxDepthSeen>>
      BY <1>10, <2>3 DEF SelectSpread
    <3>2. Stacked'
      BY <2>1, <3>1, PassingOver
    <3> QED  BY <1>1, <1>2, <2>1, <3>2 DEF TypeOK
  <2> QED  BY <2>2, <2>3
<1>11. CASE Return
  <2>1. /\ pc = "walk" /\ pc' = "walk"
        /\ UNCHANGED <<operations, at, verdict, fieldCount, introspectionUsed>>
    BY <1>11 DEF Return, seen
  <2> QED  BY <1>1, <1>2, <1>11, <2>1, Returning DEF TypeOK
<1>12. CASE Conclude
  <2>1. /\ pc = "walk" /\ stack = <<>> /\ stack' = <<>> /\ seenFragments' = {}
        /\ UNCHANGED <<operations, seen>>
    BY <1>4, <1>12 DEF Conclude
  <2>2. CASE Result = "allow" /\ at < Len(operations)
    <3>1. pc' = "operation" /\ at' = at + 1 /\ verdict' = verdict
      BY <1>12, <2>2 DEF Conclude
    <3>2. Scanning'
      <4>1. /\ Len(operations) \in Nat /\ DOMAIN operations = 1..Len(operations)
            /\ at \in 1..Len(operations) /\ operations' = operations
        BY <1>1, <2>1 DEF Scanning
      <4>2. at' \in 1..Len(operations)
        BY <2>2, <3>1, <4>1
      <4> QED  BY <1>1, <3>1, <4>1, <4>2 DEF Scanning
    <3>3. TypeOK'
      BY <1>1, <1>3, <2>1, <3>1 DEF TypeOK, seen
    <3> QED  BY <1>1, <1>3, <2>1, <3>2, <3>3 DEF Inv, TypeOK, seen
  <2>3. CASE ~(Result = "allow" /\ at < Len(operations))
    <3>1. pc' = "ended" /\ verdict' = Result
      BY <1>12, <2>3 DEF Conclude, End
    <3>2. Scanning'
      BY <1>1, <2>1, <3>1 DEF Scanning
    <3>3. TypeOK'
      BY <1>1, <1>3, <2>1, <3>1 DEF TypeOK, seen, Result, Categories
    <3> QED  BY <1>1, <1>3, <2>1, <3>2, <3>3 DEF Inv, TypeOK, seen
  <2> QED  BY <2>2, <2>3
<1>13. CASE UNCHANGED vars
  BY <1>1, <1>13
     DEF vars, seen, Inv, TypeOK, Calling, Scanning, SeenIsPath, Operation
<1> QED
  BY <1>5, <1>6, <1>7, <1>8, <1>9, <1>10, <1>11, <1>12, <1>13 DEF Next

LEMMA Invariance == Spec => []Inv
  BY InvInit, InvNext, PTL DEF Spec

\* The walk looks at one level, or one field, beyond a limit and no further,
\* whatever the query (index.js:43, 63).
THEOREM TypeCorrect == Spec => []TypeOK
<1>1. Inv => TypeOK
  BY DEF Inv
<1> QED  BY <1>1, Invariance, PTL

\* The fragments that are remembered are those on the path of the walk, each of
\* them once, whatever spreads whatever (index.js:38, 55-59).
THEOREM PathIsSeen == Spec => []SeenIsPath
<1>1. Inv => SeenIsPath
  BY DEF Inv
<1> QED  BY <1>1, Invariance, PTL

-----------------------------------------------------------------------------
(* The query written out                                                    *)

\* What holds at 0, and at n + 1 where it holds at n, holds everywhere.
LEMMA SetInduction ==
  ASSUME NEW S, 0 \in S, \A n \in Nat : n \in S => n + 1 \in S
  PROVE  \A n \in Nat : n \in S
<1> DEFINE T == Nat \ S
           Less == OpToRel(<, Nat)
<1>1. IsWellFoundedOn(Less, Nat)
  BY NatLessThanWellFounded, Zenon
<1>2. Less = {pair \in Nat \X Nat : pair[1] < pair[2]}
  BY Zenon DEF OpToRel
<1>3. \A m, n \in Nat : m < n => <<m, n>> \in Less
  BY <1>2
<1> HIDE DEF Less
<1>4. SUFFICES ASSUME T # {} PROVE FALSE
  OBVIOUS
<1>5. T \subseteq Nat
  OBVIOUS
<1> HIDE DEF T
<1>6. PICK n \in T : \A m \in T : <<m, n>> \notin Less
  BY <1>1, <1>4, <1>5, WFMin
<1>7. n \in Nat /\ n # 0
  BY <1>5, <1>6 DEF T
<1>8. n - 1 \in Nat /\ n - 1 < n /\ (n - 1) + 1 = n
  BY <1>7
<1>9. n - 1 \in T
  BY <1>6, <1>7, <1>8 DEF T
<1> QED  BY <1>3, <1>6, <1>7, <1>8, <1>9

\* The places up to n selections below the definitions.
PlacesTo(op, upTo, n) == IF n = 0 THEN Roots(op) ELSE AndBelow(op, upTo[n - 1])

\* The recursion of Places defines a function.
LEMMA PlacesDefined ==
  ASSUME NEW op
  PROVE  \E upTo : /\ \A n \in 0..Longest : upTo[n] = PlacesTo(op, upTo, n)
                   /\ Places(op) = upTo[Longest]
<1> DEFINE Is(n, upTo) == upTo = [m \in 0..n |-> PlacesTo(op, upTo, m)]
           S == {n \in Nat : \E upTo : Is(n, upTo)}
<1>1. 0 \in S
  <2>1. Is(0, [m \in 0..0 |-> Roots(op)])
    BY DEF PlacesTo
  <2> QED  BY <2>1
<1>2. ASSUME NEW n \in Nat, n \in S PROVE n + 1 \in S
  <2>1. PICK upTo : Is(n, upTo)
    BY <1>2
  <2> DEFINE more == [m \in 0..(n + 1) |->
                         IF m = n + 1 THEN PlacesTo(op, upTo, m) ELSE upTo[m]]
  <2>2. ASSUME NEW m \in 0..(n + 1) PROVE more[m] = PlacesTo(op, more, m)
    <3>1. m # 0 => m - 1 \in 0..(n + 1) /\ m - 1 # n + 1 /\ more[m - 1] = upTo[m - 1]
      OBVIOUS
    <3>2. PlacesTo(op, more, m) = PlacesTo(op, upTo, m)
      <4> HIDE DEF more
      <4> QED  BY <3>1 DEF PlacesTo
    <3>3. CASE m = n + 1
      BY <3>2, <3>3
    <3>4. CASE m # n + 1
      <4>1. m \in 0..n /\ more[m] = upTo[m]
        BY <3>4
      <4> QED  BY <2>1, <3>2, <4>1
    <3> QED  BY <3>3, <3>4
  <2>3. Is(n + 1, more)
    <3>1. more = [m \in 0..(n + 1) |-> more[m]]
      OBVIOUS
    <3> HIDE DEF more
    <3> QED  BY <2>2, <3>1
  <2> HIDE DEF more, Is
  <2> QED  BY <2>3
<1>3. \E upTo : Is(Longest, upTo)
  <2> HIDE DEF S
  <2>1. \A n \in Nat : n \in S
    BY <1>1, <1>2, SetInduction
  <2> QED  BY <2>1, LongestAssumption DEF S
<1> DEFINE chosen == CHOOSE upTo : Is(Longest, upTo)
<1>4. Is(Longest, chosen)
  BY <1>3, Zenon
<1>5. Places(op) = chosen[Longest]
  BY DEF Places, PlacesTo
<1> HIDE DEF chosen
<1> QED  BY <1>4, <1>5

\* Below adds up.
LEMMA BelowMonotonic ==
  ASSUME NEW op, NEW P, NEW Q, P \subseteq Q
  PROVE  Below(op, P) \subseteq Below(op, Q)
  BY DEF Below

\* Every definition's set is a place.
LEMMA RootsArePlaces ==
  ASSUME NEW op
  PROVE  Roots(op) \subseteq Places(op)
<1>1. PICK upTo : /\ \A n \in 0..Longest : upTo[n] = PlacesTo(op, upTo, n)
                  /\ Places(op) = upTo[Longest]
  BY PlacesDefined
<1> DEFINE S == {n \in Nat : n <= Longest => Roots(op) \subseteq upTo[n]}
<1>2. 0 \in S
  BY <1>1, LongestAssumption DEF PlacesTo
<1>3. ASSUME NEW n \in Nat, n \in S PROVE n + 1 \in S
  <2>1. CASE n + 1 <= Longest
    <3>1. n + 1 \in 0..Longest /\ n + 1 # 0 /\ (n + 1) - 1 = n /\ n <= Longest
      BY <2>1, LongestAssumption
    <3>2. upTo[n + 1] = AndBelow(op, upTo[n])
      BY <1>1, <3>1 DEF PlacesTo
    <3> QED  BY <1>3, <3>1, <3>2 DEF AndBelow
  <2> QED  BY <2>1
<1> HIDE DEF S
<1>4. Longest \in S
  BY <1>2, <1>3, LongestAssumption, SetInduction
<1> QED  BY <1>1, <1>4, LongestAssumption DEF S

\* What holds of the definitions' sets, and of whatever is below a set that it
\* holds of, holds of every place.
LEMMA PlacesInduction ==
  ASSUME NEW op, NEW T, Roots(op) \subseteq T, Below(op, T) \subseteq T
  PROVE  Places(op) \subseteq T
<1>1. PICK upTo : /\ \A n \in 0..Longest : upTo[n] = PlacesTo(op, upTo, n)
                  /\ Places(op) = upTo[Longest]
  BY PlacesDefined
<1> DEFINE S == {n \in Nat : n <= Longest => upTo[n] \subseteq T}
<1>2. 0 \in S
  BY <1>1, LongestAssumption DEF PlacesTo
<1>3. ASSUME NEW n \in Nat, n \in S PROVE n + 1 \in S
  <2>1. CASE n + 1 <= Longest
    <3>1. n + 1 \in 0..Longest /\ n + 1 # 0 /\ (n + 1) - 1 = n /\ n <= Longest
      BY <2>1, LongestAssumption
    <3>2. upTo[n + 1] = AndBelow(op, upTo[n]) /\ upTo[n] \subseteq T
      BY <1>1, <1>3, <3>1 DEF PlacesTo
    <3>3. Below(op, upTo[n]) \subseteq T
      BY <3>2, BelowMonotonic
    <3> QED  BY <3>2, <3>3 DEF AndBelow
  <2> QED  BY <2>1
<1> HIDE DEF S
<1>4. Longest \in S
  BY <1>2, <1>3, LongestAssumption, SetInduction
<1> QED  BY <1>1, <1>4, LongestAssumption DEF S

\* A place is the set of a definition, or of a selection of another place.
LEMMA Origins ==
  ASSUME NEW op, Finite(op), NEW p \in Places(op)
  PROVE  \/ p \in Roots(op)
         \/ \E q \in Places(op) : \E i \in Leading(op, q) : p = Within(op, q, i)
<1> DEFINE From(r) == \E q \in Places(op) : \E i \in Leading(op, q) : r = Within(op, q, i)
           T == {r \in Places(op) : r \in Roots(op) \/ From(r)}
<1>1. Roots(op) \subseteq T
  BY RootsArePlaces
<1>2. Below(op, T) \subseteq T
  <2>1. Below(op, T) \subseteq Places(op)
    <3>1. T \subseteq Places(op)
      OBVIOUS
    <3> HIDE DEF T
    <3> QED  BY <3>1, BelowMonotonic DEF Finite
  <2>2. ASSUME NEW r \in Below(op, T) PROVE From(r)
    BY DEF Below
  <2> QED  BY <2>1, <2>2
<1> HIDE DEF T, From
<1>3. p \in T
  BY <1>1, <1>2, PlacesInduction
<1> QED  BY <1>3 DEF T, From

LEMMA ImageFinite ==
  ASSUME NEW S, IsFiniteSet(S), NEW f, f = [x \in S |-> f[x]]
  PROVE  IsFiniteSet({f[x] : x \in S})
<1> DEFINE T == {f[x] : x \in S}
<1>1. f \in Surjection(S, T)
  BY DEF Surjection
<1> HIDE DEF T
<1>2. IsFiniteSet(T)
  BY <1>1, FS_Surjection
<1> QED  BY <1>2 DEF T

\* The selections of a place are numbered.
LEMMA SetOfPlace ==
  ASSUME NEW op, Finite(op), NEW q \in Places(op)
  PROVE  /\ Len(q.set) \in Nat /\ DOMAIN q.set = 1..Len(q.set) /\ IsFiniteSet(DOMAIN q.set)
         /\ q.set \in Seq({q.set[i] : i \in DOMAIN q.set})
<1>1. q.set \in Seq({q.set[i] : i \in DOMAIN q.set})
  BY DEF Finite
<1>2. Len(q.set) \in Nat /\ DOMAIN q.set = 1..Len(q.set)
  BY <1>1, LenProperties
<1>3. IsFiniteSet(1..Len(q.set))
  BY <1>2, FS_Interval
<1> QED  BY <1>1, <1>2, <1>3

\* What is below finitely many places are finitely many.
LEMMA BelowFinite ==
  ASSUME NEW op, Finite(op), NEW P, P \subseteq Places(op), IsFiniteSet(P)
  PROVE  IsFiniteSet(Below(op, P))
<1> DEFINE under == [q \in P |-> {Within(op, q, i) : i \in Leading(op, q)}]
<1>1. ASSUME NEW q \in P PROVE IsFiniteSet(under[q])
  <2> DEFINE L == Leading(op, q)
             f == [i \in L |-> Within(op, q, i)]
  <2>1. IsFiniteSet(L)
    <3>1. L \subseteq DOMAIN q.set
      BY DEF Leading
    <3> HIDE DEF L
    <3> QED  BY <3>1, SetOfPlace, FS_Subset
  <2>2. under[q] = {f[i] : i \in L}
    OBVIOUS
  <2>3. f = [i \in L |-> f[i]]
    OBVIOUS
  <2> HIDE DEF L, f, under
  <2> QED  BY <2>1, <2>2, <2>3, ImageFinite
<1>2. Below(op, P) = UNION {under[q] : q \in P}
  BY DEF Below
<1>3. under = [q \in P |-> under[q]]
  OBVIOUS
<1> HIDE DEF under
<1>4. IsFiniteSet({under[q] : q \in P})
  BY <1>3, ImageFinite
<1>5. \A T \in {under[q] : q \in P} : IsFiniteSet(T)
  BY <1>1
<1> QED  BY <1>2, <1>4, <1>5, FS_UNION

\* A document has finitely many places.
LEMMA PlacesFinite ==
  ASSUME NEW op, Finite(op)
  PROVE  IsFiniteSet(Places(op))
<1>1. PICK upTo : /\ \A n \in 0..Longest : upTo[n] = PlacesTo(op, upTo, n)
                  /\ Places(op) = upTo[Longest]
  BY PlacesDefined
<1> DEFINE S == {n \in Nat : n <= Longest => IsFiniteSet(upTo[n]) /\ upTo[n] \subseteq Places(op)}
<1>2. IsFiniteSet(Roots(op))
  <2> DEFINE D == DOMAIN op.definitions
             f == [i \in D |-> [from |-> <<i>>, set |-> op.definitions[i], depth |-> 1, on |-> {}]]
  <2>1. IsFiniteSet(D)
    <3>1. op.definitions \in Seq({q.set : q \in Roots(op)})
      BY DEF Finite
    <3>2. Len(op.definitions) \in Nat /\ D = 1..Len(op.definitions)
      BY <3>1, LenProperties
    <3>3. IsFiniteSet(1..Len(op.definitions))
      BY <3>2, FS_Interval
    <3> QED  BY <3>2, <3>3
  <2>2. Roots(op) = {f[i] : i \in D}
    BY DEF Roots
  <2>3. f = [i \in D |-> f[i]]
    OBVIOUS
  <2> HIDE DEF D, f
  <2> QED  BY <2>1, <2>2, <2>3, ImageFinite
<1>3. 0 \in S
  BY <1>1, <1>2, LongestAssumption, RootsArePlaces DEF PlacesTo
<1>4. ASSUME NEW n \in Nat, n \in S PROVE n + 1 \in S
  <2>1. CASE n + 1 <= Longest
    <3>1. n + 1 \in 0..Longest /\ n + 1 # 0 /\ (n + 1) - 1 = n /\ n <= Longest
      BY <2>1, LongestAssumption
    <3>2. upTo[n + 1] = upTo[n] \cup Below(op, upTo[n])
      BY <1>1, <3>1 DEF PlacesTo, AndBelow
    <3>3. IsFiniteSet(upTo[n]) /\ upTo[n] \subseteq Places(op)
      BY <1>4, <3>1
    <3>4. IsFiniteSet(Below(op, upTo[n])) /\ Below(op, upTo[n]) \subseteq Places(op)
      <4>1. Below(op, upTo[n]) \subseteq Below(op, Places(op))
        BY <3>3, BelowMonotonic
      <4>2. Below(op, Places(op)) \subseteq Places(op)
        BY DEF Finite
      <4> QED  BY <3>3, <4>1, <4>2, BelowFinite
    <3>5. IsFiniteSet(upTo[n] \cup Below(op, upTo[n]))
      <4> DEFINE A == upTo[n]
                 B == Below(op, upTo[n])
      <4>1. IsFiniteSet(A) /\ IsFiniteSet(B)
        BY <3>3, <3>4
      <4> HIDE DEF A, B
      <4>2. IsFiniteSet(A \cup B)
        BY <4>1, FS_Union
      <4> QED  BY <4>2 DEF A, B
    <3> QED  BY <3>2, <3>3, <3>4, <3>5
  <2> QED  BY <2>1
<1> HIDE DEF S
<1>5. Longest \in S
  BY <1>3, <1>4, LongestAssumption, SetInduction
<1> QED  BY <1>1, <1>5, LongestAssumption DEF S

\* And finitely many fields.
LEMMA FieldsFinite ==
  ASSUME NEW op, Finite(op)
  PROVE  IsFiniteSet(Fields(op))
<1> DEFINE P == Places(op)
           of == [q \in P |-> {<<q, i>> : i \in DOMAIN q.set}]
<1>1. ASSUME NEW q \in P PROVE IsFiniteSet(of[q])
  <2> DEFINE D == DOMAIN q.set
             f == [i \in D |-> <<q, i>>]
  <2>1. IsFiniteSet(D)
    BY SetOfPlace
  <2>2. of[q] = {f[i] : i \in D}
    OBVIOUS
  <2>3. f = [i \in D |-> f[i]]
    OBVIOUS
  <2> HIDE DEF D, f, of
  <2> QED  BY <2>1, <2>2, <2>3, ImageFinite
<1>2. Selections(op) = UNION {of[q] : q \in P}
  BY DEF Selections
<1>3. of = [q \in P |-> of[q]] /\ IsFiniteSet(P)
  BY PlacesFinite
<1> HIDE DEF of, P
<1>4. IsFiniteSet({of[q] : q \in P})
  BY <1>3, ImageFinite
<1>5. \A T \in {of[q] : q \in P} : IsFiniteSet(T)
  BY <1>1
<1>6. IsFiniteSet(Selections(op))
  BY <1>2, <1>4, <1>5, FS_UNION
<1>7. Fields(op) \subseteq Selections(op)
  BY DEF Fields
<1> QED  BY <1>6, <1>7, FS_Subset

-----------------------------------------------------------------------------
(* The walk over the query written out.  The calls on the stack walk a      *)
(* trail t of places, of whose sets they have taken the first k selections; *)
(* done holds the definitions and the selections that were taken so far.    *)

OnPath(st, n) == {st[i].fragment : i \in 1..n} \ {NoFragment}

WalksPlace(op, st, j, q, m) ==
    /\ q \in Places(op)
    /\ m \in 0..Len(q.set)
    /\ st[j].rest = SubSeq(q.set, m + 1, Len(q.set))
    /\ st[j].depth = q.depth
    /\ q.on = OnPath(st, j)

Tracks(op, st, n, t, k, done) ==
    /\ \A j \in 1..n : WalksPlace(op, st, j, t[j], k[j])
    /\ \A i, j \in 1..n : t[i] = t[j] => i = j
    /\ \A j \in 1..n : t[j].from \in done
    /\ \A j \in 1..n : \A i \in DOMAIN t[j].set : <<t[j], i>> \in done <=> i <= k[j]
    /\ \A q \in Places(op) : \A i \in DOMAIN q.set : <<q, i>> \in done => q.from \in done

\* A place that was entered and left is walked.
Completed(op, n, t, done) ==
    \A q \in Places(op) : q.from \in done =>
        (\E j \in 1..n : q = t[j]) \/ \A i \in DOMAIN q.set : <<q, i>> \in done

\* The first d definitions were walked.
Begun(op, defs, d, done) ==
    /\ d \in 0..Len(op.definitions)
    /\ defs = SubSeq(op.definitions, d + 1, Len(op.definitions))
    /\ \A i \in DOMAIN op.definitions : <<i>> \in done <=> i <= d

\* The counters say what is done.
Counted(op, done, deepest, count, used) ==
    /\ \A q \in Places(op) : q.from \in done => q.depth <= deepest
    /\ deepest = 0 \/ \E q \in Places(op) : q.depth = deepest
    /\ count = Cardinality(Fields(op) \cap done)
    /\ used <=> \E x \in Fields(op) \cap done : x[1].set[x[2]].name = "__schema"

Over(deepest, count) == deepest > MaxDepth \/ count > MaxComplexity

Walks(op, st, n, defs, deepest, count, used) ==
    \E t, k, done, d :
        /\ Tracks(op, st, n, t, k, done)
        /\ Begun(op, defs, d, done)
        /\ Counted(op, done, deepest, count, used)
        /\ ~Over(deepest, count) => Completed(op, n, t, done)

\* What is left of a sequence of which the first k elements are taken.
LEMMA RestFacts ==
  ASSUME NEW S, NEW s \in Seq(S), NEW k \in 0..Len(s),
         NEW r, r = SubSeq(s, k + 1, Len(s))
  PROVE  /\ r = <<>> <=> k = Len(s)
         /\ r # <<>> => /\ k + 1 \in 1..Len(s)
                        /\ Head(r) = s[k + 1]
                        /\ Tail(r) = SubSeq(s, (k + 1) + 1, Len(s))
<1>1. Len(s) \in Nat /\ DOMAIN s = 1..Len(s) /\ k \in Nat
  BY LenProperties
<1>2. CASE k = Len(s)
  <2>1. r = <<>>
    BY <1>1, <1>2, SubSeqEmpty
  <2> QED  BY <1>2, <2>1
<1>3. CASE k # Len(s)
  <2>1. k + 1 \in 1..Len(s) /\ k + 1 <= Len(s) /\ Len(s) \in 1..Len(s)
    <3> DEFINE n == Len(s)
    <3>1. n \in Nat /\ k \in 0..n /\ k # n
      BY <1>1, <1>3
    <3> HIDE DEF n
    <3>2. k + 1 \in 1..n /\ k + 1 <= n /\ n \in 1..n
      BY <3>1
    <3> QED  BY <3>2 DEF n
  <2>2. /\ Head(r) = s[k + 1]
        /\ Tail(r) = SubSeq(s, (k + 1) + 1, Len(s))
    BY <1>1, <2>1, HeadTailOfSubSeq
  <2>3. r # <<>>
    <3> DEFINE n == Len(s)
               m == k + 1
    <3>1. n \in Nat /\ m \in 1..n /\ \A i \in 1..n : s[i] \in S
      BY <1>1, <2>1, ElementOfSeq
    <3> HIDE DEF n, m
    <3>2. m <= n /\ n - m + 1 \in Nat \ {0} /\ m \in Nat /\ \A i \in m..n : s[i] \in S
      BY <3>1
    <3>3. Len(SubSeq(s, m, n)) = n - m + 1
      BY <3>1, <3>2, SubSeqProperties
    <3>4. Len(r) # 0
      BY <3>2, <3>3 DEF n, m
    <3> QED  BY <3>4
  <2> QED  BY <1>3, <2>1, <2>2, <2>3
<1> QED  BY <1>2, <1>3

LEMMA OnPathAgrees ==
  ASSUME NEW st, NEW st1, NEW n \in Nat, \A i \in 1..n : st1[i].fragment = st[i].fragment
  PROVE  \A j \in 1..n : OnPath(st1, j) = OnPath(st, j)
<1> SUFFICES ASSUME NEW j \in 1..n PROVE OnPath(st1, j) = OnPath(st, j)
  OBVIOUS
<1>1. \A i \in 1..j : st1[i].fragment = st[i].fragment
  OBVIOUS
<1> QED  BY <1>1 DEF OnPath

\* The selection at the head of the innermost call's is taken from it.
TakesHead(st, n, st1) ==
    /\ st[n].rest # <<>>
    /\ \A j \in 1..(n - 1) : st1[j] = st[j]
    /\ st1[n].rest = Tail(st[n].rest)
    /\ st1[n].depth = st[n].depth /\ st1[n].fragment = st[n].fragment

\* It is selection i of the place q.
TakesFrom(op, st, n, t, done, st1, q, i, k1) ==
    /\ q \in Places(op) /\ q.from \in done
    /\ i \in DOMAIN q.set /\ Head(st[n].rest) = q.set[i]
    /\ q.depth = st[n].depth /\ q.on = OnPath(st1, n)
    /\ <<q, i>> \notin done
    /\ Tracks(op, st1, n, t, k1, done \cup {<<q, i>>})

LEMMA TakeTracks ==
  ASSUME NEW op, Finite(op), NEW n \in Nat \ {0},
         NEW st, NEW t, NEW k, NEW done, Tracks(op, st, n, t, k, done),
         NEW st1, TakesHead(st, n, st1)
  PROVE  \E q, i, k1 : TakesFrom(op, st, n, t, done, st1, q, i, k1)
<1> DEFINE q == t[n]
           i == k[n] + 1
           k1 == [j \in 1..n |-> IF j = n THEN i ELSE k[j]]
           done1 == done \cup {<<q, i>>}
<1> HIDE DEF q, i, k1, done1
<1>0. q = t[n] /\ i = k[n] + 1 /\ done1 = done \cup {<<q, i>>}
      /\ k1 = [j \in 1..n |-> IF j = n THEN i ELSE k[j]]
  BY DEF q, i, k1, done1
<1> USE <1>0 DEF TakesHead
<1>1. n \in 1..n /\ \A j \in 1..n : j # n => j \in 1..(n - 1)
  OBVIOUS
<1>2. /\ q \in Places(op) /\ q.from \in done
      /\ k[n] \in 0..Len(q.set) /\ st[n].rest = SubSeq(q.set, k[n] + 1, Len(q.set))
      /\ st[n].depth = q.depth /\ q.on = OnPath(st, n)
  BY <1>1 DEF Tracks, WalksPlace
<1>3. /\ Len(q.set) \in Nat /\ DOMAIN q.set = 1..Len(q.set)
      /\ q.set \in Seq({q.set[m] : m \in DOMAIN q.set})
  BY <1>2, SetOfPlace
<1>4. /\ i \in 1..Len(q.set) /\ Head(st[n].rest) = q.set[i]
      /\ Tail(st[n].rest) = SubSeq(q.set, i + 1, Len(q.set))
  BY <1>2, <1>3, RestFacts
<1>5. \A m \in DOMAIN q.set : <<q, m>> \in done <=> m <= k[n]
  BY <1>1 DEF Tracks
<1>6. <<q, i>> \notin done
  BY <1>2, <1>3, <1>4, <1>5
<1>7. \A j \in 1..n : OnPath(st1, j) = OnPath(st, j)
  <2>1. \A j \in 1..n : st1[j].fragment = st[j].fragment
    BY <1>1
  <2> QED  BY <2>1, OnPathAgrees
<1>8. \A j \in 1..n : WalksPlace(op, st1, j, t[j], k1[j])
  <2> SUFFICES ASSUME NEW j \in 1..n PROVE WalksPlace(op, st1, j, t[j], k1[j])
    OBVIOUS
  <2>1. CASE j = n
    <3>1. k1[j] = i /\ i \in 0..Len(q.set)
      BY <1>3, <1>4, <2>1
    <3> QED  BY <1>2, <1>4, <1>7, <2>1, <3>1 DEF WalksPlace
  <2>2. CASE j # n
    <3>1. k1[j] = k[j] /\ st1[j] = st[j]
      BY <1>1, <2>2
    <3> QED  BY <1>7, <3>1 DEF WalksPlace, Tracks
  <2> QED  BY <2>1, <2>2
<1>9. \A j \in 1..n : \A m \in DOMAIN t[j].set : <<t[j], m>> \in done1 <=> m <= k1[j]
  <2> SUFFICES ASSUME NEW j \in 1..n, NEW m \in DOMAIN t[j].set
               PROVE  <<t[j], m>> \in done1 <=> m <= k1[j]
    OBVIOUS
  <2>1. CASE j = n
    <3>1. m \in Nat /\ k1[j] = i
      BY <1>3, <2>1
    <3>2. m <= i <=> m <= k[n] \/ m = i
      <4>1. k[n] \in Nat
        BY <1>2, <1>3
      <4>2. \A a, b \in Nat : b <= a + 1 <=> b <= a \/ b = a + 1
        OBVIOUS
      <4> QED  BY <3>1, <4>1, <4>2
    <3>3. <<q, m>> \in done1 <=> <<q, m>> \in done \/ m = i
      OBVIOUS
    <3> QED  BY <1>5, <2>1, <3>1, <3>2, <3>3
  <2>2. CASE j # n
    <3>1. t[j] # q /\ k1[j] = k[j]
      BY <1>1, <2>2 DEF Tracks
    <3>2. <<t[j], m>> # <<q, i>>
      BY <3>1
    <3> QED  BY <3>1, <3>2 DEF Tracks
  <2> QED  BY <2>1, <2>2
<1>10. \A p \in Places(op) : \A m \in DOMAIN p.set : <<p, m>> \in done1 => p.from \in done1
  <2> SUFFICES ASSUME NEW p \in Places(op), NEW m \in DOMAIN p.set, <<p, m>> \in done1
               PROVE  p.from \in done1
    OBVIOUS
  <2>1. <<p, m>> \in done \/ p = q
    OBVIOUS
  <2> QED  BY <1>2, <2>1 DEF Tracks
<1>11. \A j \in 1..n : t[j].from \in done1
  BY DEF Tracks
<1>12. \A j, m \in 1..n : t[j] = t[m] => j = m
  BY DEF Tracks
<1>13. Tracks(op, st1, n, t, k1, done1)
  BY <1>8, <1>9, <1>10, <1>11, <1>12 DEF Tracks
<1> QED  BY <1>1, <1>2, <1>3, <1>4, <1>6, <1>7, <1>13 DEF TakesFrom

\* A place is entered.
LEMMA EnterTracks ==
  ASSUME NEW op, Finite(op), NEW n \in Nat,
         NEW st, NEW t, NEW k, NEW done, Tracks(op, st, n, t, k, done),
         NEW p \in Places(op), p.from \in done,
         \A i \in DOMAIN p.set : <<p, i>> \notin done,
         \A j \in 1..n : t[j] # p,
         NEW st1, \A j \in 1..n : st1[j] = st[j],
         st1[n + 1].rest = p.set, st1[n + 1].depth = p.depth, p.on = OnPath(st1, n + 1)
  PROVE  \E t1, k1 : /\ Tracks(op, st1, n + 1, t1, k1, done)
                     /\ \A j \in 1..n : t1[j] = t[j]
                     /\ t1[n + 1] = p
<1> DEFINE t1 == [j \in 1..(n + 1) |-> IF j = n + 1 THEN p ELSE t[j]]
           k1 == [j \in 1..(n + 1) |-> IF j = n + 1 THEN 0 ELSE k[j]]
<1>1. /\ \A j \in 1..n : j \in 1..(n + 1) /\ t1[j] = t[j] /\ k1[j] = k[j]
      /\ t1[n + 1] = p /\ k1[n + 1] = 0 /\ n + 1 \in 1..(n + 1)
      /\ \A j \in 1..(n + 1) : j \in 1..n \/ j = n + 1
  OBVIOUS
<1> HIDE DEF t1, k1
<1>2. /\ Len(p.set) \in Nat /\ DOMAIN p.set = 1..Len(p.set)
      /\ p.set \in Seq({p.set[m] : m \in DOMAIN p.set})
  BY SetOfPlace
<1>3. \A j \in 1..n : OnPath(st1, j) = OnPath(st, j)
  BY OnPathAgrees
<1>4. \A j \in 1..n : WalksPlace(op, st1, j, t1[j], k1[j])
  BY <1>1, <1>3 DEF Tracks, WalksPlace
<1>5. WalksPlace(op, st1, n + 1, p, 0)
  <2>1. p.set = SubSeq(p.set, 0 + 1, Len(p.set))
    BY <1>2, SubSeqFull
  <2>2. 0 \in 0..Len(p.set)
    BY <1>2
  <2> QED  BY <2>1, <2>2 DEF WalksPlace
<1>6. \A j \in 1..(n + 1) : WalksPlace(op, st1, j, t1[j], k1[j])
  BY <1>1, <1>4, <1>5
<1>7. \A i, j \in 1..(n + 1) : t1[i] = t1[j] => i = j
  BY <1>1 DEF Tracks
<1>8. \A j \in 1..(n + 1) : t1[j].from \in done
  BY <1>1 DEF Tracks
<1>9. \A j \in 1..(n + 1) : \A i \in DOMAIN t1[j].set : <<t1[j], i>> \in done <=> i <= k1[j]
  <2>1. \A i \in DOMAIN p.set : ~(i <= 0)
    BY <1>2
  <2> QED  BY <1>1, <2>1 DEF Tracks
<1>10. Tracks(op, st1, n + 1, t1, k1, done)
  BY <1>6, <1>7, <1>8, <1>9 DEF Tracks
<1> QED  BY <1>1, <1>10

\* The innermost call returns.
LEMMA LeaveTracks ==
  ASSUME NEW op, NEW n \in Nat \ {0},
         NEW st, NEW t, NEW k, NEW done, Tracks(op, st, n, t, k, done),
         NEW st1, \A j \in 1..(n - 1) : st1[j] = st[j]
  PROVE  Tracks(op, st1, n - 1, t, k, done)
<1>1. 1..(n - 1) \subseteq 1..n /\ n - 1 \in Nat
  OBVIOUS
<1>2. \A j \in 1..(n - 1) : OnPath(st1, j) = OnPath(st, j)
  BY <1>1, OnPathAgrees
<1> QED  BY <1>1, <1>2 DEF Tracks, WalksPlace

LEMMA DepthOfPlace ==
  ASSUME NEW op, Finite(op), NEW q \in Places(op)
  PROVE  q.depth \in Nat \ {0}
<1> DEFINE T == {p \in Places(op) : p.depth \in Nat \ {0}}
<1>1. Roots(op) \subseteq T
  <2>1. \A p \in Roots(op) : p.depth = 1
    BY DEF Roots
  <2> QED  BY <2>1, RootsArePlaces
<1>2. Below(op, T) \subseteq T
  <2>1. Below(op, T) \subseteq Places(op)
    <3>1. T \subseteq Places(op)
      OBVIOUS
    <3> HIDE DEF T
    <3> QED  BY <3>1, BelowMonotonic DEF Finite
  <2>2. ASSUME NEW p \in Below(op, T) PROVE p.depth \in Nat \ {0}
    <3>1. PICK r \in T : \E i \in Leading(op, r) : p = Within(op, r, i)
      BY DEF Below
    <3>2. p.depth \in {r.depth, r.depth + 1}
      BY <3>1 DEF Within
    <3>3. r.depth \in Nat \ {0}
      OBVIOUS
    <3> QED  BY <3>2, <3>3
  <2> QED  BY <2>1, <2>2
<1> HIDE DEF T
<1>3. q \in T
  BY <1>1, <1>2, PlacesInduction
<1> QED  BY <1>3 DEF T

\* The set of a definition, and that of a selection, is one place.
LEMMA FromDefinition ==
  ASSUME NEW op, Finite(op), NEW p \in Places(op), NEW m, p.from = <<m>>
  PROVE  p = [from |-> <<m>>, set |-> op.definitions[m], depth |-> 1, on |-> {}]
<1>1. p \in Roots(op)
  <2>1. ASSUME NEW q \in Places(op), NEW i \in Leading(op, q), p = Within(op, q, i)
        PROVE  FALSE
    <3>1. <<m>> = <<q, i>>
      BY <2>1 DEF Within
    <3>2. Len(<<m>>) = 1 /\ Len(<<q, i>>) = 2
      OBVIOUS
    <3> QED  BY <3>1, <3>2
  <2> QED  BY <2>1, Origins
<1>2. PICK i \in DOMAIN op.definitions :
         p = [from |-> <<i>>, set |-> op.definitions[i], depth |-> 1, on |-> {}]
  BY <1>1 DEF Roots
<1>3. i = m
  BY <1>2
<1> QED  BY <1>2, <1>3

LEMMA FromSelection ==
  ASSUME NEW op, Finite(op), NEW p \in Places(op), NEW q, NEW i, p.from = <<q, i>>
  PROVE  i \in Leading(op, q) /\ p = Within(op, q, i)
<1>1. CASE p \in Roots(op)
  <2>1. PICK m \in DOMAIN op.definitions : p.from = <<m>>
    BY <1>1 DEF Roots
  <2>2. Len(<<m>>) = 1 /\ Len(<<q, i>>) = 2
    OBVIOUS
  <2>3. FALSE
    BY <2>1, <2>2
  <2> QED  BY <2>3
<1>2. CASE p \notin Roots(op)
  <2>1. PICK r, j : j \in Leading(op, r) /\ p = Within(op, r, j)
    BY <1>2, Origins
  <2>2. p.from = <<r, j>>
    BY <2>1 DEF Within
  <2>3. r = q /\ j = i
    BY <2>2
  <2> QED  BY <2>1, <2>3
<1> QED  BY <1>1, <1>2

LEMMA IntoSelection ==
  ASSUME NEW op, Finite(op), NEW q \in Places(op), NEW i \in Leading(op, q)
  PROVE  Within(op, q, i) \in Places(op) /\ Within(op, q, i).from = <<q, i>>
<1>1. Within(op, q, i) \in Below(op, Places(op))
  BY DEF Below
<1>2. Within(op, q, i).from = <<q, i>>
  BY DEF Within
<1> QED  BY <1>1, <1>2 DEF Finite

\* The walk begins with nothing done.
LEMMA Starts ==
  ASSUME NEW op, Finite(op), NEW st
  PROVE  Walks(op, st, 0, op.definitions, 0, 0, FALSE)
<1>1. Tracks(op, st, 0, <<>>, <<>>, {})
  BY DEF Tracks
<1>2. Begun(op, op.definitions, 0, {})
  <2> DEFINE s == op.definitions
             S == {q.set : q \in Roots(op)}
  <2>1. s \in Seq(S)
    BY DEF Finite
  <2> HIDE DEF S
  <2>2. Len(s) \in Nat /\ DOMAIN s = 1..Len(s) /\ s = SubSeq(s, 0 + 1, Len(s))
    BY <2>1, LenProperties, SubSeqFull
  <2>3. 0 \in 0..Len(s) /\ \A i \in DOMAIN s : ~(i <= 0)
    BY <2>2
  <2> QED  BY <2>2, <2>3 DEF Begun
<1>3. Counted(op, {}, 0, 0, FALSE)
  <2>1. Fields(op) \cap {} = {} /\ Cardinality({}) = 0
    BY FS_EmptySet
  <2> QED  BY <2>1 DEF Counted
<1>4. Completed(op, 0, <<>>, {})
  BY DEF Completed
<1> QED  BY <1>1, <1>2, <1>3, <1>4 DEF Walks

\* A place that is entered may be the deepest.
LEMMA DeeperCounts ==
  ASSUME NEW op, Finite(op), NEW deepest \in Nat, NEW p \in Places(op), NEW count
  PROVE  /\ deepest <= Larger(deepest, p.depth) /\ p.depth <= Larger(deepest, p.depth)
         /\ \A q \in Places(op) : q.depth <= deepest => q.depth <= Larger(deepest, p.depth)
         /\ (deepest = 0 \/ \E q \in Places(op) : q.depth = deepest) =>
                \E q \in Places(op) : q.depth = Larger(deepest, p.depth)
         /\ ~Over(Larger(deepest, p.depth), count) => ~Over(deepest, count)
<1>1. PICK m \in Nat \ {0} : m = p.depth
  BY DepthOfPlace
<1>2. PICK l \in Nat : /\ l = Larger(deepest, m) /\ l \in {deepest, m}
                       /\ deepest <= l /\ m <= l
  BY LargerFacts
<1>3. ASSUME NEW q \in Places(op), q.depth <= deepest PROVE q.depth <= l
  <2>1. q.depth \in Nat
    BY DepthOfPlace
  <2> QED  BY <1>2, <1>3, <2>1
<1>4. (deepest = 0 \/ \E q \in Places(op) : q.depth = deepest) => \E q \in Places(op) : q.depth = l
  <2>1. CASE l = m
    BY <1>1, <2>1
  <2>2. CASE l # m
    <3>1. l = deepest /\ deepest # 0
      BY <1>2, <2>2
    <3> QED  BY <3>1
  <2> QED  BY <2>1, <2>2
<1>5. ~Over(l, count) => ~Over(deepest, count)
  BY <1>2, LimitsAssumption DEF Over
<1> QED  BY <1>1, <1>2, <1>3, <1>4, <1>5

\* The set of the next definition is entered.
LEMMA EntersDefinition ==
  ASSUME NEW op, Finite(op), NEW deepest \in Nat, NEW count, NEW used,
         NEW st, NEW defs, Walks(op, st, 0, defs, deepest, count, used), defs # <<>>,
         NEW st1, st1[1] = Frame(Head(defs), 1, NoFragment)
  PROVE  Walks(op, st1, 1, Tail(defs), Larger(deepest, 1), count, used)
<1>1. PICK t, k, done, d :
         /\ Tracks(op, st, 0, t, k, done)
         /\ Begun(op, defs, d, done)
         /\ Counted(op, done, deepest, count, used)
         /\ ~Over(deepest, count) => Completed(op, 0, t, done)
  BY DEF Walks
<1> DEFINE s == op.definitions
           S == {q.set : q \in Roots(op)}
           i == d + 1
           p == [from |-> <<i>>, set |-> s[i], depth |-> 1, on |-> {}]
           done1 == done \cup {<<i>>}
<1>2. s \in Seq(S)
  BY DEF Finite
<1> HIDE DEF S
<1>3. Len(s) \in Nat /\ DOMAIN s = 1..Len(s) /\ d \in 0..Len(s) /\ defs = SubSeq(s, d + 1, Len(s))
  BY <1>1, <1>2, LenProperties DEF Begun
<1>4. i \in 1..Len(s) /\ Head(defs) = s[i] /\ Tail(defs) = SubSeq(s, i + 1, Len(s))
  BY <1>2, <1>3, RestFacts
<1>5. /\ p \in Places(op) /\ p.from = <<i>> /\ p.set = Head(defs) /\ p.depth = 1 /\ p.on = {}
      /\ <<i>> \notin done
  <2>1. p \in Roots(op)
    BY <1>3, <1>4 DEF Roots
  <2>2. ~(i <= d)
    BY <1>3
  <2>3. <<i>> \notin done
    BY <1>1, <1>3, <1>4, <2>2 DEF Begun
  <2> QED  BY <1>4, <2>1, <2>3, RootsArePlaces
<1>6. ASSUME NEW q \in Places(op), q.from = <<i>> PROVE q = p
  BY <1>6, FromDefinition
<1>7. \A q, m : <<q, m>> # <<i>>
  <2> SUFFICES ASSUME NEW q, NEW m PROVE <<q, m>> # <<i>>
    OBVIOUS
  <2>1. Len(<<q, m>>) = 2 /\ Len(<<i>>) = 1
    OBVIOUS
  <2> QED  BY <2>1
<1> HIDE DEF p, i
<1>8. \A q, m : <<q, m>> \in done1 <=> <<q, m>> \in done
  BY <1>7
<1> HIDE DEF done1
<1>9. done \subseteq done1 /\ <<i>> \in done1
  BY DEF done1
<1>10. Tracks(op, st, 0, t, k, done1)
  BY <1>1, <1>8, <1>9 DEF Tracks
<1>11. \A m \in DOMAIN p.set : <<p, m>> \notin done1
  BY <1>1, <1>5, <1>8 DEF Tracks
<1>12. st1[0 + 1].rest = p.set /\ st1[0 + 1].depth = p.depth /\ p.on = OnPath(st1, 0 + 1)
  <2>1. OnPath(st1, 1) = {}
    <3>1. \A j \in 1..1 : st1[j].fragment = NoFragment
      BY DEF Frame
    <3> QED  BY <3>1 DEF OnPath
  <2> QED  BY <1>5, <2>1 DEF Frame
<1>13. PICK t1, k1 : Tracks(op, st1, 1, t1, k1, done1) /\ t1[1] = p
  <2>1. \E t1, k1 : /\ Tracks(op, st1, 0 + 1, t1, k1, done1)
                    /\ \A j \in 1..0 : t1[j] = t[j]
                    /\ t1[0 + 1] = p
    BY <1>5, <1>9, <1>10, <1>11, <1>12, EnterTracks
  <2> QED  BY <2>1
<1>14. \A q \in Places(op) : q.from \in done1 => q.from \in done \/ q = p
  BY <1>6 DEF done1
<1>15. Begun(op, Tail(defs), i, done1)
  <2>1. i \in 0..Len(s)
    BY <1>3, <1>4
  <2>2. ASSUME NEW m \in DOMAIN s PROVE <<m>> \in done1 <=> m <= i
    <3>1. <<m>> \in done1 <=> <<m>> \in done \/ m = i
      BY DEF done1
    <3>2. m <= i <=> m <= d \/ m = i
      <4>1. m \in Nat /\ d \in Nat
        BY <1>3
      <4> QED  BY <4>1 DEF i
    <3> QED  BY <1>1, <3>1, <3>2 DEF Begun
  <2> QED  BY <1>4, <2>1, <2>2 DEF Begun
<1>16. Counted(op, done1, Larger(deepest, 1), count, used)
  <2>1. Fields(op) \cap done1 = Fields(op) \cap done
    <3>1. \A x \in Fields(op) : \E q, m : x = <<q, m>>
      BY DEF Fields, Selections
    <3> QED  BY <1>8, <3>1
  <2>2. /\ p.depth <= Larger(deepest, p.depth)
        /\ \A q \in Places(op) : q.depth <= deepest => q.depth <= Larger(deepest, p.depth)
        /\ (deepest = 0 \/ \E q \in Places(op) : q.depth = deepest) =>
               \E q \in Places(op) : q.depth = Larger(deepest, p.depth)
    BY <1>5, DeeperCounts
  <2> QED  BY <1>1, <1>5, <1>14, <2>1, <2>2 DEF Counted
<1>17. ASSUME ~Over(Larger(deepest, 1), count) PROVE Completed(op, 1, t1, done1)
  <2>1. Completed(op, 0, t, done)
    BY <1>1, <1>5, <1>17, DeeperCounts
  <2>2. 1 \in 1..1
    OBVIOUS
  <2> QED  BY <1>9, <1>13, <1>14, <2>1, <2>2 DEF Completed
<1> QED  BY <1>13, <1>15, <1>16, <1>17 DEF Walks

\* What holds when selection i of a place q was just taken, before the set that
\* it leads into is entered.
Takes(op, st, n, defs, deepest, count, used, t, k, done, d, q, i) ==
    /\ Tracks(op, st, n, t, k, done)
    /\ Begun(op, defs, d, done)
    /\ <<q, i>> \in done
    /\ \A p \in Places(op) : p.from \in done /\ p.from # <<q, i>> =>
           /\ p.depth <= deepest
           /\ (\E j \in 1..n : p = t[j]) \/ \A m \in DOMAIN p.set : <<p, m>> \in done
    /\ \A p \in Places(op) : p.from = <<q, i>> =>
           /\ \A m \in DOMAIN p.set : <<p, m>> \notin done
           /\ \A j \in 1..n : t[j] # p
    /\ deepest = 0 \/ \E p \in Places(op) : p.depth = deepest
    /\ count = Cardinality(Fields(op) \cap done)
    /\ used <=> \E x \in Fields(op) \cap done : x[1].set[x[2]].name = "__schema"

\* A field is counted, and told from the schema's.
Counts(s, count, used, count1, used1) ==
    /\ count1 = IF s.kind = "field" THEN count + 1 ELSE count
    /\ used1 <=> used \/ (s.kind = "field" /\ s.name = "__schema")

\* A selection is taken.
LEMMA Taking ==
  ASSUME NEW op, Finite(op), NEW n \in Nat \ {0},
         NEW deepest, NEW count, NEW used \in BOOLEAN, ~Over(deepest, count),
         NEW st, NEW defs, Walks(op, st, n, defs, deepest, count, used),
         NEW st1, TakesHead(st, n, st1),
         NEW count1, NEW used1, Counts(Head(st[n].rest), count, used, count1, used1)
  PROVE  \E t, k, done, d, q, i :
            /\ Takes(op, st1, n, defs, deepest, count1, used1, t, k, done, d, q, i)
            /\ q \in Places(op) /\ i \in DOMAIN q.set /\ q.set[i] = Head(st[n].rest)
            /\ q.depth = st[n].depth /\ q.on = OnPath(st1, n)
<1>1. PICK t, k, done, d :
         /\ Tracks(op, st, n, t, k, done)
         /\ Begun(op, defs, d, done)
         /\ Counted(op, done, deepest, count, used)
         /\ Completed(op, n, t, done)
  BY DEF Walks
<1>2a. PICK q, i, k1 : TakesFrom(op, st, n, t, done, st1, q, i, k1)
  BY <1>1, TakeTracks
<1>2. /\ q \in Places(op) /\ q.from \in done
      /\ i \in DOMAIN q.set /\ Head(st[n].rest) = q.set[i]
      /\ q.depth = st[n].depth /\ q.on = OnPath(st1, n)
      /\ <<q, i>> \notin done
      /\ Tracks(op, st1, n, t, k1, done \cup {<<q, i>>})
  BY <1>2a DEF TakesFrom
<1>3. PICK done1, s : done1 = done \cup {<<q, i>>} /\ s = Head(st[n].rest)
  OBVIOUS
<1>4. Begun(op, defs, d, done1)
  <2>1. \A m : <<m>> # <<q, i>>
    <3> SUFFICES ASSUME NEW m PROVE <<m>> # <<q, i>>
      OBVIOUS
    <3>1. Len(<<q, i>>) = 2 /\ Len(<<m>>) = 1
      OBVIOUS
    <3> QED  BY <3>1
  <2>2. \A m : <<m>> \in done1 <=> <<m>> \in done
    BY <1>3, <2>1
  <2> QED  BY <1>1, <2>2 DEF Begun
<1>5. \A p \in Places(op) : p.from \in done1 /\ p.from # <<q, i>> =>
         /\ p.depth <= deepest
         /\ (\E j \in 1..n : p = t[j]) \/ \A m \in DOMAIN p.set : <<p, m>> \in done1
  <2>1. \A p \in Places(op) : p.from \in done1 /\ p.from # <<q, i>> => p.from \in done
    BY <1>3
  <2>2. done \subseteq done1
    BY <1>3
  <2> QED  BY <1>1, <2>1, <2>2 DEF Counted, Completed
<1>6. ASSUME NEW p \in Places(op), p.from = <<q, i>>
      PROVE  /\ \A m \in DOMAIN p.set : <<p, m>> \notin done1
             /\ \A j \in 1..n : t[j] # p
  <2>1. p.from \notin done /\ p # q
    BY <1>2, <1>6
  <2>2. \A m \in DOMAIN p.set : <<p, m>> \notin done
    BY <1>1, <2>1 DEF Tracks
  <2>3. \A j \in 1..n : t[j] # p
    BY <1>1, <2>1 DEF Tracks
  <2>4. \A m : <<p, m>> # <<q, i>>
    BY <2>1
  <2> QED  BY <1>3, <2>2, <2>3, <2>4
<1>7. <<q, i>> \in Selections(op) /\ <<q, i>>[1].set[<<q, i>>[2]] = s
  BY <1>2, <1>3 DEF Selections
<1>8. <<q, i>> \in Fields(op) <=> s.kind = "field"
  BY <1>7 DEF Fields
<1>9. count1 = Cardinality(Fields(op) \cap done1)
  <2> DEFINE F == Fields(op)
             A == F \cap done
             y == <<q, i>>
  <2>1. IsFiniteSet(A)
    BY FieldsFinite, FS_Subset
  <2>2. y \notin A /\ count = Cardinality(A)
    BY <1>1, <1>2 DEF Counted
  <2>3. F \cap done1 = IF s.kind = "field" THEN A \cup {y} ELSE A
    BY <1>3, <1>8
  <2> HIDE DEF F, A, y
  <2>4. Cardinality(A \cup {y}) = Cardinality(A) + 1
    BY <2>1, <2>2, FS_AddElement
  <2>5. Cardinality(F \cap done1) = IF s.kind = "field" THEN count + 1 ELSE count
    BY <2>2, <2>3, <2>4
  <2> QED  BY <1>3, <2>5 DEF F, Counts
<1>10. used1 <=> \E y \in Fields(op) \cap done1 : y[1].set[y[2]].name = "__schema"
  <2>1. used <=> \E y \in Fields(op) \cap done : y[1].set[y[2]].name = "__schema"
    BY <1>1 DEF Counted
  <2>2. \A y : y \in Fields(op) \cap done1 <=>
                 y \in Fields(op) \cap done \/ (y = <<q, i>> /\ s.kind = "field")
    BY <1>3, <1>8
  <2>3. (\E y \in Fields(op) \cap done1 : y[1].set[y[2]].name = "__schema")
          <=> \/ \E y \in Fields(op) \cap done : y[1].set[y[2]].name = "__schema"
              \/ s.kind = "field" /\ s.name = "__schema"
    BY <1>7, <2>2
  <2> DEFINE U == \E y \in Fields(op) \cap done : y[1].set[y[2]].name = "__schema"
             V == \E y \in Fields(op) \cap done1 : y[1].set[y[2]].name = "__schema"
             W == s.kind = "field" /\ s.name = "__schema"
  <2> HIDE DEF U, V, W
  <2>4. (used <=> U) /\ (V <=> U \/ W) /\ (used1 <=> used \/ W)
    BY <1>3, <2>1, <2>3 DEF U, V, W, Counts
  <2>5. used1 <=> V
    BY <2>4
  <2> QED  BY <2>5 DEF V
<1>11. Takes(op, st1, n, defs, deepest, count1, used1, t, k1, done1, d, q, i)
  BY <1>1, <1>2, <1>3, <1>4, <1>5, <1>6, <1>9, <1>10 DEF Takes, Counted
<1> QED  BY <1>2, <1>11

\* A selection that leads nowhere is done (index.js:50-73).
LEMMA Passes ==
  ASSUME NEW op, Finite(op), NEW n, NEW st, NEW defs, NEW deepest, NEW count, NEW used,
         NEW t, NEW k, NEW done, NEW d, NEW q, NEW i,
         Takes(op, st, n, defs, deepest, count, used, t, k, done, d, q, i),
         i \notin Leading(op, q)
  PROVE  Walks(op, st, n, defs, deepest, count, used)
<1>1. \A p \in Places(op) : p.from # <<q, i>>
  BY FromSelection
<1>2. Counted(op, done, deepest, count, used)
  BY <1>1 DEF Takes, Counted
<1>3. Completed(op, n, t, done)
  BY <1>1 DEF Takes, Completed
<1> QED  BY <1>2, <1>3 DEF Takes, Walks

\* A selection's set is entered.
LEMMA EntersSelection ==
  ASSUME NEW op, Finite(op), NEW n \in Nat, NEW st, NEW defs, NEW deepest \in Nat,
         NEW count, NEW used, NEW t, NEW k, NEW done, NEW d, NEW q \in Places(op), NEW i,
         Takes(op, st, n, defs, deepest, count, used, t, k, done, d, q, i),
         i \in Leading(op, q),
         NEW p, p = Within(op, q, i), NEW fragment, q.on = OnPath(st, n),
         p.on = q.on \cup ({fragment} \ {NoFragment}),
         NEW st1, \A j \in 1..n : st1[j] = st[j],
         st1[n + 1] = Frame(p.set, p.depth, fragment)
  PROVE  Walks(op, st1, n + 1, defs, Larger(deepest, p.depth), count, used)
<1>1. p \in Places(op) /\ p.from = <<q, i>>
  BY IntoSelection
<1>2. \A r \in Places(op) : r.from = <<q, i>> => r = p
  BY FromSelection
<1>3. p.on = OnPath(st1, n + 1) /\ st1[n + 1].rest = p.set /\ st1[n + 1].depth = p.depth
  <2>1. st1[n + 1].fragment = fragment /\ st1[n + 1].rest = p.set /\ st1[n + 1].depth = p.depth
    BY DEF Frame
  <2>2. \A j : j \in 1..(n + 1) <=> j \in 1..n \/ j = n + 1
    OBVIOUS
  <2>3. {st1[j].fragment : j \in 1..(n + 1)} = {st[j].fragment : j \in 1..n} \cup {fragment}
    BY <2>1, <2>2
  <2> QED  BY <2>1, <2>3 DEF OnPath
<1>4. PICK t1, k1 : /\ Tracks(op, st1, n + 1, t1, k1, done)
                    /\ \A j \in 1..n : t1[j] = t[j]
                    /\ t1[n + 1] = p
  <2>1. /\ Tracks(op, st, n, t, k, done) /\ p.from \in done
        /\ \A m \in DOMAIN p.set : <<p, m>> \notin done
        /\ \A j \in 1..n : t[j] # p
    BY <1>1 DEF Takes
  <2> QED  BY <1>1, <1>3, <2>1, EnterTracks
<1> DEFINE l == Larger(deepest, p.depth)
<1>5. /\ p.depth <= l
      /\ \A r \in Places(op) : r.depth <= deepest => r.depth <= l
      /\ (deepest = 0 \/ \E r \in Places(op) : r.depth = deepest) =>
             \E r \in Places(op) : r.depth = l
  BY <1>1, DeeperCounts
<1> HIDE DEF l
<1>6. Counted(op, done, l, count, used)
  BY <1>2, <1>5 DEF Takes, Counted
<1>7. Completed(op, n + 1, t1, done)
  <2>1. \A j \in 1..n : j \in 1..(n + 1)
    OBVIOUS
  <2>2. n + 1 \in 1..(n + 1)
    OBVIOUS
  <2>3. ASSUME NEW r \in Places(op), r.from \in done
        PROVE  (\E j \in 1..(n + 1) : r = t1[j]) \/ \A m \in DOMAIN r.set : <<r, m>> \in done
    <3>1. CASE r = p
      BY <1>4, <2>2, <3>1
    <3>2. CASE r # p
      <4>1. (\E j \in 1..n : r = t[j]) \/ \A m \in DOMAIN r.set : <<r, m>> \in done
        BY <1>2, <2>3, <3>2 DEF Takes
      <4> QED  BY <1>4, <2>1, <4>1
    <3> QED  BY <3>1, <3>2
  <2> QED  BY <2>3 DEF Completed
<1>8. Walks(op, st1, n + 1, defs, l, count, used)
  BY <1>4, <1>6, <1>7 DEF Takes, Walks
<1> QED  BY <1>8 DEF l

\* The innermost call returns, at its last selection or with a limit passed.
LEMMA Leaves ==
  ASSUME NEW op, Finite(op), NEW n \in Nat \ {0},
         NEW deepest, NEW count, NEW used,
         NEW st, NEW defs, Walks(op, st, n, defs, deepest, count, used),
         Over(deepest, count) \/ st[n].rest = <<>>,
         NEW st1, \A j \in 1..(n - 1) : st1[j] = st[j]
  PROVE  Walks(op, st1, n - 1, defs, deepest, count, used)
<1>1. PICK t, k, done, d :
         /\ Tracks(op, st, n, t, k, done)
         /\ Begun(op, defs, d, done)
         /\ Counted(op, done, deepest, count, used)
         /\ ~Over(deepest, count) => Completed(op, n, t, done)
  BY DEF Walks
<1>2. Tracks(op, st1, n - 1, t, k, done)
  BY <1>1, LeaveTracks
<1>3. ASSUME ~Over(deepest, count) PROVE Completed(op, n - 1, t, done)
  <2> DEFINE q == t[n]
  <2>1. n \in 1..n
    OBVIOUS
  <2>2. /\ q \in Places(op) /\ k[n] \in 0..Len(q.set)
        /\ SubSeq(q.set, k[n] + 1, Len(q.set)) = <<>>
        /\ \A i \in DOMAIN q.set : <<q, i>> \in done <=> i <= k[n]
    BY <1>1, <1>3, <2>1 DEF Tracks, WalksPlace
  <2> HIDE DEF q
  <2>3. /\ DOMAIN q.set = 1..Len(q.set) /\ Len(q.set) \in Nat
        /\ q.set \in Seq({q.set[i] : i \in DOMAIN q.set})
    BY <2>2, SetOfPlace
  <2>4. k[n] = Len(q.set)
    BY <2>2, <2>3, RestFacts
  <2>5. \A i \in DOMAIN q.set : <<q, i>> \in done
    BY <2>2, <2>3, <2>4
  <2>6. \A j \in 1..n : j \in 1..(n - 1) \/ t[j] = q
    BY DEF q
  <2> QED  BY <1>1, <1>3, <2>5, <2>6 DEF Completed
<1> QED  BY <1>1, <1>2, <1>3 DEF Walks

\* What the counters say at the end of a walk is true of the query written out,
\* and within the limits they leave nothing out.
LEMMA WalkEnds ==
  ASSUME NEW op, Finite(op), op.form = "document",
         NEW deepest \in Nat, NEW count, NEW used \in BOOLEAN,
         NEW st, Walks(op, st, 0, <<>>, deepest, count, used)
  PROVE  /\ used => Introspective(op)
         /\ deepest > MaxDepth => TooDeep(op)
         /\ count > MaxComplexity => TooComplex(op)
         /\ ~Over(deepest, count) /\ (used => AllowIntrospection) => Harmless(op)
<1>1. PICK t, k, done, d :
         /\ Tracks(op, st, 0, t, k, done)
         /\ Begun(op, <<>>, d, done)
         /\ Counted(op, done, deepest, count, used)
         /\ ~Over(deepest, count) => Completed(op, 0, t, done)
  BY DEF Walks
<1>2. used => Introspective(op)
  BY <1>1 DEF Counted, Introspective
<1>3. ASSUME deepest > MaxDepth PROVE TooDeep(op)
  <2>1. deepest # 0
    BY <1>3, LimitsAssumption
  <2>2. PICK q \in Places(op) : q.depth = deepest
    BY <1>1, <2>1 DEF Counted
  <2> QED  BY <1>3, <2>2 DEF TooDeep
<1>4. ASSUME count > MaxComplexity PROVE TooComplex(op)
  <2> DEFINE F == Fields(op)
             A == F \cap done
  <2>1. IsFiniteSet(F) /\ A \subseteq F
    BY FieldsFinite
  <2> HIDE DEF F, A
  <2>2. /\ Cardinality(A) \in Nat /\ Cardinality(F) \in Nat
        /\ Cardinality(A) <= Cardinality(F)
    BY <2>1, FS_Subset, FS_CardinalityType
  <2>3. count = Cardinality(A)
    BY <1>1 DEF Counted, A, F
  <2>4. Cardinality(F) > MaxComplexity
    BY <1>4, <2>2, <2>3, LimitsAssumption
  <2> QED  BY <2>4 DEF TooComplex, F
<1>5. ASSUME ~Over(deepest, count), used => AllowIntrospection
      PROVE  Harmless(op)
  <2> DEFINE T == {q \in Places(op) : q.from \in done}
  <2>1. \A q \in T : \A i \in DOMAIN q.set : <<q, i>> \in done
    <3>1. Completed(op, 0, t, done) /\ 1..0 = {}
      BY <1>1, <1>5
    <3> QED  BY <3>1 DEF Completed
  <2>2. Roots(op) \subseteq T
    <3> DEFINE s == op.definitions
               S == {q.set : q \in Roots(op)}
    <3>1. s \in Seq(S)
      BY DEF Finite
    <3> HIDE DEF S
    <3>2. Len(s) \in Nat /\ DOMAIN s = 1..Len(s) /\ d \in 0..Len(s)
          /\ <<>> = SubSeq(s, d + 1, Len(s))
      BY <1>1, <3>1, LenProperties DEF Begun
    <3>3. d = Len(s)
      BY <3>1, <3>2, RestFacts
    <3>4. \A i \in DOMAIN s : <<i>> \in done
      <4>1. \A i \in DOMAIN s : i <= d
        BY <3>2, <3>3
      <4> QED  BY <1>1, <4>1 DEF Begun
    <3>5. \A q \in Roots(op) : \E i \in DOMAIN s : q.from = <<i>>
      BY DEF Roots
    <3> QED  BY <3>4, <3>5, RootsArePlaces
  <2>3. Below(op, T) \subseteq T
    <3> SUFFICES ASSUME NEW p \in Below(op, T) PROVE p \in T
      OBVIOUS
    <3>1. PICK q \in T : \E i \in Leading(op, q) : p = Within(op, q, i)
      BY DEF Below
    <3>2. PICK i \in Leading(op, q) : p = Within(op, q, i)
      BY <3>1
    <3>3. i \in DOMAIN q.set /\ q \in Places(op)
      BY DEF Leading
    <3>4. p \in Places(op) /\ p.from = <<q, i>>
      BY <3>2, <3>3, IntoSelection
    <3> QED  BY <2>1, <3>3, <3>4
  <2> HIDE DEF T
  <2>4. Places(op) \subseteq T
    BY <2>2, <2>3, PlacesInduction
  <2>5. Fields(op) \cap done = Fields(op)
    <3>1. \A x \in Fields(op) : \E q \in Places(op) : \E i \in DOMAIN q.set : x = <<q, i>>
      BY DEF Fields, Selections
    <3> QED  BY <2>1, <2>4, <3>1
  <2>6. ~TooDeep(op)
    <3> SUFFICES ASSUME NEW q \in Places(op), q.depth > MaxDepth PROVE FALSE
      BY DEF TooDeep
    <3>1. q.from \in done
      BY <2>4 DEF T
    <3>2. q.depth <= deepest /\ q.depth \in Nat
      BY <1>1, <3>1, DepthOfPlace DEF Counted
    <3> QED  BY <1>5, <3>2, LimitsAssumption DEF Over
  <2>7. ~TooComplex(op) /\ (Introspective(op) => AllowIntrospection)
    BY <1>1, <1>5, <2>5 DEF Counted, Over, TooComplex, Introspective
  <2> QED  BY <2>6, <2>7 DEF Harmless
<1> QED  BY <1>2, <1>3, <1>4, <1>5

-----------------------------------------------------------------------------
(* The verdict                                                              *)

Walking ==
    pc = "walk" =>
        Walks(Operation, stack, Len(stack), definitions, maxDepthSeen, fieldCount,
              introspectionUsed)

\* The documents are finite, and what the loop of scan has left behind is
\* harmless.
Judging ==
    /\ \A i \in DOMAIN operations :
           operations[i].form = "document" => Finite(operations[i])
    /\ pc # "ended" =>
           /\ verdict = "none" /\ Len(operations) <= MaxBatchSize
           /\ \A i \in 1..(at - 1) : Harmless(operations[i])

VInv == Walking /\ Judging /\ VerdictIsTrue

LEMMA VInvInit == Init => VInv
<1> SUFFICES ASSUME Init PROVE VInv
  OBVIOUS
<1>1. PICK payload \in Payloads :
          /\ operations = IF payload.form = "malformed" THEN <<>> ELSE Extracted(payload)
          /\ verdict = Screened(payload)
          /\ pc = IF Screened(payload) = "none" THEN "operation" ELSE "ended"
  BY DEF Init
<1>2. at = 1 /\ (\A i \in 1..(at - 1) : FALSE) /\ pc # "walk"
  BY <1>1 DEF Init
<1>3. Len(<<>>) = 0 /\ DOMAIN <<>> = {} /\ ~(0 > MaxBatchSize)
  BY LimitsAssumption
<1>4. CASE payload.form \in {"absent", "malformed"}
  <2>1. operations = <<>> /\ verdict \in {"allow", "graphql-malformed"} /\ pc = "ended"
    BY <1>1, <1>4 DEF Screened, Extracted
  <2> QED  BY <1>2, <1>3, <2>1 DEF VInv, Walking, Judging, VerdictIsTrue, Categories
<1>5. CASE payload.form \notin {"absent", "malformed"}
  <2>1. operations = payload.operations
    BY <1>1, <1>5 DEF Extracted
  <2>2. \A i \in DOMAIN operations : operations[i].form = "document" => Finite(operations[i])
    BY <1>5, <2>1, DocumentsAssumption
  <2>3. Len(operations) \in Nat /\ DOMAIN operations = 1..Len(operations)
    <3> DEFINE S == {operations[i] : i \in DOMAIN operations}
    <3>1. operations \in Seq(S)
      BY <1>5, <2>1, PayloadsAssumption
    <3> HIDE DEF S
    <3> QED  BY <3>1, LenProperties
  <2>4. \/ verdict = "allow" /\ operations = <<>>
        \/ verdict = "graphql-batching" /\ Len(operations) > MaxBatchSize
        \/ verdict = "none" /\ ~(Len(operations) > MaxBatchSize)
    BY <1>1, <1>5, <2>1 DEF Screened, Extracted
  <2>5. verdict = "none" => Len(operations) <= MaxBatchSize
    BY <2>3, <2>4, LimitsAssumption
  <2>6. pc = "ended" <=> verdict # "none"
    BY <1>1, <2>4
  <2>7. Judging
    BY <1>2, <2>2, <2>5, <2>6 DEF Judging
  <2>8. VerdictIsTrue
    BY <1>2, <1>3, <2>4, <2>6 DEF VerdictIsTrue, Categories
  <2> QED  BY <1>2, <2>7, <2>8 DEF VInv, Walking
<1> QED  BY <1>4, <1>5

\* The call on top, as the selection is taken from it.
LEMMA TakenTop ==
  ASSUME NEW R, NEW F, stack \in Seq(Frames(R, F)), stack # <<>>
  PROVE  /\ \A j \in 1..(Len(stack) - 1) : Taken[j] = stack[j]
         /\ Taken[Len(stack)].rest = Tail(Top.rest)
<1> DEFINE n == Len(stack)
<1>1. n \in 1..n /\ n \in Nat /\ DOMAIN stack = 1..n /\ stack[n] \in Frames(R, F)
  BY StackFacts
<1>2. Taken = [i \in 1..n |-> IF i = n THEN [stack[n] EXCEPT !.rest = Tail(@)] ELSE stack[i]]
  BY <1>1 DEF Taken
<1>3. Top = stack[n]
  BY DEF Top
<1> HIDE DEF n
<1>4. PICK r \in R, d \in Nat, f \in F : stack[n] = [rest |-> r, depth |-> d, fragment |-> f]
  BY <1>1 DEF Frames
<1> DEFINE tail == Tail(stack[n].rest)
<1> HIDE DEF tail
<1>5. [stack[n] EXCEPT !.rest = tail].rest = tail
  BY <1>4
<1>6. Taken[n].rest = tail
  BY <1>1, <1>2, <1>5 DEF tail
<1>7. \A j \in 1..(n - 1) : j \in 1..n /\ j # n
  BY <1>1
<1>8. \A j \in 1..(n - 1) : Taken[j] = stack[j]
  BY <1>2, <1>7
<1> QED  BY <1>3, <1>6, <1>8 DEF n, tail

\* The selection of a place that the call on top takes.
TakesHere(op, st, count, used, t, k, done, d, q, i) ==
    /\ Takes(op, st, Len(stack), definitions, maxDepthSeen, count, used, t, k, done, d, q, i)
    /\ q \in Places(op) /\ i \in DOMAIN q.set /\ q.set[i] = Selection
    /\ q.depth = Top.depth /\ q.on = OnPath(st, Len(stack)) /\ q.on = seenFragments

\* What every step that takes a selection owes to the walk.
LEMMA Selected ==
  ASSUME Inv, Walking, Judging, NEW kind, Selecting(kind),
         NEW count, count = IF kind = "field" THEN fieldCount + 1 ELSE fieldCount,
         NEW used \in BOOLEAN,
         used <=> introspectionUsed \/ (kind = "field" /\ Selection.name = "__schema")
  PROVE  /\ Finite(Operation) /\ Len(stack) \in Nat \ {0}
         /\ Len(Taken) = Len(stack)
         /\ \E R, F : Taken \in Seq(Frames(R, F))
         /\ \E t, k, done, d, q, i :
               TakesHere(Operation, Taken, count, used, t, k, done, d, q, i)
<1> DEFINE n == Len(stack)
<1>1. /\ pc = "walk" /\ stack # <<>> /\ ~Over(maxDepthSeen, fieldCount)
      /\ Top.rest # <<>> /\ Selection.kind = kind
  BY DEF Selecting, Over, OverLimit
<1>2. PICK R, F : stack \in Seq(Frames(R, F))
  BY DEF Inv, Calling
<1>3. n \in Nat \ {0} /\ DOMAIN stack = 1..n /\ n \in 1..n /\ Top = stack[n]
  BY <1>1, <1>2, StackFacts DEF Top
<1>4. /\ Taken \in Seq(Frames(R \cup {Tail(Top.rest)}, F))
      /\ Len(Taken) = n
      /\ \A i \in 1..n : Taken[i].depth = stack[i].depth /\ Taken[i].fragment = stack[i].fragment
  BY <1>1, <1>2, TakenFacts
<1>5. /\ \A j \in 1..(n - 1) : Taken[j] = stack[j]
      /\ Taken[n].rest = Tail(Top.rest)
  BY <1>1, <1>2, TakenTop
<1>6. Finite(Operation)
  BY <1>1 DEF Inv, Scanning, Judging, Operation
<1>7. PICK op, st, st1 : op = Operation /\ st = stack /\ st1 = Taken
  OBVIOUS
<1>8. seenFragments = OnPath(st1, n)
  <2>1. seenFragments = {stack[i].fragment : i \in 1..n} \ {NoFragment}
    BY <1>3 DEF Inv, SeenIsPath
  <2>2. {stack[i].fragment : i \in 1..n} = {st1[i].fragment : i \in 1..n}
    BY <1>4, <1>7
  <2> QED  BY <2>1, <2>2 DEF OnPath
<1>9. introspectionUsed \in BOOLEAN
  BY DEF Inv, TypeOK
<1> HIDE DEF n
<1>10. Walks(op, st, n, definitions, maxDepthSeen, fieldCount, introspectionUsed)
  BY <1>1, <1>7 DEF Walking, n
<1>11. \E t, k, done, d, q, i :
         /\ Takes(op, st1, n, definitions, maxDepthSeen, count, used, t, k, done, d, q, i)
         /\ q \in Places(op) /\ i \in DOMAIN q.set /\ q.set[i] = Head(st[n].rest)
         /\ q.depth = st[n].depth /\ q.on = OnPath(st1, n)
  <2>1. Counts(Head(st[n].rest), fieldCount, introspectionUsed, count, used)
    BY <1>1, <1>3, <1>7 DEF Selection, Counts
  <2>2. TakesHead(st, n, st1)
    BY <1>1, <1>3, <1>4, <1>5, <1>7 DEF TakesHead
  <2>3. Finite(op) /\ n \in Nat \ {0} /\ ~Over(maxDepthSeen, fieldCount)
    BY <1>1, <1>3, <1>6, <1>7
  <2> QED  BY <1>9, <1>10, <2>1, <2>2, <2>3, Taking
<1>12. \E t, k, done, d, q, i : TakesHere(op, st1, count, used, t, k, done, d, q, i)
  BY <1>3, <1>7, <1>8, <1>11 DEF TakesHere, n, Selection
<1> QED  BY <1>3, <1>4, <1>6, <1>7, <1>12 DEF n

\* A step that passes a selection over.
LEMMA PassedOver ==
  ASSUME NEW op, Finite(op), NEW st, Len(st) = Len(stack), NEW count, NEW used,
         NEW t, NEW k, NEW done, NEW d, NEW q, NEW i,
         TakesHere(op, st, count, used, t, k, done, d, q, i), ~Leads(op, q, i)
  PROVE  Walks(op, st, Len(st), definitions, maxDepthSeen, count, used)
<1>1. i \notin Leading(op, q)
  BY DEF Leading
<1>2. Takes(op, st, Len(stack), definitions, maxDepthSeen, count, used, t, k, done, d, q, i)
  BY DEF TakesHere
<1>3. Walks(op, st, Len(stack), definitions, maxDepthSeen, count, used)
  BY <1>1, <1>2, Passes, Zenon
<1> QED  BY <1>3

\* A step that enters the set of a selection.
LEMMA SteppedInto ==
  ASSUME NEW op, Finite(op), NEW R, NEW F, NEW st \in Seq(Frames(R, F)),
         Len(st) = Len(stack), Len(stack) \in Nat,
         NEW count, NEW used, maxDepthSeen \in Nat,
         NEW t, NEW k, NEW done, NEW d, NEW q, NEW i,
         TakesHere(op, st, count, used, t, k, done, d, q, i), Leads(op, q, i),
         NEW p, p = Within(op, q, i), NEW fragment,
         p.on = q.on \cup ({fragment} \ {NoFragment}), Call(st, p.set, p.depth, fragment)
  PROVE  Walks(op, stack', Len(stack'), definitions, maxDepthSeen', count, used)
<1> DEFINE n == Len(stack)
<1>1. stack' = Append(st, Frame(p.set, p.depth, fragment))
      /\ maxDepthSeen' = Larger(maxDepthSeen, p.depth)
  BY DEF Call, Frame
<1>2. PICK st1, frame, G : /\ frame = Frame(p.set, p.depth, fragment)
                           /\ G = Frames(R, F) \cup {frame} /\ st1 = Append(st, frame)
  OBVIOUS
<1>3. /\ Len(st1) = n + 1 /\ \A j \in 1..n : st1[j] = st[j]
      /\ st1[n + 1] = Frame(p.set, p.depth, fragment)
  <2>1. st \in Seq(G) /\ frame \in G
    <3>1. Frames(R, F) \subseteq G /\ frame \in G
      BY <1>2
    <3> QED  BY <3>1, SeqMonotonic
  <2> QED  BY <1>2, <2>1, AppendProperties
<1>4. i \in Leading(op, q) /\ q \in Places(op) /\ q.on = OnPath(st, n)
      /\ Takes(op, st, n, definitions, maxDepthSeen, count, used, t, k, done, d, q, i)
  BY DEF Leading, TakesHere
<1>5. PICK l : l = Larger(maxDepthSeen, p.depth)
  OBVIOUS
<1> HIDE DEF n
<1>6. n \in Nat
  BY DEF n
<1>7. Walks(op, st1, n + 1, definitions, l, count, used)
  BY <1>3, <1>4, <1>5, <1>6, EntersSelection, ZenonT(60)
<1> QED  BY <1>1, <1>2, <1>3, <1>5, <1>7

\* A step of the walk, and one that does not judge.
LEMMA WalkStep ==
  ASSUME Inv, VInv, [Next]_vars, pc' = "walk"
  PROVE  Walking'
<1> DEFINE op == Operation
<1>1. pc \in {"operation", "walk"} /\ operations' = operations /\ at' = at
  BY DEF Next, vars, seen, Malformed, Analyze, WalkDefinition, SelectField, SelectInline,
         SelectSpread, Return, Conclude, End, Selecting
<1>2. Operation' = Operation /\ Finite(op)
  <2>1. Operation' = Operation
    BY <1>1 DEF Operation
  <2>2. Operation.form = "document"
    BY DEF Inv, Scanning, Next, vars, seen, Malformed, Analyze, WalkDefinition, SelectField,
           SelectInline, SelectSpread, Return, Conclude, End, Selecting
  <2>3. at \in DOMAIN operations
    BY <1>1 DEF Inv, Scanning
  <2> QED  BY <2>1, <2>2, <2>3 DEF VInv, Judging, Operation
<1>3. /\ maxDepthSeen \in Nat /\ introspectionUsed \in BOOLEAN /\ introspectionUsed' \in BOOLEAN
      /\ fieldCount \in Nat
  <2>1. Inv'
    BY InvNext
  <2> QED  BY <2>1, LimitsAssumption DEF Inv, TypeOK
<1>4. Walking /\ Judging
  BY DEF VInv
<1> HIDE DEF op
<1>5. SUFFICES Walks(op, stack', Len(stack'), definitions', maxDepthSeen', fieldCount',
                     introspectionUsed')
  BY <1>2 DEF Walking, op
<1>6. CASE Malformed \/ Conclude
  BY <1>6 DEF Malformed, Conclude, End
<1>7. CASE Analyze
  <2>1. /\ definitions' = op.definitions /\ maxDepthSeen' = 0 /\ fieldCount' = 0
        /\ introspectionUsed' = FALSE /\ stack' = <<>> /\ Len(<<>>) = 0
    BY <1>7 DEF Analyze, Inv, Calling, op
  <2>2. Walks(op, <<>>, 0, op.definitions, 0, 0, FALSE)
    BY <1>2, Starts
  <2> QED  BY <2>1, <2>2
<1>8. CASE WalkDefinition
  <2>1. /\ pc = "walk" /\ stack = <<>> /\ definitions # <<>> /\ definitions' = Tail(definitions)
        /\ UNCHANGED <<fieldCount, introspectionUsed>>
        /\ stack' = Append(<<>>, Frame(Head(definitions), 1, NoFragment))
        /\ maxDepthSeen' = Larger(maxDepthSeen, 1) /\ Len(<<>>) = 0
    BY <1>8 DEF WalkDefinition, Call, Frame
  <2>2. Walks(op, <<>>, 0, definitions, maxDepthSeen, fieldCount, introspectionUsed)
    BY <1>4, <2>1 DEF Walking, op
  <2>3. PICK frame, st1 : /\ frame = Frame(Head(definitions), 1, NoFragment)
                          /\ st1 = Append(<<>>, frame)
    OBVIOUS
  <2>4. st1 = <<frame>> /\ Len(st1) = 1 /\ st1[1] = frame
    BY <2>3
  <2>5. Walks(op, st1, 1, Tail(definitions), Larger(maxDepthSeen, 1), fieldCount,
              introspectionUsed)
    <3>1. st1[1] = Frame(Head(definitions), 1, NoFragment)
      BY <2>3, <2>4
    <3> QED  BY <1>2, <1>3, <2>1, <2>2, <3>1, EntersDefinition
  <2> QED  BY <2>1, <2>3, <2>4, <2>5
<1>9. CASE SelectField
  <2>1. /\ Selecting("field") /\ fieldCount' = fieldCount + 1
        /\ introspectionUsed' <=> introspectionUsed \/ Selection.name = "__schema"
        /\ definitions' = definitions
    BY <1>3, <1>9 DEF SelectField
  <2>2. PICK count, used :
           /\ used \in BOOLEAN /\ count = fieldCount' /\ used = introspectionUsed'
           /\ used <=> introspectionUsed \/ ("field" = "field" /\ Selection.name = "__schema")
    BY <1>3, <2>1
  <2>3. /\ Len(stack) \in Nat \ {0} /\ Len(Taken) = Len(stack)
        /\ \E R, F : Taken \in Seq(Frames(R, F))
        /\ \E t, k, done, d, q, i : TakesHere(op, Taken, count, used, t, k, done, d, q, i)
    BY <1>4, <2>1, <2>2, Selected DEF op
  <2>4. PICK R, F : Taken \in Seq(Frames(R, F))
    BY <2>3
  <2>5. PICK t, k, done, d, q, i : TakesHere(op, Taken, count, used, t, k, done, d, q, i)
    BY <2>3
  <2>6. q.set[i] = Selection /\ q.depth = Top.depth /\ Selection.kind = "field"
    BY <2>1, <2>5 DEF TakesHere, Selecting
  <2>7. CASE Selection.set # <<>>
    <3>1. PICK p : p = Within(op, q, i)
      OBVIOUS
    <3>2. p.set = Selection.set /\ p.depth = Top.depth + 1 /\ p.on = q.on
      BY <2>6, <3>1 DEF Within
    <3>3. Leads(op, q, i) /\ p.on = q.on \cup ({NoFragment} \ {NoFragment})
      BY <2>6, <2>7, <3>2 DEF Leads
    <3>4. Call(Taken, p.set, p.depth, NoFragment)
      BY <1>9, <2>7, <3>2 DEF SelectField
    <3> QED  BY <1>2, <1>3, <2>1, <2>2, <2>3, <2>4, <2>5, <3>1, <3>3, <3>4, SteppedInto
  <2>8. CASE Selection.set = <<>>
    <3>1. ~Leads(op, q, i)
      BY <2>6, <2>8 DEF Leads
    <3>2. stack' = Taken /\ maxDepthSeen' = maxDepthSeen
      BY <1>9, <2>8 DEF SelectField
    <3> QED  BY <1>2, <2>1, <2>2, <2>3, <2>5, <3>1, <3>2, PassedOver
  <2> QED  BY <2>7, <2>8
<1>10. CASE SelectInline
  <2>1. /\ Selecting("inline") /\ UNCHANGED <<fieldCount, introspectionUsed, definitions>>
    BY <1>10 DEF SelectInline
  <2>2. PICK count, used :
           /\ used \in BOOLEAN /\ count = fieldCount /\ used = introspectionUsed
           /\ used <=> introspectionUsed \/ ("inline" = "field" /\ Selection.name = "__schema")
    BY <1>3
  <2>3. /\ Len(stack) \in Nat \ {0} /\ Len(Taken) = Len(stack)
        /\ \E R, F : Taken \in Seq(Frames(R, F))
        /\ \E t, k, done, d, q, i : TakesHere(op, Taken, count, used, t, k, done, d, q, i)
    BY <1>4, <2>1, <2>2, Selected DEF op
  <2>4. PICK R, F : Taken \in Seq(Frames(R, F))
    BY <2>3
  <2>5. PICK t, k, done, d, q, i : TakesHere(op, Taken, count, used, t, k, done, d, q, i)
    BY <2>3
  <2>6. q.set[i] = Selection /\ q.depth = Top.depth /\ Selection.kind = "inline"
    BY <2>1, <2>5 DEF TakesHere, Selecting
  <2>7. PICK p : p = Within(op, q, i)
    OBVIOUS
  <2>8. p.set = Selection.set /\ p.depth = Top.depth /\ p.on = q.on
    BY <2>6, <2>7 DEF Within
  <2>9. Leads(op, q, i) /\ p.on = q.on \cup ({NoFragment} \ {NoFragment})
    BY <2>6, <2>8 DEF Leads
  <2>10. Call(Taken, p.set, p.depth, NoFragment)
    BY <1>10, <2>8 DEF SelectInline
  <2> QED  BY <1>2, <1>3, <2>1, <2>2, <2>3, <2>4, <2>5, <2>7, <2>9, <2>10, SteppedInto
<1>11. CASE SelectSpread
  <2>1. /\ Selecting("spread") /\ UNCHANGED <<fieldCount, introspectionUsed, definitions>>
    BY <1>11 DEF SelectSpread
  <2>2. PICK count, used :
           /\ used \in BOOLEAN /\ count = fieldCount /\ used = introspectionUsed
           /\ used <=> introspectionUsed \/ ("spread" = "field" /\ Selection.name = "__schema")
    BY <1>3
  <2>3. /\ Len(stack) \in Nat \ {0} /\ Len(Taken) = Len(stack)
        /\ \E R, F : Taken \in Seq(Frames(R, F))
        /\ \E t, k, done, d, q, i : TakesHere(op, Taken, count, used, t, k, done, d, q, i)
    BY <1>4, <2>1, <2>2, Selected DEF op
  <2>4. PICK R, F : Taken \in Seq(Frames(R, F))
    BY <2>3
  <2>5. PICK t, k, done, d, q, i : TakesHere(op, Taken, count, used, t, k, done, d, q, i)
    BY <2>3
  <2>6. /\ q.set[i] = Selection /\ q.depth = Top.depth /\ Selection.kind = "spread"
        /\ q.on = seenFragments
    BY <2>1, <2>5 DEF TakesHere, Selecting
  <2>7. MayEnter(Selection.name) <=> Leads(op, q, i)
    BY <2>6 DEF MayEnter, Defined, Leads, op
  <2>8. CASE MayEnter(Selection.name)
    <3>1. PICK p, name : p = Within(op, q, i) /\ name = Selection.name
      OBVIOUS
    <3>2. /\ p.set = op.fragments[name] /\ p.depth = Top.depth /\ p.on = q.on \cup {name}
          /\ name \in DOMAIN op.fragments
      BY <2>6, <2>8, <3>1 DEF Within, MayEnter, Defined, op
    <3>3. name # NoFragment
      <4>1. NoFragment \notin DOMAIN op.fragments
        <5>1. pc = "walk"
          BY <2>1 DEF Selecting
        <5> QED  BY <5>1 DEF Inv, Scanning, Operation, op
      <4> QED  BY <3>2, <4>1
    <3>4. Leads(op, q, i) /\ p.on = q.on \cup ({name} \ {NoFragment})
      BY <2>7, <2>8, <3>2, <3>3
    <3>5. Call(Taken, p.set, p.depth, name)
      BY <1>11, <2>8, <3>1, <3>2 DEF SelectSpread, op
    <3> QED  BY <1>2, <1>3, <2>1, <2>2, <2>3, <2>4, <2>5, <3>1, <3>4, <3>5, SteppedInto
  <2>9. CASE ~MayEnter(Selection.name)
    <3>1. stack' = Taken /\ maxDepthSeen' = maxDepthSeen
      BY <1>11, <2>9 DEF SelectSpread
    <3> QED  BY <1>2, <2>1, <2>2, <2>3, <2>5, <2>7, <2>9, <3>1, PassedOver
  <2> QED  BY <2>8, <2>9
<1>12. CASE Return
  <2> DEFINE n == Len(stack)
  <2>1. /\ pc = "walk" /\ stack # <<>> /\ stack' = SubSeq(stack, 1, n - 1)
        /\ UNCHANGED <<definitions, maxDepthSeen, fieldCount, introspectionUsed>>
        /\ Over(maxDepthSeen, fieldCount) \/ stack[n].rest = <<>>
    BY <1>12 DEF Return, seen, Top, Over, OverLimit
  <2>2. PICK R, F : stack \in Seq(Frames(R, F))
    BY DEF Inv, Calling
  <2>3. /\ n \in Nat \ {0} /\ DOMAIN stack = 1..n
        /\ \A i \in 1..n : stack[i] \in Frames(R, F)
    BY <2>1, <2>2, StackFacts
  <2>4. PICK st : st = stack
    OBVIOUS
  <2>5. Walks(op, st, n, definitions, maxDepthSeen, fieldCount, introspectionUsed)
    BY <1>4, <2>1, <2>4 DEF Walking, op
  <2> HIDE DEF n
  <2>6. PICK st1, e, G : st1 = SubSeq(st, 1, n - 1) /\ e = n - 1 /\ G = Frames(R, F)
    OBVIOUS
  <2>7. /\ Len(st1) = n - 1 /\ \A j \in 1..(n - 1) : st1[j] = st[j]
    <3>1. /\ e \in Nat /\ 1..e \subseteq 1..n /\ e - 1 + 1 = e /\ (1 <= e \/ e = 0)
          /\ \A i \in 1..e : 1 + i - 1 = i
      BY <2>3, <2>6
    <3>2. \A i \in 1..e : st[i] \in G
      BY <2>3, <2>4, <2>6, <3>1
    <3>3. /\ Len(SubSeq(st, 1, e)) = IF 1 <= e THEN e - 1 + 1 ELSE 0
          /\ \A i \in 1..(e - 1 + 1) : SubSeq(st, 1, e)[i] = st[1 + i - 1]
      BY <3>1, <3>2, SubSeqProperties
    <3>4. Len(SubSeq(st, 1, e)) = e /\ \A i \in 1..e : SubSeq(st, 1, e)[i] = st[i]
      BY <3>1, <3>3
    <3> QED  BY <2>6, <3>4
  <2>8. Walks(op, st1, n - 1, definitions, maxDepthSeen, fieldCount, introspectionUsed)
    BY <1>2, <2>1, <2>3, <2>4, <2>5, <2>7, Leaves
  <2> QED  BY <2>1, <2>4, <2>6, <2>7, <2>8
<1>13. CASE UNCHANGED vars
  BY <1>4, <1>13 DEF vars, seen, Walking, op
<1> QED
  BY <1>6, <1>7, <1>8, <1>9, <1>10, <1>11, <1>12, <1>13 DEF Next

LEMMA VInvNext == Inv /\ VInv /\ [Next]_vars => VInv'
<1> SUFFICES ASSUME Inv, VInv, [Next]_vars PROVE VInv'
  OBVIOUS
<1>1. Walking'
  <2>1. CASE pc' = "walk"
    BY <2>1, WalkStep
  <2>2. CASE pc' # "walk"
    BY <2>2 DEF Walking
  <2> QED  BY <2>1, <2>2
<1>2. CASE Malformed
  <2>1. /\ pc = "operation" /\ pc' = "ended" /\ verdict' = "graphql-malformed"
        /\ UNCHANGED <<operations, at>> /\ Operation.form # "document"
    BY <1>2 DEF Malformed, End
  <2>2. /\ Len(operations) \in Nat /\ ~(Len(operations) > MaxBatchSize)
        /\ \A i \in 1..(at - 1) : Harmless(operations[i])
    BY <2>1, LimitsAssumption DEF VInv, Judging, Inv, Scanning
  <2>3. Judging'
    BY <2>1 DEF VInv, Judging
  <2>4. VerdictIsTrue'
    BY <2>1, <2>2 DEF VerdictIsTrue, Operation, Categories
  <2> QED  BY <1>1, <2>3, <2>4 DEF VInv
<1>3. CASE Analyze \/ WalkDefinition \/ SelectField \/ SelectInline \/ SelectSpread \/ Return
  <2>1. /\ pc # "ended" /\ pc' # "ended" /\ UNCHANGED <<operations, at, verdict>>
    BY <1>3 DEF Analyze, WalkDefinition, SelectField, SelectInline, SelectSpread, Selecting, Return
  <2> QED  BY <1>1, <2>1 DEF VInv, Judging, VerdictIsTrue
<1>4. CASE Conclude
  <2>1. /\ pc = "walk" /\ stack = <<>> /\ definitions = <<>> /\ operations' = operations
        /\ Len(<<>>) = 0
    BY <1>4 DEF Conclude
  <2>2. /\ Operation.form = "document" /\ at \in 1..Len(operations) /\ Len(operations) \in Nat
        /\ DOMAIN operations = 1..Len(operations)
        /\ maxDepthSeen \in Nat /\ introspectionUsed \in BOOLEAN
    BY <2>1, LimitsAssumption DEF Inv, Scanning, TypeOK
  <2>3. /\ Finite(Operation) /\ verdict = "none" /\ ~(Len(operations) > MaxBatchSize)
        /\ Len(operations) <= MaxBatchSize
        /\ \A i \in 1..(at - 1) : Harmless(operations[i])
    BY <2>1, <2>2, LimitsAssumption DEF VInv, Judging, Operation
  <2>4. Walks(Operation, <<>>, 0, <<>>, maxDepthSeen, fieldCount, introspectionUsed)
    BY <2>1 DEF VInv, Walking
  <2>5. /\ introspectionUsed => Introspective(Operation)
        /\ maxDepthSeen > MaxDepth => TooDeep(Operation)
        /\ fieldCount > MaxComplexity => TooComplex(Operation)
        /\ ~Over(maxDepthSeen, fieldCount) /\ (introspectionUsed => AllowIntrospection) =>
               Harmless(Operation)
    BY <2>2, <2>3, <2>4, WalkEnds
  <2>6. /\ Result = "graphql-introspection" => Introspective(Operation)
        /\ Result = "graphql-depth" => TooDeep(Operation)
        /\ Result = "graphql-complexity" => TooComplex(Operation)
        /\ Result = "allow" => Harmless(Operation)
        /\ Result \in {"allow", "graphql-introspection", "graphql-depth", "graphql-complexity"}
    BY <2>5 DEF Result, Over
  <2>7. \A i \in 1..at : i \in 1..(at - 1) \/ i = at
    BY <2>2
  <2>8. Result = "allow" => \A i \in 1..at : Harmless(operations[i])
    BY <2>3, <2>6, <2>7 DEF Operation
  <2>9. CASE Result = "allow" /\ at < Len(operations)
    <3>1. pc' = "operation" /\ at' = at + 1 /\ verdict' = verdict
      BY <1>4, <2>9 DEF Conclude
    <3>2. at' - 1 = at
      BY <2>2, <3>1
    <3>3. Judging'
      BY <2>1, <2>3, <2>8, <2>9, <3>1, <3>2 DEF VInv, Judging
    <3>4. VerdictIsTrue'
      BY <3>1 DEF VerdictIsTrue
    <3> QED  BY <1>1, <3>3, <3>4 DEF VInv
  <2>10. CASE ~(Result = "allow" /\ at < Len(operations))
    <3>1. pc' = "ended" /\ verdict' = Result /\ at' = at
      BY <1>4, <2>10 DEF Conclude, End
    <3>2. Result = "allow" => at = Len(operations)
      <4>1. PICK n : n = Len(operations)
        OBVIOUS
      <4>2. n \in Nat /\ at \in 1..n
        BY <2>2, <4>1
      <4>3. ~(at < n) => at = n
        BY <4>2
      <4> QED  BY <2>10, <4>1, <4>3
    <3>3. Judging'
      BY <2>1, <3>1 DEF VInv, Judging
    <3>4. Operation' = Operation
      BY <2>1, <3>1 DEF Operation
    <3>5. VerdictIsTrue'
      <4>1. /\ ~(Len(operations') > MaxBatchSize) /\ verdict' # "graphql-batching"
            /\ verdict' # "graphql-malformed"
        BY <2>1, <2>3, <2>6, <3>1
      <4>2. verdict' = "allow" => \A i \in DOMAIN operations' : Harmless(operations'[i])
        BY <2>1, <2>2, <2>8, <3>1, <3>2
      <4>3. \A i \in 1..(at' - 1) : Harmless(operations'[i])
        BY <2>1, <2>3, <3>1
      <4>4. /\ verdict' = "graphql-introspection" => Introspective(Operation')
            /\ verdict' = "graphql-depth" => TooDeep(Operation')
            /\ verdict' = "graphql-complexity" => TooComplex(Operation')
        BY <2>6, <3>1, <3>4
      <4> QED  BY <4>1, <4>2, <4>3, <4>4 DEF VerdictIsTrue
    <3> QED  BY <1>1, <3>3, <3>5 DEF VInv
  <2> QED  BY <2>9, <2>10
<1>5. CASE UNCHANGED vars
  BY <1>1, <1>5 DEF vars, VInv, Judging, VerdictIsTrue, Operation
<1> QED  BY <1>2, <1>3, <1>4, <1>5 DEF Next

\* What is allowed is harmless when its fragments are written out, and what is
\* denied is what the verdict says, whatever the batch, its queries and their
\* fragments (index.js:5-18, 36-78).
THEOREM VerdictHolds == Spec => []VerdictIsTrue
<1>1. VInv => VerdictIsTrue
  BY DEF VInv
<1> QED  BY <1>1, VInvInit, VInvNext, Invariance, PTL DEF Spec

=============================================================================
