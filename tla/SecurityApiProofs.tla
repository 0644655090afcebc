------------------------- MODULE SecurityApiProofs -------------------------
(***************************************************************************)
(* Theorems about SecurityApi: the feed drops, repeats and reorders        *)
(* nothing, however pages come and go, a page that joins the feed and then *)
(* asks for the history has all of it, an answer is the latest there is,   *)
(* and an attack goes by its own name.                                     *)
(***************************************************************************)
EXTENDS SecurityApi, SequenceTheorems, FiniteSetTheorems, TLAPS

Events == [id : Nat, decision : {"allow", "block"}]

\* A page that is not open has no answer, and one that is gone has heard
\* nothing yet.
Pages ==
    /\ heard \in [Connections -> Seq(Events)]
    /\ joined \in [Connections -> Nat]
    /\ answer = [c \in Connections |-> answer[c]]
    /\ \A c \in Connections : /\ socket[c] = "none" => heard[c] = <<>>
                              /\ socket[c] # "OPEN" => answer[c] = <<>>

\* FeedIsWhole, event by event.
Heard ==
    \A c \in Connections :
        /\ Len(heard[c]) <= Len(published) - joined[c]
        /\ socket[c] = "OPEN" => Len(heard[c]) = Len(published) - joined[c]
        /\ \A i \in 1..Len(heard[c]) : heard[c][i] = published[joined[c] + i]

\* The ids of the history grow, and no threat has the next one yet.
Ordered ==
    /\ \A i \in DOMAIN entries : entries[i].id < nextId
    /\ \A i, j \in DOMAIN entries : i < j => entries[i].id < entries[j].id

\* The last threat has the name of what was blocked last.
Named ==
    matched # <<>> => matched \in Matches /\ Last(entries).category = Category(matched)

Inv == TypeOK /\ Pages /\ Heard /\ NothingBetween /\ Ordered /\ Named

-----------------------------------------------------------------------------
(* Array.prototype.filter                                                   *)

\* Induction over the naturals, for a set instead of an operator: a number that
\* is missing has a least one among its like.
LEMMA SetInduction ==
  ASSUME NEW S, 0 \in S, \A n \in Nat : n \in S => n + 1 \in S
  PROVE  \A n \in Nat : n \in S
<1> DEFINE T == Nat \ S
           Less == OpToRel(<, Nat)
<1>1. IsWellFoundedOn(Less, Nat)
  BY NatLessThanWellFounded, Zenon
<1>2. Less = {pair \in Nat \X Nat : pair[1] < pair[2]}
  BY Zenon DEF OpToRel
<1>3. \A m, n \in Nat : m < n => <<m, n>> \in Less
  BY <1>2
<1> HIDE DEF Less
<1>4. SUFFICES ASSUME T # {} PROVE FALSE
  OBVIOUS
<1>5. T \subseteq Nat
  OBVIOUS
<1> HIDE DEF T
<1>6. PICK n \in T : \A m \in T : <<m, n>> \notin Less
  BY <1>1, <1>4, <1>5, WFMin
<1>7. n \in Nat /\ n # 0
  BY <1>5, <1>6 DEF T
<1>8. n - 1 \in Nat /\ n - 1 < n /\ (n - 1) + 1 = n
  BY <1>7
<1>9. n - 1 \in T
  BY <1>6, <1>7, <1>8 DEF T
<1> QED  BY <1>3, <1>6, <1>7, <1>8, <1>9

\* What filter has kept of the first i elements, given what it kept of the
\* first i - 1.
Keeping(s, kept, upTo, i) ==
    IF i = 0 THEN <<>>
    ELSE IF s[i] \in kept THEN Append(upTo[i - 1], s[i]) ELSE upTo[i - 1]

\* The recursion defines a function.
LEMMA FilterDefined ==
  ASSUME NEW s, NEW kept, Len(s) \in Nat
  PROVE  \E upTo : /\ upTo = [i \in 0..Len(s) |-> Keeping(s, kept, upTo, i)]
                   /\ Filter(s, kept) = upTo[Len(s)]
<1> DEFINE Is(n, upTo) == upTo = [i \in 0..n |-> Keeping(s, kept, upTo, i)]
           S == {n \in Nat : \E upTo : Is(n, upTo)}
<1>1. 0 \in S
  <2>1. Is(0, [i \in 0..0 |-> <<>>])
    BY DEF Keeping
  <2> QED  BY <2>1
<1>2. ASSUME NEW n \in Nat, n \in S PROVE n + 1 \in S
  <2>1. PICK upTo : Is(n, upTo)
    BY <1>2
  <2> DEFINE more == [i \in 0..(n + 1) |->
                         IF i = n + 1 THEN Keeping(s, kept, upTo, i) ELSE upTo[i]]
  <2>2. ASSUME NEW i \in 0..(n + 1) PROVE more[i] = Keeping(s, kept, more, i)
    <3>1. i # 0 => i - 1 \in 0..(n + 1) /\ i - 1 # n + 1 /\ more[i - 1] = upTo[i - 1]
      OBVIOUS
    <3>2. Keeping(s, kept, more, i) = Keeping(s, kept, upTo, i)
      <4> HIDE DEF more
      <4> QED  BY <3>1 DEF Keeping
    <3>3. CASE i = n + 1
      BY <3>2, <3>3
    <3>4. CASE i # n + 1
      <4>1. i \in 0..n /\ more[i] = upTo[i]
        BY <3>4
      <4> QED  BY <2>1, <3>2, <4>1
    <3> QED  BY <3>3, <3>4
  <2>3. Is(n + 1, more)
    <3>1. more = [i \in 0..(n + 1) |-> more[i]]
      OBVIOUS
    <3> HIDE DEF more
    <3> QED  BY <2>2, <3>1
  <2> HIDE DEF more, Is
  <2> QED  BY <2>3
<1>3. \E upTo : Is(Len(s), upTo)
  <2> HIDE DEF S
  <2>1. \A n \in Nat : n \in S
    BY <1>1, <1>2, SetInduction
  <2> QED  BY <2>1 DEF S
<1> DEFINE chosen == CHOOSE upTo : Is(Len(s), upTo)
<1>4. Is(Len(s), chosen)
  BY <1>3, Zenon
<1>5. Filter(s, kept) = chosen[Len(s)]
  BY DEF Filter, Keeping
<1> HIDE DEF chosen
<1> QED  BY <1>4, <1>5

\* t has the elements of s up to n that are in kept, and whatever relates the
\* elements of s in their order relates those of t.
Kept(t, s, n, kept, S) ==
    /\ t \in Seq(S)
    /\ \A i \in 1..Len(t) : t[i] \in kept /\ \E j \in 1..n : t[i] = s[j]
    /\ \A j \in 1..n : s[j] \in kept => \E i \in 1..Len(t) : t[i] = s[j]
    /\ \A R : (\A i, j \in 1..n : i < j => <<s[i], s[j]>> \in R)
                  => \A i, j \in 1..Len(t) : i < j => <<t[i], t[j]>> \in R

LEMMA KeptMore ==
  ASSUME NEW S, NEW s \in Seq(S), NEW kept, NEW t,
         NEW n \in Nat, n + 1 <= Len(s), Kept(t, s, n, kept, S)
  PROVE  Kept(IF s[n + 1] \in kept THEN Append(t, s[n + 1]) ELSE t, s, n + 1, kept, S)
<1>1. /\ t \in Seq(S) /\ Len(t) \in Nat /\ Len(s) \in Nat /\ n + 1 \in 1..Len(s)
      /\ s[n + 1] \in S
  BY LenProperties, ElementOfSeq DEF Kept
<1>2. CASE s[n + 1] \notin kept
  <2>1. \A i \in 1..(n + 1) : i \in 1..n \/ i = n + 1
    OBVIOUS
  <2>2. 1..n \subseteq 1..(n + 1)
    OBVIOUS
  <2>3. Kept(t, s, n + 1, kept, S)
    BY <1>1, <1>2, <2>1, <2>2, Zenon DEF Kept
  <2> QED  BY <1>2, <2>3
<1>3. CASE s[n + 1] \in kept
  <2> DEFINE x == s[n + 1]
             m == Len(t)
             u == Append(t, x)
  <2>1. /\ u \in Seq(S) /\ Len(u) = m + 1
        /\ \A i \in 1..m : u[i] = t[i]
        /\ u[m + 1] = x
    BY <1>1, AppendProperties
  <2>2. m \in Nat /\ x \in kept /\ x = s[n + 1]
    BY <1>1, <1>3
  <2>3. /\ \A i \in 1..m : t[i] \in kept /\ \E j \in 1..n : t[i] = s[j]
        /\ \A j \in 1..n : s[j] \in kept => \E i \in 1..m : t[i] = s[j]
    BY DEF Kept
  <2> HIDE DEF u, m, x
  <2>4. \A i \in 1..Len(u) : i \in 1..m \/ i = m + 1
    BY <2>1, <2>2
  <2>5. \A j \in 1..(n + 1) : j \in 1..n \/ j = n + 1
    OBVIOUS
  <2>6. /\ 1..n \subseteq 1..(n + 1) /\ n + 1 \in 1..(n + 1)
        /\ 1..m \subseteq 1..Len(u) /\ m + 1 \in 1..Len(u)
    BY <2>1, <2>2
  <2>7. ASSUME NEW i \in 1..Len(u) PROVE u[i] \in kept /\ \E j \in 1..(n + 1) : u[i] = s[j]
    <3>1. CASE i \in 1..m
      <4>1. u[i] = t[i] /\ t[i] \in kept
        BY <2>1, <2>3, <3>1
      <4>2. PICK j \in 1..n : t[i] = s[j]
        BY <2>3, <3>1
      <4> QED  BY <2>6, <4>1, <4>2
    <3>2. CASE i = m + 1
      <4>1. u[i] = s[n + 1] /\ u[i] \in kept
        BY <2>1, <2>2, <3>2
      <4> QED  BY <2>6, <4>1
    <3> QED  BY <2>4, <3>1, <3>2
  <2>8. ASSUME NEW j \in 1..(n + 1), s[j] \in kept PROVE \E i \in 1..Len(u) : u[i] = s[j]
    <3>1. CASE j \in 1..n
      <4>1. PICK i \in 1..m : t[i] = s[j]
        BY <2>3, <2>8, <3>1
      <4>2. u[i] = s[j] /\ i \in 1..Len(u)
        BY <2>1, <2>6, <4>1
      <4> QED  BY <4>2
    <3>2. CASE j = n + 1
      BY <2>1, <2>2, <2>6, <3>2
    <3> QED  BY <2>5, <3>1, <3>2
  <2>9. ASSUME NEW R, \A i, j \in 1..(n + 1) : i < j => <<s[i], s[j]>> \in R,
               NEW i \in 1..Len(u), NEW j \in 1..Len(u), i < j
        PROVE  <<u[i], u[j]>> \in R
    <3>1. i \in 1..m
      BY <2>1, <2>2, <2>9
    <3>2. CASE j \in 1..m
      <4>1. \A k, l \in 1..n : k < l => <<s[k], s[l]>> \in R
        BY <2>6, <2>9
      <4>2. \A k, l \in 1..m : k < l => <<t[k], t[l]>> \in R
        BY <4>1 DEF Kept, m
      <4> QED  BY <2>1, <2>9, <3>1, <3>2, <4>2
    <3>3. CASE j = m + 1
      <4>1. PICK k \in 1..n : t[i] = s[k]
        BY <2>3, <3>1
      <4>2. k < n + 1
        OBVIOUS
      <4> QED  BY <2>1, <2>2, <2>6, <2>9, <3>1, <3>3, <4>1, <4>2
    <3> QED  BY <2>4, <3>2, <3>3
  <2>10. Kept(u, s, n + 1, kept, S)
    BY <2>1, <2>7, <2>8, <2>9 DEF Kept
  <2> QED  BY <1>3, <2>10 DEF u, x
<1> QED  BY <1>2, <1>3

\* filter keeps what it is asked to keep, and the order.
LEMMA FilterKeeps ==
  ASSUME NEW S, NEW s \in Seq(S), NEW kept
  PROVE  Kept(Filter(s, kept), s, Len(s), kept, S)
<1>1. Len(s) \in Nat
  BY LenProperties
<1>2. PICK upTo : /\ upTo = [i \in 0..Len(s) |-> Keeping(s, kept, upTo, i)]
                  /\ Filter(s, kept) = upTo[Len(s)]
  BY <1>1, FilterDefined
<1>3. \A i \in 0..Len(s) : upTo[i] = Keeping(s, kept, upTo, i)
  BY <1>2, Zenon
<1> DEFINE P == {n \in Nat : n <= Len(s) => Kept(upTo[n], s, n, kept, S)}
<1>4. 0 \in P
  <2>1. upTo[0] = <<>>
    BY <1>1, <1>3 DEF Keeping
  <2>2. <<>> \in Seq(S) /\ Len(<<>>) = 0 /\ 1..0 = {}
    BY EmptySeq
  <2>3. Kept(<<>>, s, 0, kept, S)
    BY <2>2 DEF Kept
  <2> QED  BY <2>1, <2>3
<1>5. ASSUME NEW n \in Nat, n \in P PROVE n + 1 \in P
  <2> SUFFICES ASSUME n + 1 <= Len(s) PROVE Kept(upTo[n + 1], s, n + 1, kept, S)
    OBVIOUS
  <2>1. Kept(upTo[n], s, n, kept, S)
    BY <1>1, <1>5
  <2>2. upTo[n + 1] = IF s[n + 1] \in kept THEN Append(upTo[n], s[n + 1]) ELSE upTo[n]
    <3>1. n + 1 \in 0..Len(s) /\ n + 1 # 0 /\ (n + 1) - 1 = n
      BY <1>1
    <3> QED  BY <1>3, <3>1 DEF Keeping
  <2> QED  BY <2>1, <2>2, KeptMore
<1>6. Len(s) \in P
  <2> HIDE DEF P
  <2> QED  BY <1>1, <1>4, <1>5, SetInduction
<1> QED  BY <1>1, <1>2, <1>6

-----------------------------------------------------------------------------
(* The history                                                              *)

LEMMA CategoryType == \A m : Category(m) \in Categories
<1> SUFFICES ASSUME NEW id PROVE CategoryFor(id) \in Categories
  BY DEF Category
<1> DEFINE hits == {i \in DOMAIN CategoryRanges : Within(id, CategoryRanges[i])}
<1>1. CASE hits = {}
  BY <1>1 DEF CategoryFor, Categories
<1>2. CASE hits # {}
  <2>1. (CHOOSE i \in hits : TRUE) \in DOMAIN CategoryRanges
    BY <1>2
  <2>2. CategoryFor(id) = CategoryRanges[CHOOSE i \in hits : TRUE][3]
    BY <1>2 DEF CategoryFor
  <2> QED  BY <2>1, <2>2 DEF Categories
<1> QED  BY <1>1, <1>2

\* What recordThreat keeps is what there was, and the new threat
\* (threat-store.js:9-13).
LEMMA RememberFacts ==
  ASSUME TypeOK, NEW category \in Categories, Remember(category)
  PROVE  /\ entries' \in Threats /\ Len(entries') <= MaxEntries
         /\ nextId' \in Nat
         /\ \A e \in Range(entries') : e \in Range(entries) \/ e.id = nextId
         /\ Last(entries').category = category
         /\ Ordered => Ordered'
<1> DEFINE E == [id : Nat, category : Categories]
           e == [id |-> nextId, category |-> category]
           longer == Append(entries, e)
<1>1. /\ entries \in Seq(E) /\ Len(entries) <= MaxEntries /\ Len(entries) \in Nat
      /\ e \in E /\ e.id = nextId /\ e.category = category
      /\ nextId \in Nat /\ MaxEntries \in Nat \ {0}
  BY BoundsAssumption, LenProperties DEF TypeOK, Threats
<1>2. entries' = (IF Len(longer) > MaxEntries THEN Tail(longer) ELSE longer) /\ nextId' = nextId + 1
  BY DEF Remember
<1> HIDE DEF E, e
<1>3. /\ longer \in Seq(E) /\ Len(longer) = Len(entries) + 1 /\ longer # <<>>
      /\ \A i \in 1..Len(entries) : longer[i] = entries[i]
      /\ longer[Len(entries) + 1] = e
  BY <1>1, AppendProperties
<1> HIDE DEF longer
<1>4. /\ Tail(longer) \in Seq(E) /\ Len(Tail(longer)) = Len(longer) - 1
      /\ \A i \in 1..Len(Tail(longer)) : Tail(longer)[i] = longer[i + 1]
  BY <1>3, HeadTailProperties
<1>5. entries' \in Seq(E) /\ Len(entries') <= MaxEntries
  BY <1>1, <1>2, <1>3, <1>4
<1>6. ASSUME NEW j \in DOMAIN entries'
      PROVE  entries'[j] \in Range(entries) \/ entries'[j] = e
  <2>1. \A i \in 1..(Len(entries) + 1) : longer[i] \in Range(entries) \/ longer[i] = e
    <3>1. DOMAIN entries = 1..Len(entries)
      BY <1>1, LenProperties
    <3> QED  BY <1>1, <1>3, <3>1 DEF Range
  <2>2. j \in 1..Len(entries')
    BY <1>5, <1>6, LenProperties
  <2>3. \/ entries'[j] = longer[j] /\ j \in 1..(Len(entries) + 1)
        \/ entries'[j] = longer[j + 1] /\ j + 1 \in 1..(Len(entries) + 1)
    BY <1>1, <1>2, <1>3, <1>4, <2>2
  <2> QED  BY <2>1, <2>3
<1>7. \A x \in Range(entries') : x \in Range(entries) \/ x = e
  BY <1>6 DEF Range
<1>8. Last(entries') = e
  <2>1. entries'[Len(entries')] = longer[Len(longer)]
    <3>1. CASE entries' = longer
      BY <3>1
    <3>2. CASE entries' = Tail(longer) /\ Len(longer) > MaxEntries
      <4>1. Len(Tail(longer)) \in 1..Len(Tail(longer)) /\ Len(Tail(longer)) + 1 = Len(longer)
        BY <1>1, <1>3, <1>4, <3>2
      <4> QED  BY <1>4, <3>2, <4>1
    <3> QED  BY <1>2, <3>1, <3>2
  <2> QED  BY <1>3, <2>1 DEF Last
<1>9. ASSUME Ordered PROVE Ordered'
  <2>1. DOMAIN entries = 1..Len(entries) /\ DOMAIN entries' = 1..Len(entries')
    BY <1>1, <1>5, LenProperties
  <2>2. \A i \in 1..Len(entries) : entries[i].id \in Nat /\ entries[i].id < nextId
    <3>1. \A i \in 1..Len(entries) : entries[i] \in E
      BY <1>1, ElementOfSeq
    <3> QED  BY <1>9, <2>1, <3>1 DEF Ordered, E
  <2>3. \A i, j \in 1..Len(longer) : i < j => longer[i].id < longer[j].id
    <3> SUFFICES ASSUME NEW i \in 1..Len(longer), NEW j \in 1..Len(longer), i < j
                 PROVE  longer[i].id < longer[j].id
      OBVIOUS
    <3>1. i \in 1..Len(entries) /\ (j \in 1..Len(entries) \/ j = Len(entries) + 1)
      BY <1>1, <1>3
    <3>2. CASE j \in 1..Len(entries)
      BY <1>3, <1>9, <2>1, <3>1, <3>2 DEF Ordered
    <3>3. CASE j = Len(entries) + 1
      BY <1>1, <1>3, <2>2, <3>1, <3>3
    <3> QED  BY <3>1, <3>2, <3>3
  <2>4. \A i \in 1..Len(longer) : longer[i].id < nextId + 1
    <3> SUFFICES ASSUME NEW i \in 1..Len(longer) PROVE longer[i].id < nextId + 1
      OBVIOUS
    <3>1. i \in 1..Len(entries) \/ i = Len(entries) + 1
      BY <1>1, <1>3
    <3> QED  BY <1>1, <1>3, <2>2, <3>1
  <2>5. CASE entries' = longer
    BY <1>2, <2>1, <2>3, <2>4, <2>5 DEF Ordered
  <2>6. CASE entries' = Tail(longer)
    <3>1. \A i \in 1..Len(entries') : i + 1 \in 1..Len(longer) /\ entries'[i] = longer[i + 1]
      BY <1>1, <1>3, <1>4, <2>6
    <3>2. \A i, j \in 1..Len(entries') : i < j => i + 1 < j + 1
      OBVIOUS
    <3>3. \A i \in 1..Len(entries') : entries'[i].id < nextId + 1
      BY <2>4, <3>1
    <3>4. \A i, j \in 1..Len(entries') : i < j => entries'[i].id < entries'[j].id
      BY <2>3, <3>1, <3>2
    <3> QED  BY <1>2, <2>1, <3>3, <3>4 DEF Ordered
  <2> QED  BY <1>2, <2>5, <2>6
<1> QED  BY <1>1, <1>2, <1>5, <1>7, <1>8, <1>9 DEF E, Threats

-----------------------------------------------------------------------------
(* The feed                                                                 *)

\* Each open page hears an event when it is published (traffic-bus.js:14-16,
\* routes.js:64-68).
LEMMA PublishFacts ==
  ASSUME Inv, NEW event \in Events,
         published' = Append(published, event), Deliver(event),
         UNCHANGED <<socket, listening, joined, answer>>
  PROVE  /\ published' \in Seq(Events) /\ \A c \in Connections : joined'[c] \in 0..Len(published')
         /\ Pages' /\ Heard'
         /\ \A c \in Connections :
               /\ Len(heard[c]) \in Nat /\ Len(heard'[c]) \in Nat
               /\ Len(heard[c]) <= Len(heard'[c])
               /\ DOMAIN heard[c] = 1..Len(heard[c]) /\ DOMAIN heard'[c] = 1..Len(heard'[c])
               /\ \A i \in 1..Len(heard[c]) : heard'[c][i] = heard[c][i]
               /\ socket[c] = "OPEN" => /\ Len(heard'[c]) \in DOMAIN heard'[c]
                                        /\ heard'[c][Len(heard'[c])] = event
<1> DEFINE n == Len(published)
<1>1. /\ published \in Seq(Events) /\ n \in Nat
      /\ \A c \in Connections : /\ c \in listening <=> socket[c] # "none"
                                /\ joined[c] \in 0..n /\ heard[c] \in Seq(Events)
  BY LenProperties DEF Inv, TypeOK, Pages, Events
<1>2. /\ published' \in Seq(Events) /\ Len(published') = n + 1
      /\ \A i \in 1..n : published'[i] = published[i]
      /\ published'[n + 1] = event
  BY <1>1, AppendProperties
<1> HIDE DEF n
<1>3. \A c \in Connections : joined'[c] \in 0..Len(published')
  BY <1>1, <1>2
<1>4. ASSUME NEW c \in Connections, socket[c] = "OPEN"
      PROVE  /\ heard'[c] \in Seq(Events) /\ Len(heard'[c]) = Len(heard[c]) + 1
             /\ \A i \in 1..Len(heard[c]) : heard'[c][i] = heard[c][i]
             /\ heard'[c][Len(heard[c]) + 1] = event
  <2>1. heard'[c] = Append(heard[c], event)
    BY <1>1, <1>4 DEF Deliver
  <2> QED  BY <1>1, <2>1, AppendProperties
<1>5. \A c \in Connections : socket[c] # "OPEN" => heard'[c] = heard[c]
  BY DEF Deliver
<1>6. heard' = [c \in Connections |-> heard'[c]]
  BY DEF Deliver
<1>7. Pages'
  <2>1. \A c \in Connections : heard'[c] \in Seq(Events)
    BY <1>1, <1>4, <1>5
  <2>2. heard' \in [Connections -> Seq(Events)]
    BY <1>6, <2>1
  <2> QED  BY <1>5, <2>2 DEF Inv, Pages
<1>8. \A c \in Connections : Len(heard[c]) \in Nat /\ DOMAIN heard[c] = 1..Len(heard[c])
  BY <1>1, LenProperties
<1>9. Heard'
  <2> SUFFICES ASSUME NEW c \in Connections
               PROVE  /\ Len(heard'[c]) <= Len(published') - joined[c]
                      /\ socket[c] = "OPEN" => Len(heard'[c]) = Len(published') - joined[c]
                      /\ \A i \in 1..Len(heard'[c]) : heard'[c][i] = published'[joined[c] + i]
    BY DEF Heard
  <2>1. /\ Len(heard[c]) <= n - joined[c] /\ joined[c] \in 0..n /\ Len(heard[c]) \in Nat
        /\ socket[c] = "OPEN" => Len(heard[c]) = n - joined[c]
        /\ \A i \in 1..Len(heard[c]) : heard[c][i] = published[joined[c] + i]
    BY <1>1, <1>8 DEF Inv, Heard, n
  <2>2. \A i \in 1..Len(heard[c]) : heard[c][i] = published'[joined[c] + i]
    <3>1. \A i \in 1..Len(heard[c]) : joined[c] + i \in 1..n
      BY <1>1, <2>1
    <3> QED  BY <1>2, <2>1, <3>1
  <2>3. CASE socket[c] = "OPEN"
    <3>1. /\ Len(heard'[c]) = Len(heard[c]) + 1 /\ heard'[c][Len(heard[c]) + 1] = event
          /\ \A i \in 1..Len(heard[c]) : heard'[c][i] = heard[c][i]
          /\ Len(heard[c]) = n - joined[c]
      BY <1>4, <2>1, <2>3
    <3>2. /\ joined[c] + (Len(heard[c]) + 1) = n + 1
          /\ Len(heard'[c]) = Len(published') - joined[c]
          /\ Len(heard'[c]) <= Len(published') - joined[c]
      BY <1>1, <1>2, <2>1, <3>1
    <3>3. ASSUME NEW i \in 1..Len(heard'[c]) PROVE heard'[c][i] = published'[joined[c] + i]
      <4>1. i \in 1..Len(heard[c]) \/ i = Len(heard[c]) + 1
        BY <2>1, <3>1
      <4>2. CASE i \in 1..Len(heard[c])
        BY <2>2, <3>1, <4>2
      <4>3. CASE i = Len(heard[c]) + 1
        BY <1>2, <3>1, <3>2, <4>3
      <4> QED  BY <4>1, <4>2, <4>3
    <3> QED  BY <3>2, <3>3
  <2>4. CASE socket[c] # "OPEN"
    <3>1. heard'[c] = heard[c]
      BY <1>5, <2>4
    <3>2. Len(heard[c]) <= Len(published') - joined[c]
      BY <1>1, <1>2, <2>1
    <3> QED  BY <2>2, <2>4, <3>1, <3>2
  <2> QED  BY <2>3, <2>4
<1>10. ASSUME NEW c \in Connections
       PROVE  /\ Len(heard'[c]) \in Nat /\ Len(heard[c]) <= Len(heard'[c])
              /\ DOMAIN heard'[c] = 1..Len(heard'[c])
              /\ \A i \in 1..Len(heard[c]) : heard'[c][i] = heard[c][i]
              /\ socket[c] = "OPEN" => /\ Len(heard'[c]) \in DOMAIN heard'[c]
                                       /\ heard'[c][Len(heard'[c])] = event
  <2>1. CASE socket[c] = "OPEN"
    <3>1. DOMAIN heard'[c] = 1..Len(heard'[c])
      BY <1>4, <2>1, LenProperties
    <3> QED  BY <1>4, <1>8, <2>1, <3>1
  <2>2. CASE socket[c] # "OPEN"
    BY <1>5, <1>8, <2>2
  <2> QED  BY <2>1, <2>2
<1> QED  BY <1>2, <1>3, <1>7, <1>8, <1>9, <1>10

-----------------------------------------------------------------------------
(* The invariant                                                            *)

\* A page that asked for everything.
Whole(c) ==
    /\ socket[c] = "OPEN" /\ answer[c] # <<>>
    /\ answer[c].query.category = AnyCategory
    /\ answer[c].query.limit = 0 \/ answer[c].query.limit >= MaxEntries

\* Where a threat of the history was shown.
Shown(c, e) ==
    \/ e \in Range(answer[c].threats)
    \/ \E i \in DOMAIN heard[c] : heard[c][i].id = e.id

\* The answer to such a query has the whole history (threat-store.js:17-21).
LEMMA ListFacts ==
  ASSUME TypeOK, NEW limit \in Int, limit = 0 \/ limit >= MaxEntries
  PROVE  Range(entries) \subseteq Range(ListThreats(limit, AnyCategory))
<1>1. /\ entries \in Threats /\ Len(entries) \in Nat
      /\ MaxEntries \in Nat /\ Len(entries) <= MaxEntries
  BY BoundsAssumption, LenProperties DEF TypeOK, Threats
<1>2. DOMAIN entries = 1..Len(entries)
  BY <1>1, LenProperties DEF Threats
<1>3. ListThreats(limit, AnyCategory) = Reverse(entries)
  <2>1. LastOf(entries, limit) = entries
    BY <1>1 DEF LastOf
  <2> QED  BY <2>1 DEF ListThreats, Matching
<1>4. ASSUME NEW i \in 1..Len(entries) PROVE entries[i] \in Range(Reverse(entries))
  <2> DEFINE n == Len(entries)
  <2>1. n - i + 1 \in 1..n /\ n - (n - i + 1) + 1 = i
    BY <1>1
  <2>2. /\ DOMAIN Reverse(entries) = 1..n
        /\ Reverse(entries)[n - i + 1] = entries[n - (n - i + 1) + 1]
    BY <2>1 DEF Reverse
  <2> QED  BY <2>1, <2>2 DEF Range
<1> QED  BY <1>2, <1>3, <1>4 DEF Range

LEMMA InvInit == Init => Inv
<1> SUFFICES ASSUME Init PROVE Inv
  OBVIOUS
<1>1. TypeOK
  <2>1. entries \in Threats /\ Len(entries) = 0 /\ published \in Seq(Events) /\ Len(published) = 0
    BY DEF Init, Threats
  <2>2. Len(entries) <= MaxEntries
    BY <2>1, BoundsAssumption
  <2> QED  BY <2>1, <2>2 DEF Init, TypeOK, Events
<1>2. Pages /\ Heard
  <2>1. published = <<>> /\ Len(<<>>) = 0 /\ <<>> \in Seq(Events)
        /\ \A c \in Connections : heard[c] = <<>> /\ joined[c] = 0 /\ answer[c] = <<>>
    BY DEF Init
  <2> QED  BY <2>1 DEF Init, Pages, Heard
<1>3. NothingBetween /\ Ordered /\ Named
  BY DEF Init, NothingBetween, Ordered, Named
<1> QED  BY <1>1, <1>2, <1>3 DEF Inv

\* A page that had the whole history before a threat has it after.
LEMMA ShownStill ==
  ASSUME NothingBetween, UNCHANGED <<socket, answer>>, NEW event,
         \A c \in Connections :
             /\ DOMAIN heard[c] \subseteq DOMAIN heard'[c]
             /\ \A i \in DOMAIN heard[c] : heard'[c][i] = heard[c][i]
             /\ socket[c] = "OPEN" => \E i \in DOMAIN heard'[c] : heard'[c][i] = event,
         \A e \in Range(entries') : e \in Range(entries) \/ e.id = event.id
  PROVE  NothingBetween'
<1> SUFFICES ASSUME NEW c \in Connections, Whole(c), NEW e \in Range(entries')
             PROVE  \/ e \in Range(answer'[c].threats)
                    \/ \E i \in DOMAIN heard'[c] : heard'[c][i].id = e.id
  BY DEF NothingBetween, Whole
<1>1. CASE e \in Range(entries)
  BY <1>1 DEF NothingBetween, Whole
<1>2. CASE e.id = event.id
  BY <1>2 DEF Whole
<1> QED  BY <1>1, <1>2

LEMMA DecideKeeps ==
  ASSUME Inv, Decide
  PROVE  Inv'
<1>1. /\ TypeOK /\ Pages /\ Heard /\ NothingBetween /\ Ordered /\ Named
      /\ answer' = answer /\ nextId \in Nat
  BY DEF Inv, TypeOK, Decide
\* What is left once the history and the event are known.
<1>2. ASSUME NEW event \in Events,
             published' = Append(published, event), Deliver(event),
             UNCHANGED <<socket, listening, joined>>,
             matched' \in Matches \cup {<<>>},
             entries' \in Threats, Len(entries') <= MaxEntries, nextId' \in Nat,
             \A e \in Range(entries') : e \in Range(entries) \/ e.id = event.id,
             Ordered', Named'
      PROVE  Inv'
  <2>1. /\ published' \in Seq(Events) /\ \A c \in Connections : joined'[c] \in 0..Len(published')
        /\ Pages' /\ Heard'
        /\ \A c \in Connections :
               /\ Len(heard[c]) \in Nat /\ Len(heard'[c]) \in Nat
               /\ Len(heard[c]) <= Len(heard'[c])
               /\ DOMAIN heard[c] = 1..Len(heard[c]) /\ DOMAIN heard'[c] = 1..Len(heard'[c])
               /\ \A i \in 1..Len(heard[c]) : heard'[c][i] = heard[c][i]
               /\ socket[c] = "OPEN" => /\ Len(heard'[c]) \in DOMAIN heard'[c]
                                        /\ heard'[c][Len(heard'[c])] = event
    BY <1>1, <1>2, PublishFacts
  <2>2. NothingBetween'
    <3>1. \A c \in Connections :
             /\ DOMAIN heard[c] \subseteq DOMAIN heard'[c]
             /\ \A i \in DOMAIN heard[c] : heard'[c][i] = heard[c][i]
             /\ socket[c] = "OPEN" => \E i \in DOMAIN heard'[c] : heard'[c][i] = event
      BY <2>1
    <3> QED  BY <1>1, <1>2, <3>1, ShownStill
  <2>3. TypeOK'
    BY <1>1, <1>2, <2>1 DEF TypeOK, Events
  <2> QED  BY <1>2, <2>1, <2>2, <2>3 DEF Inv
<1>3. CASE Allow
  <2> DEFINE event == [id |-> 0, decision |-> "allow"]
  <2>1. event \in Events
    BY DEF Events
  <2>2. /\ published' = Append(published, event) /\ Deliver(event)
        /\ UNCHANGED <<socket, listening, joined, matched, entries, nextId>>
    BY <1>3 DEF Allow, Publish, history
  <2>3. Ordered' /\ Named'
    BY <1>1, <2>2 DEF Ordered, Named
  <2> HIDE DEF event
  <2> QED  BY <1>1, <1>2, <2>1, <2>2, <2>3 DEF TypeOK
<1>4. ASSUME NEW m \in Matches, Block(m) PROVE Inv'
  <2>1. PICK event : event = [id |-> nextId, decision |-> "block"]
    OBVIOUS
  <2>2. event \in Events /\ event.id = nextId
    BY <1>1, <2>1 DEF Events
  <2>3. /\ published' = Append(published, event) /\ Deliver(event)
        /\ UNCHANGED <<socket, listening, joined>>
        /\ matched' = m
        /\ Remember(Category(m))
    BY <1>4, <2>1 DEF Block, Publish, Deliver
  <2>4. /\ entries' \in Threats /\ Len(entries') <= MaxEntries /\ nextId' \in Nat
        /\ \A e \in Range(entries') : e \in Range(entries) \/ e.id = nextId
        /\ Last(entries').category = Category(m)
        /\ Ordered'
    BY <1>1, <2>3, CategoryType, RememberFacts
  <2>5. Named'
    BY <2>3, <2>4 DEF Named
  <2>6. matched' \in Matches \cup {<<>>}
    BY <2>3
  <2> QED  BY <1>2, <2>2, <2>3, <2>4, <2>5, <2>6
<1> QED  BY <1>3, <1>4 DEF Decide

LEMMA RoutesKeep ==
  ASSUME Inv, NEW c \in Connections, Subscribe(c) \/ Closing(c) \/ Close(c) \/ List(c)
  PROVE  Inv'
<1>1. /\ TypeOK /\ Pages /\ Heard /\ NothingBetween /\ Ordered' /\ Named'
      /\ published' = published /\ UNCHANGED history
      /\ Len(published) \in Nat /\ Len(<<>>) = 0 /\ <<>> \in Seq(Events)
      /\ \A d \in Connections : joined[d] \in 0..Len(published)
  BY LenProperties
     DEF Inv, TypeOK, Subscribe, Closing, Close, List, feed, history, Ordered, Named
<1>2. CASE Subscribe(c)
  <2>1. /\ socket[c] = "none" /\ heard[c] = <<>> /\ answer[c] = <<>>
        /\ socket' = [socket EXCEPT ![c] = "OPEN"] /\ listening' = listening \cup {c}
        /\ joined' = [joined EXCEPT ![c] = Len(published)]
        /\ UNCHANGED <<heard, answer>>
    BY <1>1, <1>2 DEF Subscribe, Pages
  <2>2. TypeOK'
    BY <1>1, <2>1 DEF TypeOK, history
  <2>3. Pages'
    BY <1>1, <2>1 DEF Pages, TypeOK
  <2>4. Heard'
    BY <1>1, <2>1 DEF Heard, TypeOK, Pages
  <2>5. NothingBetween'
    BY <1>1, <2>1 DEF NothingBetween, TypeOK, history
  <2> QED  BY <1>1, <2>2, <2>3, <2>4, <2>5 DEF Inv
<1>3. CASE Closing(c)
  <2>1. /\ socket[c] = "OPEN" /\ socket' = [socket EXCEPT ![c] = "CLOSING"]
        /\ answer' = [answer EXCEPT ![c] = <<>>]
        /\ UNCHANGED <<listening, heard, joined>>
    BY <1>3 DEF Closing
  <2>2. TypeOK'
    BY <1>1, <2>1 DEF TypeOK, history
  <2>3. Pages'
    BY <1>1, <2>1 DEF Pages, TypeOK
  <2>4. Heard'
    BY <1>1, <2>1 DEF Heard, TypeOK
  <2>5. NothingBetween'
    BY <1>1, <2>1 DEF NothingBetween, TypeOK, history, Pages
  <2> QED  BY <1>1, <2>2, <2>3, <2>4, <2>5 DEF Inv
<1>4. CASE Close(c)
  <2>1. /\ socket[c] = "CLOSING" /\ socket' = [socket EXCEPT ![c] = "none"]
        /\ listening' = listening \ {c} /\ heard' = [heard EXCEPT ![c] = <<>>]
        /\ joined' = [joined EXCEPT ![c] = 0] /\ answer' = answer
    BY <1>4 DEF Close
  <2>2. TypeOK'
    BY <1>1, <2>1 DEF TypeOK, history, Pages
  <2>3. Pages'
    BY <1>1, <2>1 DEF Pages, TypeOK
  <2>4. Heard'
    BY <1>1, <2>1 DEF Heard, TypeOK, Pages
  <2>5. NothingBetween'
    BY <1>1, <2>1 DEF NothingBetween, TypeOK, history, Pages
  <2> QED  BY <1>1, <2>2, <2>3, <2>4, <2>5 DEF Inv
<1>5. CASE List(c)
  <2>1. socket[c] = "OPEN" /\ UNCHANGED <<socket, listening, heard, joined>>
    BY <1>5 DEF List, feed
  <2>2. PICK q \in Queries :
            answer' = [answer EXCEPT
                          ![c] = [query |-> q, threats |-> ListThreats(q.limit, q.category)]]
    BY <1>5 DEF List
  <2>3. TypeOK' /\ Heard'
    BY <1>1, <2>1 DEF TypeOK, history, Heard
  <2>4. Pages'
    BY <1>1, <2>1, <2>2 DEF Pages
  <2>5. ASSUME NEW d \in Connections, Whole(d)', NEW e \in Range(entries)
        PROVE  Shown(d, e)'
    <3>1. CASE d # c
      <4>1. answer'[d] = answer[d]
        BY <1>1, <2>2, <3>1 DEF Pages
      <4> QED  BY <1>1, <2>1, <2>5, <4>1 DEF NothingBetween, Whole, Shown
    <3>2. CASE d = c
      <4>1. answer'[c] = [query |-> q, threats |-> ListThreats(q.limit, q.category)]
        BY <1>1, <2>2 DEF Pages
      <4>2. answer'[c].query = q /\ answer'[c].threats = ListThreats(q.limit, q.category)
        BY <4>1
      <4>3. q.category = AnyCategory /\ (q.limit = 0 \/ q.limit >= MaxEntries) /\ q.limit \in Int
        BY <2>5, <3>2, <4>2, BoundsAssumption DEF Whole
      <4>4. e \in Range(ListThreats(q.limit, AnyCategory))
        BY <1>1, <2>5, <4>3, ListFacts
      <4> QED  BY <3>2, <4>2, <4>3, <4>4 DEF Shown
    <3> QED  BY <3>1, <3>2
  <2>6. NothingBetween'
    BY <1>1, <2>5 DEF NothingBetween, Whole, Shown, history
  <2> QED  BY <1>1, <2>3, <2>4, <2>6 DEF Inv
<1> QED  BY <1>2, <1>3, <1>4, <1>5

LEMMA InvNext == Inv /\ [Next]_vars => Inv'
<1> SUFFICES ASSUME Inv, [Next]_vars PROVE Inv'
  OBVIOUS
<1>1. CASE UNCHANGED vars
  BY <1>1 DEF vars, history, feed, Inv, TypeOK, Pages, Heard, NothingBetween, Ordered, Named
<1> QED  BY <1>1, DecideKeeps, RoutesKeep DEF Next

LEMMA Invariance == Spec => []Inv
  BY InvInit, InvNext, PTL DEF Spec

\* A handler is on the bus exactly as long as its socket is there, and the
\* history stays within its bound (routes.js:64-69, threat-store.js:9-13).
THEOREM TypeCorrect == Spec => []TypeOK
<1>1. Inv => TypeOK
  BY DEF Inv
<1> QED  BY <1>1, Invariance, PTL

\* Every page on the feed has heard every decision since it subscribed, in
\* order and once (routes.js:59-69, traffic-bus.js:14-16).
THEOREM FeedsAreWhole == Spec => []FeedIsWhole
<1>1. ASSUME Inv PROVE FeedIsWhole
  <2> SUFFICES ASSUME NEW c \in Connections
               PROVE  IsPrefix(heard[c], SubSeq(published, joined[c] + 1, Len(published)))
    BY <1>1 DEF FeedIsWhole, Inv, Heard
  <2> DEFINE n == Len(published)
             j == joined[c]
             h == Len(heard[c])
             tail == SubSeq(published, j + 1, n)
  <2>1. /\ published \in Seq(Events) /\ n \in Nat /\ j \in 0..n
        /\ heard[c] \in Seq(Events) /\ h \in Nat /\ h <= n - j
        /\ \A i \in 1..h : heard[c][i] = published[j + i]
    BY <1>1, LenProperties DEF Inv, TypeOK, Pages, Heard, Events
  <2>2. \A i \in 1..n : published[i] \in Events
    BY <2>1, ElementOfSeq
  <2>3. \A i \in 1..h : heard[c][i] \in Events
    BY <2>1, ElementOfSeq
  <2> HIDE DEF n, j, h
  <2>4. Len(tail) = n - j /\ \A i \in 1..(n - j) : tail[i] = published[j + i] /\ tail[i] \in Events
    <3> DEFINE m == j + 1
    <3>1. /\ m \in Int /\ n \in Int /\ n - m + 1 = n - j /\ (m <= n \/ n - j = 0)
          /\ m..n \subseteq 1..n
          /\ \A i \in 1..(n - j) : m + i - 1 = j + i /\ j + i \in 1..n
      BY <2>1
    <3>2. \A i \in m..n : published[i] \in Events
      BY <2>2, <3>1
    <3> HIDE DEF m
    <3>3. /\ Len(SubSeq(published, m, n)) = IF m <= n THEN n - m + 1 ELSE 0
          /\ \A i \in 1..(n - m + 1) : SubSeq(published, m, n)[i] = published[m + i - 1]
      BY <3>1, <3>2, SubSeqProperties
    <3>4. /\ Len(SubSeq(published, m, n)) = n - j
          /\ \A i \in 1..(n - j) : /\ SubSeq(published, m, n)[i] = published[j + i]
                                  /\ SubSeq(published, m, n)[i] \in Events
      BY <2>1, <2>2, <3>1, <3>3
    <3> QED  BY <3>4 DEF m
  <2> HIDE DEF tail
  <2>5. /\ 1 \in Int /\ h \in Int /\ h - 1 + 1 = h /\ (1 <= h \/ h = 0) /\ h <= Len(tail)
        /\ \A i \in 1..h : 1 + i - 1 = i /\ i \in 1..(n - j)
    BY <2>1, <2>4
  <2>6. \A i \in 1..h : tail[i] \in Events /\ tail[i] = heard[c][i]
    BY <2>1, <2>4, <2>5
  <2>7. ASSUME NEW s, \A i \in 1..h : s[i] \in Events
        PROVE  /\ SubSeq(s, 1, h) \in Seq(Events) /\ Len(SubSeq(s, 1, h)) = h
               /\ \A i \in 1..h : SubSeq(s, 1, h)[i] = s[i]
    <3>1. /\ SubSeq(s, 1, h) \in Seq(Events)
          /\ Len(SubSeq(s, 1, h)) = IF 1 <= h THEN h - 1 + 1 ELSE 0
          /\ \A i \in 1..(h - 1 + 1) : SubSeq(s, 1, h)[i] = s[1 + i - 1]
      BY <2>5, <2>7, SubSeqProperties
    <3> QED  BY <2>5, <3>1
  <2>8. SubSeq(heard[c], 1, h) = SubSeq(tail, 1, h)
    <3>1. /\ SubSeq(heard[c], 1, h) \in Seq(Events) /\ Len(SubSeq(heard[c], 1, h)) = h
          /\ \A i \in 1..h : SubSeq(heard[c], 1, h)[i] = heard[c][i]
      BY <2>3, <2>7
    <3>2. /\ SubSeq(tail, 1, h) \in Seq(Events) /\ Len(SubSeq(tail, 1, h)) = h
          /\ \A i \in 1..h : SubSeq(tail, 1, h)[i] = tail[i]
      BY <2>6, <2>7
    <3> QED  BY <2>6, <3>1, <3>2, SeqEqual
  <2> QED  BY <2>5, <2>8 DEF IsPrefix, h, tail, n, j
<1>2. Inv => FeedIsWhole
  BY <1>1
<1> QED  BY <1>2, Invariance, PTL

\* A page that joins the feed and then asks for the whole history misses no
\* threat between the two (routes.js:51-69, threat-store.js:9-21).
THEOREM NothingIsMissed == Spec => []NothingBetween
<1>1. Inv => NothingBetween
  BY DEF Inv
<1> QED  BY <1>1, Invariance, PTL

-----------------------------------------------------------------------------
(* What a threat is called                                                  *)

Attack(rule) == rule.severity \in 0..4 /\ rule.id >= 930000 /\ rule.id < 945000

LEMMA AttackRules ==
  \A rule \in [id : Int, severity : Int] :
      Attack(rule) <=> Specific(rule) /\ Within(rule.id, AttackRange)
BY SMT DEF Attack, Specific, Within, AttackRange

\* An attack among the rules is reported (coraza-adapter.js:39-46).
LEMMA AttackReported ==
  ASSUME NEW m \in Matches,
         NEW attacks, attacks = {rule \in Range(m.rules) : Attack(rule)}, attacks # {}
  PROVE  Category(m) \in {CategoryFor(rule.id) : rule \in attacks}
<1> DEFINE S == [id : Int, severity : Int]
           specific == {rule \in Range(m.rules) : Specific(rule)}
           first == Filter(m.rules, {rule \in specific : Within(rule.id, AttackRange)})
           other == Filter(m.rules, {rule \in specific : rule.id # m.interruption})
<1>1. m.rules \in Seq(S) /\ Len(m.rules) \in Nat /\ DOMAIN m.rules = 1..Len(m.rules)
  BY MatchesAssumption, LenProperties
<1>2. \A rule \in Range(m.rules) : rule \in S
  <2> HIDE DEF S
  <2>1. \A i \in 1..Len(m.rules) : m.rules[i] \in S
    BY <1>1, ElementOfSeq
  <2> QED  BY <1>1, <2>1 DEF Range
<1>3. attacks = {rule \in specific : Within(rule.id, AttackRange)}
  BY <1>2, AttackRules
<1>4. Reporting(m) = first \o other
  BY DEF Reporting
<1>5. first = Filter(m.rules, attacks)
  BY <1>3
<1>6. Kept(first, m.rules, Len(m.rules), attacks, S)
  BY <1>1, <1>5, FilterKeeps
<1>7. other \in Seq(S)
  BY <1>1, FilterKeeps DEF Kept
<1> HIDE DEF first, other, S
<1>8. first \in Seq(S) /\ Len(first) \in Nat /\ Len(first) # 0
  <2>1. PICK j \in 1..Len(m.rules) : m.rules[j] \in attacks
    BY <1>1 DEF Range
  <2>2. first \in Seq(S) /\ \E i \in 1..Len(first) : first[i] = m.rules[j]
    BY <1>6, <2>1 DEF Kept
  <2> QED  BY <2>2, LenProperties
<1>9. first[1] \in attacks
  BY <1>6, <1>8 DEF Kept
<1>10. /\ Reporting(m) # <<>> /\ Head(Reporting(m)) = first[1]
  <2>1. /\ first \o other \in Seq(S) /\ Len(first \o other) = Len(first) + Len(other)
        /\ \A i \in 1..Len(first) + Len(other) :
               (first \o other)[i] = IF i <= Len(first) THEN first[i] ELSE other[i - Len(first)]
    BY <1>7, <1>8, ConcatProperties
  <2>2. Len(other) \in Nat /\ 1 \in 1..Len(first) + Len(other) /\ 1 <= Len(first)
    BY <1>7, <1>8, LenProperties
  <2>3. first \o other # <<>> /\ (first \o other)[1] = first[1]
    BY <2>1, <2>2, EmptySeq
  <2>4. Head(first \o other) = (first \o other)[1]
    BY <2>1, <2>3, HeadTailProperties
  <2> QED  BY <1>4, <2>3, <2>4
<1> QED  BY <1>9, <1>10 DEF Category

\* An attack goes by its own name, whatever protocol rules fired before it
\* (coraza-adapter.js:40-42).
THEOREM AttacksNamed == Spec => []AttacksAreNamed
<1>1. ASSUME Inv PROVE AttacksAreNamed
  <2> DEFINE attacks == {rule \in Range(matched.rules) : Attack(rule)}
  <2> SUFFICES ASSUME matched # <<>>, attacks # {}
               PROVE  Last(entries).category \in {CategoryFor(rule.id) : rule \in attacks}
    BY SMT DEF AttacksAreNamed, Attack
  <2> QED  BY <1>1, AttackReported DEF Inv, Named
<1>2. Inv => AttacksAreNamed
  BY <1>1
<1> QED  BY <1>2, Invariance, PTL

-----------------------------------------------------------------------------
(* What an answer has                                                       *)

Entry == [id : Nat, category : Categories]

\* What listThreats chooses from.
Wanted(category) == {e \in Range(entries) : category \in {AnyCategory, e.category}}

LEMMA EntrySeq ==
  ASSUME NEW s \in Seq(Entry)
  PROVE  /\ Len(s) \in Nat /\ DOMAIN s = 1..Len(s)
         /\ \A i \in 1..Len(s) : s[i] \in Entry /\ s[i].id \in Nat
<1>1. \A i \in 1..Len(s) : s[i] \in Entry
  BY ElementOfSeq
<1>2. \A e \in Entry : e.id \in Nat
  BY DEF Entry
<1> QED  BY <1>1, <1>2, LenProperties

\* filter finds what is wanted, oldest first (threat-store.js:16).
LEMMA MatchingFacts ==
  ASSUME TypeOK, Ordered, NEW category,
         NEW found, found = Matching(entries, category)
  PROVE  /\ found \in Seq(Entry)
         /\ Range(found) = Wanted(category)
         /\ \A i, j \in 1..Len(found) : i < j => found[i].id < found[j].id
<1> DEFINE R == {pair \in Entry \X Entry : pair[1].id < pair[2].id}
           n == Len(entries)
<1>1. /\ entries \in Seq(Entry) /\ DOMAIN entries = 1..n
      /\ \A i, j \in 1..n : i < j => entries[i].id < entries[j].id
  <2>1. entries \in Seq(Entry)
    BY DEF TypeOK, Threats, Entry
  <2> QED  BY <2>1, LenProperties DEF Ordered
<1>2. CASE category = AnyCategory
  <2>1. found = entries
    BY <1>2 DEF Matching
  <2> QED  BY <1>1, <1>2, <2>1 DEF Wanted
<1>3. CASE category # AnyCategory
  <2>1. found = Filter(entries, Wanted(category))
    <3>1. Wanted(category) = {e \in Range(entries) : e.category = category}
      BY <1>3 DEF Wanted
    <3> QED  BY <1>3, <3>1 DEF Matching
  <2>2. Kept(found, entries, n, Wanted(category), Entry)
    BY <1>1, <2>1, FilterKeeps
  <2>3. DOMAIN found = 1..Len(found) /\ \A i \in 1..Len(found) : found[i] \in Entry
    BY <2>2, LenProperties, ElementOfSeq DEF Kept
  <2>4. Range(found) = Wanted(category)
    <3>1. \A e \in Wanted(category) : \E j \in 1..n : e = entries[j]
      BY <1>1 DEF Wanted, Range
    <3>2. \A e \in Wanted(category) : \E i \in 1..Len(found) : e = found[i]
      <4>1. \A j \in 1..n : entries[j] \in Wanted(category)
                                => \E i \in 1..Len(found) : found[i] = entries[j]
        BY <2>2 DEF Kept
      <4> HIDE DEF n
      <4> QED  BY <3>1, <4>1
    <3>3. \A i \in 1..Len(found) : found[i] \in Wanted(category)
      BY <2>2 DEF Kept
    <3> QED  BY <2>3, <3>2, <3>3 DEF Range
  <2>5. \A i, j \in 1..n : i < j => <<entries[i], entries[j]>> \in R
    <3>1. \A i \in 1..n : entries[i] \in Entry
      BY <1>1, ElementOfSeq
    <3> QED  BY <1>1, <3>1
  <2> HIDE DEF R
  <2>6. \A i, j \in 1..Len(found) : i < j => <<found[i], found[j]>> \in R
    BY <2>2, <2>5 DEF Kept
  <2>7. \A e, f : <<e, f>> \in R => e.id < f.id
    BY DEF R
  <2> QED  BY <2>2, <2>4, <2>6, <2>7 DEF Kept
<1> QED  BY <1>2, <1>3

\* t has the elements of s from the index a on.
Sliced(t, s, limit, a) ==
    /\ Len(t) = IF a <= Len(s) THEN Len(s) - a + 1 ELSE 0
    /\ \A i \in 1..Len(t) : t[i] = s[a - 1 + i] /\ a - 1 + i \in 1..Len(s)
    /\ limit > 0 => Len(t) = Least(limit, Len(s))
    /\ limit = 0 => a = 1

\* slice(-limit) takes the elements from some index on.
LEMMA LastOfFacts ==
  ASSUME NEW S, NEW s \in Seq(S), NEW limit \in Int,
         NEW t, t = LastOf(s, limit)
  PROVE  t \in Seq(S) /\ \E a \in Nat \ {0} : Sliced(t, s, limit, a)
<1> DEFINE n == Len(s)
           a == IF limit < 0 THEN 1 - limit
                ELSE IF limit = 0 \/ limit >= n THEN 1 ELSE n - limit + 1
<1>1. n \in Nat /\ \A i \in 1..n : s[i] \in S
  BY LenProperties, ElementOfSeq
<1>2. t = IF ~(limit < 0) /\ (limit = 0 \/ limit >= n) THEN s ELSE SubSeq(s, a, n)
  BY <1>1 DEF LastOf
<1> HIDE DEF n
<1>3. /\ a \in Nat \ {0}
      /\ a <= n => n - a + 1 \in Nat
      /\ limit > 0 => (IF a <= n THEN n - a + 1 ELSE 0) = Least(limit, n)
      /\ limit = 0 => a = 1
      /\ ~(limit < 0) /\ (limit = 0 \/ limit >= n) => a = 1
  BY <1>1 DEF Least
<1> HIDE DEF a
<1>4. CASE t = s /\ a = 1
  <2>1. Len(t) = IF a <= n THEN n - a + 1 ELSE 0
    BY <1>1, <1>4 DEF n
  <2>2. \A i \in 1..Len(t) : t[i] = s[a - 1 + i] /\ a - 1 + i \in 1..n
    BY <1>1, <1>4 DEF n
  <2> QED  BY <1>3, <1>4, <2>1, <2>2 DEF n, Sliced
<1>5. CASE t = SubSeq(s, a, n)
  <2>1. /\ t \in Seq(S)
        /\ Len(t) = IF a <= n THEN n - a + 1 ELSE 0
        /\ \A i \in 1..(n - a + 1) : t[i] = s[a + i - 1]
    <3>1. \A i \in a..n : s[i] \in S
      BY <1>1, <1>3
    <3> QED  BY <1>1, <1>3, <1>5, <3>1, SubSeqProperties
  <2>2. \A i \in 1..Len(t) : i \in 1..(n - a + 1) /\ a + i - 1 = a - 1 + i /\ a - 1 + i \in 1..n
    BY <1>1, <1>3, <2>1
  <2>3. \A i \in 1..Len(t) : t[i] = s[a - 1 + i] /\ a - 1 + i \in 1..n
    BY <2>1, <2>2
  <2> QED  BY <1>3, <2>1, <2>3 DEF n, Sliced
<1> QED  BY <1>2, <1>3, <1>4, <1>5

\* Threats with ids of their own are counted by their sequence.
LEMMA CountOrdered ==
  ASSUME NEW s \in Seq(Entry),
         \A i, j \in 1..Len(s) : i < j => s[i].id < s[j].id
  PROVE  Cardinality(Range(s)) = Len(s)
<1> DEFINE n == Len(s)
<1>1. n \in Nat /\ DOMAIN s = 1..n /\ \A i \in 1..n : s[i].id \in Nat
  BY EntrySeq
<1>2. \A i, j \in 1..n : s[i] = s[j] => i = j
  <2> SUFFICES ASSUME NEW i \in 1..n, NEW j \in 1..n, s[i] = s[j], i # j PROVE FALSE
    OBVIOUS
  <2>1. i < j \/ j < i
    BY <1>1
  <2> QED  BY <1>1, <2>1
<1>3. s \in Bijection(1..n, Range(s))
  <2>1. s \in [1..n -> Range(s)]
    BY <1>1, LenProperties DEF Range
  <2> QED  BY <1>1, <1>2, <2>1 DEF Bijection, Injection, Surjection, IsInjective, Range
<1>4. ExistsBijection(1..n, Range(s))
  BY <1>3 DEF ExistsBijection
<1> QED  BY <1>1, <1>4, FS_CountingElements

\* AnswersAreLatest, for what GET threats puts into an answer.
LEMMA ListIsLatest ==
  ASSUME TypeOK, Ordered, NEW limit \in Int, NEW category,
         NEW threats, threats = ListThreats(limit, category),
         NEW wanted, wanted = Wanted(category)
  PROVE  /\ Range(threats) \subseteq wanted
         /\ \A i, j \in DOMAIN threats : i < j => threats[i].id > threats[j].id
         /\ \A e \in wanted \ Range(threats), f \in Range(threats) : e.id < f.id
         /\ limit > 0 => Len(threats) = Least(limit, Cardinality(wanted))
         /\ limit = 0 => Range(threats) = wanted
<1>1. PICK found : found = Matching(entries, category)
  OBVIOUS
<1>2. /\ found \in Seq(Entry)
      /\ Range(found) = wanted
      /\ \A i, j \in 1..Len(found) : i < j => found[i].id < found[j].id
  BY <1>1, MatchingFacts
<1>3. PICK last : last = LastOf(found, limit)
  OBVIOUS
<1> DEFINE n == Len(found)
           m == Len(last)
<1>4. PICK a \in Nat \ {0} : Sliced(last, found, limit, a)
  BY <1>2, <1>3, LastOfFacts
<1>5. /\ last \in Seq(Entry)
      /\ m = IF a <= n THEN n - a + 1 ELSE 0
      /\ \A i \in 1..m : last[i] = found[a - 1 + i] /\ a - 1 + i \in 1..n
      /\ limit > 0 => m = Least(limit, n)
      /\ limit = 0 => a = 1
  BY <1>2, <1>3, <1>4, LastOfFacts DEF Sliced
<1>6. /\ n \in Nat /\ DOMAIN found = 1..n /\ m \in Nat
      /\ \A i \in 1..n : found[i].id \in Nat
  BY <1>2, <1>5, EntrySeq
<1>7. threats = [i \in 1..m |-> last[(m - i) + 1]]
  BY <1>1, <1>3 DEF ListThreats, Reverse
<1>8. Cardinality(wanted) = n
  BY <1>2, CountOrdered
<1> HIDE DEF n, m
<1>9. /\ DOMAIN threats = 1..m /\ Len(threats) = m
  <2>1. DOMAIN threats = 1..m
    BY <1>7
  <2> QED  BY <1>6, <1>7, <2>1
<1>10. \A i \in 1..m : /\ threats[i] = found[a + m - i]
                       /\ a + m - i \in 1..n /\ a + m - i >= a
  <2>1. \A i \in 1..m : (m - i) + 1 \in 1..m /\ a - 1 + ((m - i) + 1) = a + m - i /\ a + m - i >= a
    BY <1>6
  <2>2. \A i \in 1..m : threats[i] = last[(m - i) + 1]
    BY <1>7
  <2>3. \A i \in 1..m : /\ last[i] = found[a - 1 + i]
                         /\ a - 1 + i \in 1..n
    BY <1>5
  <2>4. ASSUME NEW i \in 1..m
        PROVE  /\ threats[i] = found[a + m - i]
               /\ a + m - i \in 1..n /\ a + m - i >= a
    <3> DEFINE k == (m - i) + 1
    <3>1. k \in 1..m /\ threats[i] = last[k] /\ a - 1 + k = a + m - i /\ a + m - i >= a
      BY <2>1, <2>2
    <3> HIDE DEF k
    <3>2. last[k] = found[a - 1 + k] /\ a - 1 + k \in 1..n
      BY <2>3, <3>1
    <3> QED  BY <3>1, <3>2
  <2> QED  BY <2>4
<1>11. \A j \in 1..n : j >= a => \E i \in 1..m : threats[i] = found[j]
  <2> SUFFICES ASSUME NEW j \in 1..n, j >= a PROVE \E i \in 1..m : threats[i] = found[j]
    OBVIOUS
  <2>1. m = IF a <= n THEN n - a + 1 ELSE 0
    BY <1>5
  <2>2. a + m - j \in 1..m /\ a + m - (a + m - j) = j
    BY <1>6, <2>1
  <2> QED  BY <1>10, <2>2
<1>12. Range(threats) \subseteq wanted
  BY <1>2, <1>6, <1>9, <1>10 DEF Range
<1>13. \A i, j \in DOMAIN threats : i < j => threats[i].id > threats[j].id
  <2> SUFFICES ASSUME NEW i \in 1..m, NEW j \in 1..m, i < j PROVE threats[i].id > threats[j].id
    BY <1>9
  <2>1. a + m - j < a + m - i
    BY <1>6
  <2>2. found[a + m - j].id < found[a + m - i].id
    BY <1>2, <1>10, <2>1 DEF n
  <2> QED  BY <1>6, <1>10, <2>2
<1>14. ASSUME NEW e \in wanted \ Range(threats), NEW f \in Range(threats) PROVE e.id < f.id
  <2>1. PICK j \in 1..n : e = found[j]
    BY <1>2, <1>6, <1>14 DEF Range
  <2>2. PICK i \in 1..m : f = threats[i]
    BY <1>9, <1>14 DEF Range
  <2>3. ~(j >= a)
    BY <1>9, <1>11, <1>14, <2>1 DEF Range
  <2>4. j < a + m - i /\ a + m - i \in 1..n /\ f = found[a + m - i]
    <3>1. a + m - i \in 1..n /\ a + m - i >= a /\ f = found[a + m - i]
      BY <1>10, <2>2
    <3> QED  BY <2>3, <3>1
  <2> QED  BY <1>2, <2>1, <2>4 DEF n
<1>15. limit = 0 => wanted \subseteq Range(threats)
  <2> SUFFICES ASSUME limit = 0, NEW j \in 1..n PROVE found[j] \in Range(threats)
    BY <1>2, <1>6 DEF Range
  <2>1. j >= a
    BY <1>5
  <2> QED  BY <1>9, <1>11, <2>1 DEF Range
<1> QED  BY <1>5, <1>8, <1>9, <1>12, <1>13, <1>14, <1>15 DEF n, m

\* Only GET threats gives an answer.
LEMMA AnswerGiven ==
  ASSUME TypeOK, Pages, Ordered, Next, NEW c \in Connections,
         answer'[c] # answer[c], answer'[c] # <<>>
  PROVE  \E q \in Queries :
             answer'[c] = [query |-> q, threats |-> ListThreats(q.limit, q.category)]
<1>1. answer = [d \in Connections |-> answer[d]]
  BY DEF Pages
<1>2. CASE Decide
  BY <1>2 DEF Decide
<1>3. ASSUME NEW d \in Connections, Subscribe(d) \/ Closing(d) \/ Close(d) \/ List(d)
      PROVE  \E q \in Queries :
                 answer'[c] = [query |-> q, threats |-> ListThreats(q.limit, q.category)]
  <2>1. CASE Subscribe(d) \/ Close(d)
    BY <2>1 DEF Subscribe, Close
  <2>2. CASE Closing(d)
    BY <1>1, <2>2 DEF Closing
  <2>3. CASE List(d)
    <3>1. PICK q \in Queries :
              answer' = [answer EXCEPT
                            ![d] = [query |-> q, threats |-> ListThreats(q.limit, q.category)]]
      BY <2>3 DEF List
    <3> DEFINE given == [query |-> q, threats |-> ListThreats(q.limit, q.category)]
    <3>2. answer' = [answer EXCEPT ![d] = given]
      BY <3>1
    <3> HIDE DEF given
    <3>3. answer'[c] = given
      BY <1>1, <3>2
    <3> QED  BY <3>3 DEF given
  <2> QED  BY <1>3, <2>1, <2>2, <2>3
<1> QED  BY <1>2, <1>3 DEF Next

\* An answer has the latest threats of its category that the limit leaves room
\* for, the latest first, and no other (threat-store.js:15-18).
THEOREM LatestAnswered == Spec => AnswersAreLatest
<1> DEFINE Latest ==
        \A c \in Connections : answer'[c] # answer[c] /\ answer'[c] # <<>> =>
          LET limit == answer'[c].query.limit
              threats == answer'[c].threats
              wanted == {e \in Range(entries) : answer'[c].query.category \in {AnyCategory, e.category}}
          IN  /\ Range(threats) \subseteq wanted
              /\ \A i, j \in DOMAIN threats : i < j => threats[i].id > threats[j].id
              /\ \A e \in wanted \ Range(threats), f \in Range(threats) : e.id < f.id
              /\ limit > 0 => Len(threats) = Least(limit, Cardinality(wanted))
              /\ limit = 0 => Range(threats) = wanted
<1>1. ASSUME Inv, [Next]_vars PROVE [Latest]_vars
  <2> SUFFICES ASSUME Next, NEW c \in Connections, answer'[c] # answer[c], answer'[c] # <<>>
               PROVE  LET limit == answer'[c].query.limit
                          threats == answer'[c].threats
                          wanted == Wanted(answer'[c].query.category)
                      IN  /\ Range(threats) \subseteq wanted
                          /\ \A i, j \in DOMAIN threats : i < j => threats[i].id > threats[j].id
                          /\ \A e \in wanted \ Range(threats), f \in Range(threats) : e.id < f.id
                          /\ limit > 0 => Len(threats) = Least(limit, Cardinality(wanted))
                          /\ limit = 0 => Range(threats) = wanted
    BY <1>1 DEF Wanted
  <2>1. PICK q \in Queries :
            answer'[c] = [query |-> q, threats |-> ListThreats(q.limit, q.category)]
    BY <1>1, AnswerGiven DEF Inv
  <2>2. PICK threats, wanted : threats = ListThreats(q.limit, q.category) /\ wanted = Wanted(q.category)
    OBVIOUS
  <2>3. answer'[c].query = q /\ answer'[c].threats = threats
    BY <2>1, <2>2
  <2>4. q.limit \in Int
    BY BoundsAssumption
  <2>5. /\ Range(threats) \subseteq wanted
        /\ \A i, j \in DOMAIN threats : i < j => threats[i].id > threats[j].id
        /\ \A e \in wanted \ Range(threats), f \in Range(threats) : e.id < f.id
        /\ q.limit > 0 => Len(threats) = Least(q.limit, Cardinality(wanted))
        /\ q.limit = 0 => Range(threats) = wanted
    BY <1>1, <2>2, <2>4, ListIsLatest DEF Inv
  <2> QED  BY <2>2, <2>3, <2>5
<1>2. Inv /\ [Next]_vars => [Latest]_vars
  BY <1>1
<1> QED  BY <1>2, Invariance, PTL DEF Spec, AnswersAreLatest
=============================================================================
