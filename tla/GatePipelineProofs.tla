------------------------- MODULE GatePipelineProofs -------------------------
(***************************************************************************)
(* Every request gets one verdict, its body arrives whole, and no          *)
(* transaction of the WAF outlives its scan: for any requests in flight,   *)
(* any engine, any bound of the history and whatever the scanners decide.  *)
(***************************************************************************)
EXTENDS GatePipeline, SequenceTheorems, TLAPS

Scanners == {"fastFilter", "blocklist", "rateLimit", "tokenGuard", "graphqlGuard",
             "schemaGuard", "loginGuard", "adapter"}
Bodies == {"absent", "unread", "fresh", "spent"}
Entries == [id : Nat, request : Requests]

\* The awaits within the chain, and those before an answer is known.
InChain == {"scan", "waf", "oracle"}
Unanswered == {"idle", "forward", "upstream"} \cup InChain

\* What TypeOK leaves open.
Typed ==
    /\ chain \in [Requests -> Seq(Scanners)]
    /\ cookies \in [Requests -> Seq(Cookies)]
    /\ threats \in Seq(Entries)
    /\ nextId \in Nat \ {0}

\* The adapter is the last scanner ahead, and no other is; the fast filter is
\* the first, or behind.
ChainAhead(r) ==
    /\ \A i \in DOMAIN chain[r] : chain[r][i] = "adapter" <=> i = Len(chain[r])
    /\ \A i \in DOMAIN chain[r] : i > 1 => chain[r][i] # "fastFilter"
    /\ pc[r] \in {"waf", "oracle"} => Scanner(r) = "adapter"

\* The body as it arrived, and as the scanners and the upstream find it when
\* the fast filter has read it.
AsSent(r) == body[r] = IF kind[r].size = "none" THEN "absent" ELSE "unread"
Buffered(r) ==
    /\ kind[r].size # "large"
    /\ body[r] = IF kind[r].size = "fits" THEN "fresh" ELSE "absent"

BodyRead(r) ==
    /\ pc[r] \in InChain => IF Scanner(r) = "fastFilter" THEN AsSent(r) ELSE Buffered(r)
    /\ pc[r] = "forward" => Buffered(r)
    /\ received[r] # "none" =>
          /\ kind[r].size # "large"
          /\ received[r] = IF kind[r].size = "fits" THEN "bytes" ELSE "nothing"

\* The verdict of r, and what is known of its answer.
Judged(r) ==
    /\ verdicts[r] = IF gate[r] THEN <<"block">>
                     ELSE IF pc[r] \in {"forward", "upstream"} \/ received[r] # "none"
                     THEN <<"allow">>
                     ELSE <<>>
    /\ pc[r] \in Unanswered => ~gate[r] /\ status[r] = "none"
    /\ pc[r] \in Unanswered \ {"upstream"} => received[r] = "none"
    /\ pc[r] = "upstream" => received[r] # "none"
    /\ status[r] = "denied" => gate[r]
    /\ status[r] \in {"ok", "refused"} => received[r] # "none"

\* What the hooks did with the answer.
Hooked(r) ==
    /\ hooked[r] # {} => pc[r] \in Replied
    /\ "failure" \in hooked[r] => kind[r].route = "login" /\ received[r] # "none"
                                     /\ status[r] = "refused"
    /\ "session" \in hooked[r] => kind[r].route = "login" /\ received[r] # "none"
                                     /\ status[r] = "ok"

\* The Set-Cookie header before the answer, with it, and as it leaves.
Header(r) ==
    /\ pc[r] \in Unanswered => cookies[r] = <<>>
    /\ pc[r] = "sending" => cookies[r] = SetCookie(r)
    /\ pc[r] \in Replied => LeftOnce(r)

RequestInv(r) == ChainAhead(r) /\ BodyRead(r) /\ Judged(r) /\ Hooked(r) /\ Header(r)

Inv ==
    /\ TypeOK
    /\ Typed
    /\ \A r \in Requests : RequestInv(r)
    /\ ThreatsAreLatest
    /\ TransactionsClosed

-----------------------------------------------------------------------------
(* Chains and the history                                                   *)

\* Every route begins with the fast filter and ends with the WAF adapter, and
\* has each of them there only (routes.js:119-158).
LEMMA Chains ==
  ASSUME NEW p \in Routes
  PROVE  /\ Chain(p) \in Seq(Scanners) /\ Chain(p) # <<>>
         /\ Head(Chain(p)) = "fastFilter"
         /\ \A i \in DOMAIN Chain(p) : Chain(p)[i] = "adapter" <=> i = Len(Chain(p))
         /\ \A i \in DOMAIN Chain(p) : i > 1 => Chain(p)[i] # "fastFilter"
<1>1. CASE p = "app"      BY <1>1 DEF Chain, Scanners
<1>2. CASE p = "graphql"  BY <1>2 DEF Chain, Scanners
<1>3. CASE p = "login"    BY <1>3 DEF Chain, Scanners
<1>4. CASE p = "api"      BY <1>4 DEF Chain, Scanners
<1> QED  BY <1>1, <1>2, <1>3, <1>4 DEF Routes

\* The last scanner of a chain is the adapter, on every route, so that the
\* mark that chain() leaves on a shared scanner is right on all (routes.js:99-102).
LEMMA LastIsAdapter == \A s : IsLast(s) <=> s = "adapter"
<1>1. \A p \in Routes : Chain(p)[Len(Chain(p))] = "adapter"
  <2> TAKE p \in Routes
  <2>1. Chain(p) \in Seq(Scanners) /\ Chain(p) # <<>>
    BY Chains
  <2>2. Len(Chain(p)) \in DOMAIN Chain(p)
    BY <2>1
  <2> QED  BY <2>2, Chains
<1>2. "app" \in Routes
  BY DEF Routes
<1> QED  BY <1>1, <1>2 DEF IsLast

\* The chain without its first scanner.
LEMMA ChainTail ==
  ASSUME NEW s \in Seq(Scanners), s # <<>>
  PROVE  /\ Tail(s) \in Seq(Scanners)
         /\ Len(Tail(s)) = Len(s) - 1 /\ Len(s) \in Nat \ {0}
         /\ DOMAIN s = 1..Len(s) /\ DOMAIN Tail(s) = 1..(Len(s) - 1)
         /\ \A i \in DOMAIN Tail(s) : i + 1 \in DOMAIN s /\ Tail(s)[i] = s[i + 1]
         /\ s[1] = Head(s)
         /\ Len(s) > 1 => Head(Tail(s)) = s[2]
  OBVIOUS

\* recordThreat keeps the latest denials (threat-store.js:10-13).
LEMMA RememberLatest ==
  ASSUME Typed, NEW r \in Requests, Remember(r), ThreatsAreLatest,
         gate' \in [Requests -> BOOLEAN], gate'[r],
         \A q \in Requests : gate[q] => gate'[q]
  PROVE  /\ threats' \in Seq(Entries) /\ Len(threats') <= MaxEntries
         /\ nextId' \in Nat \ {0}
         /\ ThreatsAreLatest'
<1> DEFINE entry == [id |-> nextId, request |-> r]
           longer == Append(threats, entry)
<1>1. MaxEntries \in Nat \ {0} /\ nextId \in Nat \ {0} /\ threats \in Seq(Entries)
  BY MaxEntriesAssumption DEF Typed
<1>2. entry \in Entries /\ entry.id = nextId /\ entry.request = r
  BY <1>1 DEF Entries
<1>3. /\ threats' = IF Len(longer) > MaxEntries THEN Tail(longer) ELSE longer
      /\ nextId' = nextId + 1
  BY DEF Remember
<1> HIDE DEF entry
<1> DEFINE n == Len(threats)
<1>4. /\ n \in Nat /\ DOMAIN threats = 1..n
      /\ \A i \in 1..n : threats[i] \in Entries
  BY <1>1, LenProperties, ElementOfSeq
<1>5. /\ longer \in Seq(Entries) /\ Len(longer) = n + 1 /\ longer # <<>>
      /\ longer[n + 1] = entry
      /\ \A i \in 1..n : longer[i] = threats[i]
  BY <1>1, <1>2, <1>4
<1>6. /\ n = IF nextId - 1 < MaxEntries THEN nextId - 1 ELSE MaxEntries
      /\ \A i \in 1..n : threats[i].id = nextId - 1 - n + i /\ gate[threats[i].request]
  BY <1>4 DEF ThreatsAreLatest
<1>7. \A i \in 1..n : threats[i].request \in Requests
  BY <1>4 DEF Entries
<1>8. \A i \in 1..(n + 1) : longer[i].id = nextId - (n + 1) + i /\ gate'[longer[i].request]
  <2> TAKE i \in 1..(n + 1)
  <2>1. CASE i \in 1..n
    BY <1>1, <1>4, <1>5, <1>6, <1>7, <2>1
  <2>2. CASE i = n + 1
    BY <1>1, <1>2, <1>4, <1>5, <2>2
  <2> QED  BY <1>4, <2>1, <2>2
<1> HIDE DEF longer
<1>9. CASE n + 1 > MaxEntries
  <2>1. n = MaxEntries /\ ~(nextId - 1 < MaxEntries)
    BY <1>1, <1>4, <1>6, <1>9
  <2>2. threats' = Tail(longer)
    BY <1>3, <1>5, <1>9
  <2>3. /\ threats' \in Seq(Entries) /\ Len(threats') = n /\ DOMAIN threats' = 1..n
        /\ \A i \in 1..n : threats'[i] = longer[i + 1]
    BY <1>4, <1>5, <2>2
  <2>4. \A i \in 1..n : threats'[i].id = nextId' - 1 - n + i /\ gate'[threats'[i].request]
    BY <1>1, <1>3, <1>4, <1>8, <2>3
  <2>5. n = IF nextId' - 1 < MaxEntries THEN nextId' - 1 ELSE MaxEntries
    BY <1>1, <1>3, <2>1
  <2>6. \A i \in DOMAIN threats' : gate'[threats'[i].request]
    BY <2>3, <2>4
  <2>7. ThreatsAreLatest'
    BY <2>3, <2>4, <2>5, <2>6 DEF ThreatsAreLatest
  <2> QED  BY <1>1, <1>3, <2>1, <2>3, <2>7
<1>10. CASE ~(n + 1 > MaxEntries)
  <2>1. threats' = longer
    BY <1>3, <1>5, <1>10
  <2>2. DOMAIN threats' = 1..(n + 1) /\ Len(threats') = n + 1
    BY <1>5, <2>1
  <2>3. n < MaxEntries /\ n = nextId - 1
    <3>1. n < MaxEntries
      BY <1>1, <1>4, <1>10
    <3>2. CASE nextId - 1 < MaxEntries
      BY <1>6, <3>2
    <3>3. CASE ~(nextId - 1 < MaxEntries)
      BY <1>6, <3>1, <3>3
    <3> QED  BY <3>1, <3>2, <3>3
  <2>4. n + 1 = IF nextId' - 1 < MaxEntries THEN nextId' - 1 ELSE MaxEntries
    BY <1>1, <1>3, <1>4, <1>10, <2>3
  <2>5. \A i \in 1..(n + 1) :
           threats'[i].id = nextId' - 1 - (n + 1) + i /\ gate'[threats'[i].request]
    BY <1>1, <1>3, <1>4, <1>8, <2>1
  <2> QED  BY <1>1, <1>3, <1>4, <1>5, <1>10, <2>1, <2>2, <2>4, <2>5 DEF ThreatsAreLatest
<1> QED  BY <1>9, <1>10

-----------------------------------------------------------------------------
(* One request moves                                                        *)

Untouched(q) ==
    /\ pc'[q] = pc[q] /\ kind'[q] = kind[q] /\ chain'[q] = chain[q] /\ body'[q] = body[q]
    /\ gate'[q] = gate[q] /\ status'[q] = status[q] /\ verdicts'[q] = verdicts[q]
    /\ received'[q] = received[q] /\ cookies'[q] = cookies[q] /\ hooked'[q] = hooked[q]

\* What is known of a request lasts while nothing happens to it.
LEMMA UntouchedKeeps ==
  ASSUME NEW q, RequestInv(q), Untouched(q)
  PROVE  RequestInv(q)'
<1> USE DEF Untouched
<1>1. ChainAhead(q)'
  BY DEF RequestInv, ChainAhead, Scanner
<1>2. BodyRead(q)'
  BY DEF RequestInv, BodyRead, Scanner, AsSent, Buffered
<1>3. Judged(q)'
  BY DEF RequestInv, Judged
<1>4. Hooked(q)'
  BY DEF RequestInv, Hooked
<1>5. Header(q)'
  BY DEF RequestInv, Header, LeftOnce, SetCookie
<1> QED  BY <1>1, <1>2, <1>3, <1>4, <1>5 DEF RequestInv

\* The first half of a TypeOK', from the moves of one request.
TypedMove(r) ==
    /\ \E p \in Pcs : pc' = [pc EXCEPT ![r] = p]
    /\ \E k \in RequestKinds : kind' = [kind EXCEPT ![r] = k]
    /\ \E s \in Seq(Scanners) : chain' = [chain EXCEPT ![r] = s]
    /\ \E b \in Bodies : body' = [body EXCEPT ![r] = b]
    /\ \E g \in BOOLEAN : gate' = [gate EXCEPT ![r] = g]
    /\ \E s \in {"none", "denied", "error", "ok", "refused", "other"} :
          status' = [status EXCEPT ![r] = s]
    /\ \E v \in Seq({"allow", "block"}) : verdicts' = [verdicts EXCEPT ![r] = v]
    /\ \E v \in {"none", "nothing", "bytes"} : received' = [received EXCEPT ![r] = v]
    /\ \E cs \in Seq(Cookies) : cookies' = [cookies EXCEPT ![r] = cs]
    /\ \E h \in SUBSET {"session", "failure"} : hooked' = [hooked EXCEPT ![r] = h]

\* A step of one request keeps the types of all, and touches no other.
LEMMA MoveTypes ==
  ASSUME TypeOK, Typed, NEW r \in Requests, TypedMove(r),
         pc'[r] \in InChain <=> chain'[r] # <<>>
  PROVE  /\ pc' \in [Requests -> Pcs]
         /\ kind' \in [Requests -> RequestKinds]
         /\ chain' \in [Requests -> Seq(Scanners)]
         /\ body' \in [Requests -> Bodies]
         /\ gate' \in [Requests -> BOOLEAN]
         /\ status' \in [Requests -> {"none", "denied", "error", "ok", "refused", "other"}]
         /\ verdicts' \in [Requests -> Seq({"allow", "block"})]
         /\ received' \in [Requests -> {"none", "nothing", "bytes"}]
         /\ cookies' \in [Requests -> Seq(Cookies)]
         /\ hooked' \in [Requests -> SUBSET {"session", "failure"}]
         /\ \A q \in Requests : q # r => Untouched(q)
         /\ \A q \in Requests : pc'[q] \in InChain <=> chain'[q] # <<>>
<1>1. pc' \in [Requests -> Pcs] /\ \A q \in Requests : q # r => pc'[q] = pc[q]
  BY DEF TypedMove, TypeOK
<1>2. kind' \in [Requests -> RequestKinds]
      /\ \A q \in Requests : q # r => kind'[q] = kind[q]
  BY DEF TypedMove, TypeOK
<1>3. chain' \in [Requests -> Seq(Scanners)] /\ \A q \in Requests : q # r => chain'[q] = chain[q]
  BY DEF TypedMove, Typed
<1>4. body' \in [Requests -> Bodies] /\ \A q \in Requests : q # r => body'[q] = body[q]
  BY DEF TypedMove, TypeOK, Bodies
<1>5. gate' \in [Requests -> BOOLEAN] /\ \A q \in Requests : q # r => gate'[q] = gate[q]
  BY DEF TypedMove, TypeOK
<1>6. status' \in [Requests -> {"none", "denied", "error", "ok", "refused", "other"}]
      /\ \A q \in Requests : q # r => status'[q] = status[q]
  BY DEF TypedMove, TypeOK
<1>7. verdicts' \in [Requests -> Seq({"allow", "block"})]
      /\ \A q \in Requests : q # r => verdicts'[q] = verdicts[q]
  BY DEF TypedMove, TypeOK
<1>8. received' \in [Requests -> {"none", "nothing", "bytes"}]
      /\ \A q \in Requests : q # r => received'[q] = received[q]
  BY DEF TypedMove, TypeOK
<1>9. cookies' \in [Requests -> Seq(Cookies)]
      /\ \A q \in Requests : q # r => cookies'[q] = cookies[q]
  BY DEF TypedMove, Typed
<1>10. hooked' \in [Requests -> SUBSET {"session", "failure"}]
      /\ \A q \in Requests : q # r => hooked'[q] = hooked[q]
  BY DEF TypedMove, TypeOK
<1>11. \A q \in Requests : pc[q] \in InChain <=> chain[q] # <<>>
  BY DEF TypeOK, InChain
<1> QED  BY <1>1, <1>2, <1>3, <1>4, <1>5, <1>6, <1>7, <1>8, <1>9, <1>10, <1>11 DEF Untouched

\* What is left to show of a step of one request.
LEMMA MoveInv ==
  ASSUME Inv, NEW r \in Requests, TypedMove(r), RequestInv(r)',
         pc'[r] \in InChain <=> chain'[r] # <<>>,
         engine' = engine, server' = server, left' = left, tx' \subseteq Requests,
         threats' \in Seq(Entries), Len(threats') <= MaxEntries, nextId' \in Nat \ {0},
         ThreatsAreLatest', TransactionsClosed'
  PROVE  Inv'
<1>1. TypeOK /\ Typed /\ \A q \in Requests : RequestInv(q)
  BY DEF Inv
<1>2. /\ pc' \in [Requests -> Pcs]
      /\ kind' \in [Requests -> RequestKinds]
      /\ chain' \in [Requests -> Seq(Scanners)]
      /\ body' \in [Requests -> Bodies]
      /\ gate' \in [Requests -> BOOLEAN]
      /\ status' \in [Requests -> {"none", "denied", "error", "ok", "refused", "other"}]
      /\ verdicts' \in [Requests -> Seq({"allow", "block"})]
      /\ received' \in [Requests -> {"none", "nothing", "bytes"}]
      /\ cookies' \in [Requests -> Seq(Cookies)]
      /\ hooked' \in [Requests -> SUBSET {"session", "failure"}]
      /\ \A q \in Requests : q # r => Untouched(q)
      /\ \A q \in Requests : pc'[q] \in InChain <=> chain'[q] # <<>>
  BY <1>1, MoveTypes
<1>3. TypeOK'
  BY <1>1, <1>2 DEF TypeOK, Bodies, InChain
<1>4. Typed'
  BY <1>2 DEF Typed
<1>5. \A q \in Requests : RequestInv(q)'
  BY <1>1, <1>2, UntouchedKeeps
<1> QED  BY <1>3, <1>4, <1>5 DEF Inv

\* The history stays as it is while no gate is taken back.
LEMMA HistoryKeeps ==
  ASSUME Typed, ThreatsAreLatest, threats' = threats, nextId' = nextId,
         \A q \in Requests : gate[q] => gate'[q]
  PROVE  ThreatsAreLatest'
<1>1. \A i \in DOMAIN threats : threats[i].request \in Requests
  <2>1. \A i \in DOMAIN threats : threats[i] \in Entries
    BY ElementOfSeq, LenProperties DEF Typed
  <2> QED  BY <2>1 DEF Entries
<1> QED  BY <1>1 DEF ThreatsAreLatest

-----------------------------------------------------------------------------
(* The scanners                                                             *)

\* A turn of the gate that comes to a verdict, or throws; a request that
\* passes has its body read and put back.
Decides(r) ==
    /\ pc[r] \in InChain
    /\ UNCHANGED <<engine, server, left, kind, received, cookies, hooked>>
    /\ tx' = tx \ {r}
    /\ \E b \in Bodies : body' = [body EXCEPT ![r] = b]
    /\ \/ Pass(r) /\ Buffered(r)'
       \/ Deny(r)
       \/ Throw(r)

\* Facts about a request that is in its chain.
LEMMA InTheChain ==
  ASSUME Inv, NEW r \in Requests, pc[r] \in InChain
  PROVE  /\ chain[r] \in Seq(Scanners) /\ chain[r] # <<>>
         /\ pc[r] \in Unanswered \ {"upstream"} /\ pc[r] \notin {"idle", "forward"}
         /\ ~gate[r] /\ status[r] = "none" /\ received[r] = "none"
         /\ verdicts[r] = <<>> /\ hooked[r] = {}
<1>1. RequestInv(r) /\ TypeOK /\ Typed
  BY DEF Inv
<1>2. pc[r] \in Unanswered \ {"upstream"} /\ pc[r] \notin {"idle", "forward", "upstream"}
      /\ pc[r] \notin Replied
  BY DEF InChain, Unanswered, Replied
<1>3. chain[r] \in Seq(Scanners) /\ chain[r] # <<>>
  BY <1>1 DEF TypeOK, Typed, InChain
<1>4. ~gate[r] /\ status[r] = "none" /\ received[r] = "none" /\ verdicts[r] = <<>>
  BY <1>1, <1>2 DEF RequestInv, Judged
<1>5. hooked[r] = {}
  BY <1>1, <1>2 DEF RequestInv, Hooked
<1> QED  BY <1>2, <1>3, <1>4, <1>5

\* The transactions of the others are untouched.
LEMMA TransactionGivenBack ==
  ASSUME Inv, NEW r \in Requests, tx' = tx \ {r}, server' = server, left' = left,
         \A q \in Requests : q # r => pc'[q] = pc[q]
  PROVE  tx' \subseteq Requests /\ TransactionsClosed'
  BY DEF Inv, TypeOK, TransactionsClosed

\* A field of a record of functions that keeps its value.
LEMMA Kept ==
  ASSUME Inv, NEW r \in Requests
  PROVE  /\ kind = [kind EXCEPT ![r] = kind[r]] /\ kind[r] \in RequestKinds
         /\ chain = [chain EXCEPT ![r] = chain[r]] /\ chain[r] \in Seq(Scanners)
         /\ body = [body EXCEPT ![r] = body[r]] /\ body[r] \in Bodies
         /\ gate = [gate EXCEPT ![r] = gate[r]] /\ gate[r] \in BOOLEAN
         /\ status = [status EXCEPT ![r] = status[r]]
         /\ status[r] \in {"none", "denied", "error", "ok", "refused", "other"}
         /\ verdicts = [verdicts EXCEPT ![r] = verdicts[r]]
         /\ verdicts[r] \in Seq({"allow", "block"})
         /\ received = [received EXCEPT ![r] = received[r]]
         /\ received[r] \in {"none", "nothing", "bytes"}
         /\ cookies = [cookies EXCEPT ![r] = cookies[r]] /\ cookies[r] \in Seq(Cookies)
         /\ hooked = [hooked EXCEPT ![r] = hooked[r]]
         /\ hooked[r] \in SUBSET {"session", "failure"}
<1>1. TypeOK /\ Typed
  BY DEF Inv
<1>2. /\ kind = [kind EXCEPT ![r] = kind[r]] /\ kind[r] \in RequestKinds
      /\ chain = [chain EXCEPT ![r] = chain[r]] /\ chain[r] \in Seq(Scanners)
      /\ body = [body EXCEPT ![r] = body[r]] /\ body[r] \in Bodies
  BY <1>1 DEF TypeOK, Typed, Bodies
<1>3. /\ gate = [gate EXCEPT ![r] = gate[r]] /\ gate[r] \in BOOLEAN
      /\ status = [status EXCEPT ![r] = status[r]]
      /\ status[r] \in {"none", "denied", "error", "ok", "refused", "other"}
      /\ verdicts = [verdicts EXCEPT ![r] = verdicts[r]]
      /\ verdicts[r] \in Seq({"allow", "block"})
  BY <1>1 DEF TypeOK
<1>4. /\ received = [received EXCEPT ![r] = received[r]]
      /\ received[r] \in {"none", "nothing", "bytes"}
      /\ cookies = [cookies EXCEPT ![r] = cookies[r]] /\ cookies[r] \in Seq(Cookies)
      /\ hooked = [hooked EXCEPT ![r] = hooked[r]]
      /\ hooked[r] \in SUBSET {"session", "failure"}
  BY <1>1 DEF TypeOK, Typed
<1> QED  BY <1>2, <1>3, <1>4

\* No cookie is set before the upstream answers, and none by the gate
\* (session-hooks.js:55-56).
LEMMA NoCookieYet ==
  ASSUME Inv, NEW r \in Requests, pc[r] \in Unanswered, cookies' = cookies,
         \/ pc'[r] \in Unanswered
         \/ pc'[r] = "sending" /\ status'[r] \notin Answers
  PROVE  Header(r)'
<1>1. cookies[r] = <<>>
  BY DEF Inv, RequestInv, Header
<1>2. pc'[r] \notin Replied
  BY DEF Unanswered, InChain, Replied
<1>3. pc'[r] = "sending" => SetCookie(r)' = <<>>
  BY DEF Unanswered, InChain, SetCookie
<1> QED  BY <1>1, <1>2, <1>3 DEF Header

\* A scanner lets the request pass: it is on to the next, or out of the chain
\* with its one "allow" (routes.js:75-95).
LEMMA PassInv ==
  ASSUME Inv, NEW r \in Requests, Decides(r), Pass(r), Buffered(r)'
  PROVE  Inv'
<1> DEFINE p == IF Len(chain[r]) > 1 THEN "scan" ELSE "forward"
           v == IF IsLast(Scanner(r)) THEN Append(verdicts[r], "allow") ELSE verdicts[r]
<1>1. TypeOK /\ Typed /\ RequestInv(r) /\ ThreatsAreLatest
  BY DEF Inv
<1>2. /\ chain[r] \in Seq(Scanners) /\ chain[r] # <<>>
      /\ ~gate[r] /\ status[r] = "none" /\ received[r] = "none"
      /\ verdicts[r] = <<>> /\ hooked[r] = {}
  BY InTheChain DEF Decides
<1>3. /\ pc' = [pc EXCEPT ![r] = p] /\ chain' = [chain EXCEPT ![r] = Tail(chain[r])]
      /\ verdicts' = [verdicts EXCEPT ![r] = v]
      /\ UNCHANGED <<gate, status, threats, nextId>>
      /\ UNCHANGED <<engine, server, left, kind, received, cookies, hooked>>
      /\ tx' = tx \ {r}
      /\ \E b \in Bodies : body' = [body EXCEPT ![r] = b]
  BY DEF Pass, Decides, Goto
<1>4. /\ Tail(chain[r]) \in Seq(Scanners)
      /\ Len(Tail(chain[r])) = Len(chain[r]) - 1 /\ Len(chain[r]) \in Nat \ {0}
      /\ DOMAIN chain[r] = 1..Len(chain[r])
      /\ DOMAIN Tail(chain[r]) = 1..(Len(chain[r]) - 1)
      /\ \A i \in DOMAIN Tail(chain[r]) :
            i + 1 \in DOMAIN chain[r] /\ Tail(chain[r])[i] = chain[r][i + 1]
      /\ chain[r][1] = Head(chain[r])
      /\ Len(chain[r]) > 1 => Head(Tail(chain[r])) = chain[r][2]
  BY <1>2, ChainTail
<1>5. IsLast(Scanner(r)) <=> Len(chain[r]) = 1
  <2>1. 1 \in DOMAIN chain[r] /\ chain[r][1] = Scanner(r)
    BY <1>4 DEF Scanner
  <2>2. chain[r][1] = "adapter" <=> 1 = Len(chain[r])
    BY <1>1, <2>1 DEF RequestInv, ChainAhead
  <2> QED  BY <2>1, <2>2, LastIsAdapter
<1>6. v = (IF p = "forward" THEN <<"allow">> ELSE <<>>) /\ v \in Seq({"allow", "block"})
  BY <1>2, <1>4, <1>5
<1>7. p \in Pcs /\ (p \in InChain <=> Tail(chain[r]) # <<>>)
  <2>1. Tail(chain[r]) # <<>> <=> Len(Tail(chain[r])) # 0
    BY <1>4, EmptySeq
  <2>2. Tail(chain[r]) # <<>> <=> Len(chain[r]) > 1
    BY <1>4, <2>1
  <2> QED  BY <2>2 DEF Pcs, InChain
<1>10. p \in {"scan", "forward"} /\ (p = "scan" <=> Len(chain[r]) > 1)
  OBVIOUS
<1> HIDE DEF v, p
<1>8. TypedMove(r)
  <2> DEFINE rest == Tail(chain[r])
  <2>1. rest \in Seq(Scanners) /\ chain' = [chain EXCEPT ![r] = rest]
    BY <1>3, <1>4
  <2> HIDE DEF rest
  <2>2. /\ \E q \in Pcs : pc' = [pc EXCEPT ![r] = q]
        /\ \E s \in Seq(Scanners) : chain' = [chain EXCEPT ![r] = s]
        /\ \E w \in Seq({"allow", "block"}) : verdicts' = [verdicts EXCEPT ![r] = w]
    BY <1>3, <1>6, <1>7, <2>1
  <2>3. UNCHANGED <<kind, gate, status, received, cookies, hooked>>
    BY <1>3
  <2>4. /\ \E k \in RequestKinds : kind' = [kind EXCEPT ![r] = k]
        /\ \E g \in BOOLEAN : gate' = [gate EXCEPT ![r] = g]
        /\ \E s \in {"none", "denied", "error", "ok", "refused", "other"} :
              status' = [status EXCEPT ![r] = s]
    BY <2>3, Kept
  <2>5. /\ \E w \in {"none", "nothing", "bytes"} : received' = [received EXCEPT ![r] = w]
        /\ \E cs \in Seq(Cookies) : cookies' = [cookies EXCEPT ![r] = cs]
        /\ \E h \in SUBSET {"session", "failure"} : hooked' = [hooked EXCEPT ![r] = h]
    BY <2>3, Kept
  <2> QED  BY <1>3, <2>2, <2>4, <2>5 DEF TypedMove
<1>9. /\ pc'[r] = p /\ chain'[r] = Tail(chain[r]) /\ verdicts'[r] = v
      /\ \A q \in Requests : q # r => pc'[q] = pc[q]
  BY <1>1, <1>3 DEF TypeOK, Typed
<1>11. ChainAhead(r)'
  <2>1. ASSUME NEW i \in DOMAIN chain'[r]
        PROVE  /\ chain'[r][i] = "adapter" <=> i = Len(chain'[r])
               /\ chain'[r][i] # "fastFilter"
    <3>1. i \in 1..(Len(chain[r]) - 1) /\ chain'[r][i] = chain[r][i + 1]
          /\ i + 1 \in DOMAIN chain[r] /\ i + 1 > 1
      BY <1>4, <1>9
    <3> QED  BY <1>1, <1>4, <1>9, <3>1 DEF RequestInv, ChainAhead
  <2> QED  BY <1>9, <1>10, <2>1 DEF ChainAhead
<1>12. BodyRead(r)'
  <2>1. p = "scan" => Scanner(r)' # "fastFilter"
    <3> SUFFICES ASSUME p = "scan" PROVE Head(chain'[r]) # "fastFilter"
      BY DEF Scanner
    <3>1. Len(chain[r]) > 1 /\ 2 \in DOMAIN chain[r]
      BY <1>4, <1>10
    <3> QED  BY <1>1, <1>4, <1>9, <3>1 DEF RequestInv, ChainAhead
  <2> QED  BY <1>2, <1>3, <1>9, <1>10, <2>1 DEF BodyRead, InChain
<1>13. Judged(r)'
  BY <1>2, <1>3, <1>6, <1>9, <1>10 DEF Judged, Unanswered, InChain
<1>14. Hooked(r)' /\ Header(r)'
  <2>1. Hooked(r)'
    BY <1>2, <1>3, <1>9, <1>10 DEF Hooked, Replied
  <2>2. pc[r] \in Unanswered /\ pc'[r] \in Unanswered
    BY <1>9, <1>10 DEF Decides, Unanswered, InChain
  <2> QED  BY <1>3, <2>1, <2>2, NoCookieYet
<1>15. ThreatsAreLatest' /\ threats' \in Seq(Entries) /\ Len(threats') <= MaxEntries
       /\ nextId' \in Nat \ {0}
  BY <1>1, <1>3, HistoryKeeps DEF TypeOK, Typed
<1>16. tx' \subseteq Requests /\ TransactionsClosed'
  BY <1>3, <1>9, TransactionGivenBack
<1>17. pc'[r] \in InChain <=> chain'[r] # <<>>
  BY <1>7, <1>9
<1> QED  BY <1>3, <1>8, <1>11, <1>12, <1>13, <1>14, <1>15, <1>16, <1>17, MoveInv DEF RequestInv

\* A scanner denies: the request is flagged, recorded and answered, and the
\* rest of its chain does not run (routes.js:35-72).
LEMMA DenyInv ==
  ASSUME Inv, NEW r \in Requests, Decides(r), Deny(r)
  PROVE  Inv'
<1>1. TypeOK /\ Typed /\ RequestInv(r) /\ ThreatsAreLatest
  BY DEF Inv
<1>2. received[r] = "none" /\ verdicts[r] = <<>> /\ hooked[r] = {}
  BY InTheChain DEF Decides
<1>3. /\ pc' = [pc EXCEPT ![r] = "sending"] /\ chain' = [chain EXCEPT ![r] = <<>>]
      /\ verdicts' = [verdicts EXCEPT ![r] = Append(verdicts[r], "block")]
      /\ gate' = [gate EXCEPT ![r] = TRUE] /\ status' = [status EXCEPT ![r] = "denied"]
      /\ Remember(r)
      /\ UNCHANGED <<engine, server, left, kind, received, cookies, hooked>>
      /\ tx' = tx \ {r}
      /\ \E b \in Bodies : body' = [body EXCEPT ![r] = b]
  BY DEF Deny, Decides, Goto
<1>4. Append(verdicts[r], "block") = <<"block">> /\ <<"block">> \in Seq({"allow", "block"})
  BY <1>2
<1>5. TypedMove(r)
  <2>1. "sending" \in Pcs /\ <<>> \in Seq(Scanners)
    BY DEF Pcs
  <2> QED  BY <1>3, <1>4, <2>1, Kept DEF TypedMove
<1>6. /\ pc'[r] = "sending" /\ chain'[r] = <<>> /\ verdicts'[r] = <<"block">>
      /\ gate'[r] /\ status'[r] = "denied"
      /\ \A q \in Requests : q # r => pc'[q] = pc[q]
      /\ gate' \in [Requests -> BOOLEAN] /\ \A q \in Requests : gate[q] => gate'[q]
  BY <1>1, <1>3, <1>4 DEF TypeOK, Typed
<1>7. ChainAhead(r)' /\ BodyRead(r)' /\ Judged(r)' /\ Hooked(r)' /\ Header(r)'
  <2>1. ChainAhead(r)'
    BY <1>6 DEF ChainAhead
  <2>2. BodyRead(r)'
    BY <1>2, <1>3, <1>6 DEF BodyRead, InChain
  <2>3. Judged(r)'
    BY <1>2, <1>3, <1>6 DEF Judged, Unanswered, InChain
  <2>4. Hooked(r)'
    BY <1>2, <1>3, <1>6 DEF Hooked, Replied
  <2>5. Header(r)'
    BY <1>3, <1>6, NoCookieYet DEF Decides, Unanswered, Answers
  <2> QED  BY <2>1, <2>2, <2>3, <2>4, <2>5
<1>8. /\ threats' \in Seq(Entries) /\ Len(threats') <= MaxEntries /\ nextId' \in Nat \ {0}
      /\ ThreatsAreLatest'
  BY <1>1, <1>3, <1>6, RememberLatest
<1>9. tx' \subseteq Requests /\ TransactionsClosed'
  BY <1>3, <1>6, TransactionGivenBack
<1>10. pc'[r] \in InChain <=> chain'[r] # <<>>
  BY <1>6 DEF InChain
<1> QED  BY <1>3, <1>5, <1>7, <1>8, <1>9, <1>10, MoveInv DEF RequestInv

\* A scanner throws: the error handler answers, and nothing is recorded
\* (server.js: Fastify's error handler).
LEMMA ThrowInv ==
  ASSUME Inv, NEW r \in Requests, Decides(r), Throw(r)
  PROVE  Inv'
<1>1. TypeOK /\ Typed /\ RequestInv(r) /\ ThreatsAreLatest
  BY DEF Inv
<1>2. /\ ~gate[r] /\ received[r] = "none" /\ verdicts[r] = <<>> /\ hooked[r] = {}
  BY InTheChain DEF Decides
<1>3. /\ pc' = [pc EXCEPT ![r] = "sending"] /\ chain' = [chain EXCEPT ![r] = <<>>]
      /\ status' = [status EXCEPT ![r] = "error"]
      /\ UNCHANGED <<gate, verdicts, threats, nextId>>
      /\ UNCHANGED <<engine, server, left, kind, received, cookies, hooked>>
      /\ tx' = tx \ {r}
      /\ \E b \in Bodies : body' = [body EXCEPT ![r] = b]
  BY DEF Throw, Decides, Goto
<1>4. TypedMove(r)
  <2>1. "sending" \in Pcs /\ <<>> \in Seq(Scanners)
    BY DEF Pcs
  <2> QED  BY <1>3, <2>1, Kept DEF TypedMove
<1>5. /\ pc'[r] = "sending" /\ chain'[r] = <<>> /\ status'[r] = "error"
      /\ \A q \in Requests : q # r => pc'[q] = pc[q]
  BY <1>1, <1>3 DEF TypeOK, Typed
<1>6. ChainAhead(r)' /\ BodyRead(r)' /\ Judged(r)' /\ Hooked(r)' /\ Header(r)'
  <2>1. ChainAhead(r)'
    BY <1>5 DEF ChainAhead
  <2>2. BodyRead(r)'
    BY <1>2, <1>3, <1>5 DEF BodyRead, InChain
  <2>3. Judged(r)'
    BY <1>2, <1>3, <1>5 DEF Judged, Unanswered, InChain
  <2>4. Hooked(r)'
    BY <1>2, <1>3, <1>5 DEF Hooked, Replied
  <2>5. Header(r)'
    BY <1>3, <1>5, NoCookieYet DEF Decides, Unanswered, Answers
  <2> QED  BY <2>1, <2>2, <2>3, <2>4, <2>5
<1>7. ThreatsAreLatest' /\ threats' \in Seq(Entries) /\ Len(threats') <= MaxEntries
      /\ nextId' \in Nat \ {0}
  BY <1>1, <1>3, HistoryKeeps DEF TypeOK, Typed
<1>8. tx' \subseteq Requests /\ TransactionsClosed'
  BY <1>3, <1>5, TransactionGivenBack
<1>9. pc'[r] \in InChain <=> chain'[r] # <<>>
  BY <1>5 DEF InChain
<1> QED  BY <1>3, <1>4, <1>6, <1>7, <1>8, <1>9, MoveInv DEF RequestInv

LEMMA DecidesInv ==
  ASSUME Inv, NEW r \in Requests, Decides(r)
  PROVE  Inv'
  BY PassInv, DenyInv, ThrowInv DEF Decides

\* After bufferRequestBody the body is there to be read, and is not too large
\* (body-buffer.js:20-29, 34-60).
LEMMA BufferReads ==
  ASSUME Inv, NEW r \in Requests, pc[r] \in InChain, Buffer(r), kind' = kind
  PROVE  /\ Buffered(r)'
         /\ \E b \in Bodies : body' = [body EXCEPT ![r] = b]
<1> DEFINE b == IF body[r] # "unread" THEN body[r]
                ELSE IF kind[r].size = "empty" THEN "absent" ELSE "fresh"
<1>1. TypeOK /\ BodyRead(r)
  BY DEF Inv, RequestInv
<1>2. body' = [body EXCEPT ![r] = b] /\ (body[r] = "unread" => kind[r].size # "large")
  BY DEF Buffer
<1>3. body[r] \in Bodies /\ kind[r].size \in Sizes
  BY <1>1 DEF TypeOK, RequestKinds, Bodies
<1>4. b \in Bodies /\ body'[r] = b
  BY <1>1, <1>2, <1>3 DEF TypeOK, Bodies
<1>5. IF Scanner(r) = "fastFilter" THEN AsSent(r) ELSE Buffered(r)
  BY <1>1 DEF BodyRead
<1>6. CASE AsSent(r)
  BY <1>2, <1>3, <1>4, <1>6 DEF AsSent, Buffered, Sizes
<1>7. CASE Buffered(r)
  BY <1>2, <1>4, <1>7 DEF Buffered
<1> QED  BY <1>2, <1>4, <1>5, <1>6, <1>7

\* The ways of a scanner with the body: it leaves it alone, reads it, or fails
\* to.  The fast filter leaves it alone only where the URL condemns the request.
Reads(r) ==
    \/ /\ UNCHANGED body
       /\ Deny(r) \/ Throw(r) \/ (Scanner(r) # "fastFilter" /\ Pass(r))
    \/ Buffer(r) /\ (Pass(r) \/ Deny(r) \/ Throw(r))
    \/ BufferThrows(r) /\ Throw(r)

LEMMA ReadsInv ==
  ASSUME Inv, NEW r \in Requests, pc[r] \in InChain, Reads(r), tx' = tx \ {r},
         UNCHANGED <<engine, server, left, kind, received, cookies, hooked>>
  PROVE  Inv'
<1>1. CASE /\ UNCHANGED body
           /\ Deny(r) \/ Throw(r) \/ (Scanner(r) # "fastFilter" /\ Pass(r))
  <2>1. \E b \in Bodies : body' = [body EXCEPT ![r] = b]
    BY <1>1, Kept
  <2>2. Scanner(r) # "fastFilter" => Buffered(r)'
    BY <1>1 DEF Inv, RequestInv, BodyRead, Buffered
  <2>3. Decides(r)
    BY <1>1, <2>1, <2>2 DEF Decides
  <2> QED  BY <2>3, DecidesInv
<1>2. CASE Buffer(r) /\ (Pass(r) \/ Deny(r) \/ Throw(r))
  <2>1. Decides(r)
    BY <1>2, BufferReads DEF Decides
  <2> QED  BY <2>1, DecidesInv
<1>3. CASE BufferThrows(r) /\ Throw(r)
  <2>1. "spent" \in Bodies
    BY DEF Bodies
  <2>2. Decides(r)
    BY <1>3, <2>1 DEF Decides, BufferThrows
  <2> QED  BY <2>2, DecidesInv
<1> QED  BY <1>1, <1>2, <1>3 DEF Reads

\* A request outside the WAF has no transaction.
LEMMA NoTransaction ==
  ASSUME Inv, NEW r \in Requests, pc[r] # "waf"
  PROVE  tx \ {r} = tx
  BY DEF Inv, TransactionsClosed

\* The scanners of the proxy (routes.js:119-158), and the adapters' verdicts.
LEMMA ScannersInv ==
  ASSUME Inv, NEW r \in Requests,
         \/ FastFilter(r) \/ BlocklistGuard(r) \/ RateLimitGuard(r) \/ TokenGuard(r)
         \/ GraphqlGuard(r) \/ SchemaGuard(r) \/ LoginGuard(r) \/ Passthrough(r)
         \/ InspectTransaction(r) \/ OracleAnswers(r) \/ OracleGone(r)
  PROVE  Inv'
<1>1. ASSUME NEW s, Turn(r, s), Reads(r) PROVE Inv'
  <2>1. pc[r] \in InChain /\ pc[r] # "waf"
    BY <1>1 DEF Turn, At, InChain
  <2>2. tx' = tx \ {r}
    BY <1>1, <2>1, NoTransaction DEF Turn
  <2> QED  BY <1>1, <2>1, <2>2, ReadsInv DEF Turn
<1>2. CASE FastFilter(r)
  <2>1. Turn(r, "fastFilter") /\ Reads(r)
    BY <1>2 DEF FastFilter, ByBody, Reads
  <2> QED  BY <1>1, <2>1
<1>3. CASE BlocklistGuard(r)
  <2>1. Turn(r, "blocklist") /\ Reads(r)
    BY <1>3 DEF BlocklistGuard, Reads, Turn
  <2> QED  BY <1>1, <2>1
<1>4. CASE RateLimitGuard(r)
  <2>1. Turn(r, "rateLimit") /\ Reads(r)
    BY <1>4 DEF RateLimitGuard, Reads, Turn
  <2> QED  BY <1>1, <2>1
<1>5. CASE TokenGuard(r)
  <2>1. Turn(r, "tokenGuard") /\ Reads(r)
    BY <1>5 DEF TokenGuard, Reads, Turn
  <2> QED  BY <1>1, <2>1
<1>6. CASE GraphqlGuard(r)
  <2>1. Turn(r, "graphqlGuard") /\ Reads(r)
    BY <1>6 DEF GraphqlGuard, ByBody, Reads
  <2> QED  BY <1>1, <2>1
<1>7. CASE SchemaGuard(r)
  <2>1. Turn(r, "schemaGuard") /\ Reads(r)
    BY <1>7 DEF SchemaGuard, ByBody, Reads, Turn
  <2> QED  BY <1>1, <2>1
<1>8. CASE LoginGuard(r)
  <2>1. Turn(r, "loginGuard") /\ Reads(r)
    BY <1>8 DEF LoginGuard, Reads
  <2> QED  BY <1>1, <2>1
<1>9. CASE Passthrough(r)
  <2>1. Turn(r, "adapter") /\ Reads(r)
    BY <1>9 DEF Passthrough, Reads, Turn
  <2> QED  BY <1>1, <2>1
<1>10. CASE InspectTransaction(r)
  <2>1. pc[r] \in InChain
    BY <1>10 DEF InspectTransaction, At, InChain
  <2>2. Reads(r)
    BY <1>10 DEF InspectTransaction, Reads
  <2> QED  BY <1>10, <2>1, <2>2, ReadsInv DEF InspectTransaction
<1>11. CASE OracleAnswers(r) \/ OracleGone(r)
  <2>1. pc[r] = "oracle" /\ pc[r] \in InChain
    BY <1>11 DEF OracleAnswers, OracleGone, At, InChain
  <2>2. Scanner(r) = "adapter"
    BY <2>1 DEF Inv, RequestInv, ChainAhead
  <2>3. Reads(r) /\ UNCHANGED <<engine, server, left, kind, received, cookies, hooked>>
        /\ tx' = tx
    BY <1>11, <2>2 DEF OracleAnswers, OracleGone, Reads
  <2> QED  BY <2>1, <2>3, NoTransaction, ReadsInv
<1> QED  BY <1>2, <1>3, <1>4, <1>5, <1>6, <1>7, <1>8, <1>9, <1>10, <1>11

\* The adapter has begun: the request waits for the engine or for the oracle,
\* at its last scanner (coraza-adapter.js:100, nginx-modsecurity-adapter.js:49-52).
LEMMA SuspendInv ==
  ASSUME Inv, NEW r \in Requests, NEW p \in {"waf", "oracle"}, At(r, "scan"),
         Scanner(r) = "adapter", Goto(r, p), Buffered(r)',
         \E b \in Bodies : body' = [body EXCEPT ![r] = b],
         UNCHANGED <<engine, server, left, kind, chain, gate, status, verdicts, threats,
                     nextId, received, cookies, hooked>>,
         tx' = IF p = "waf" THEN tx \cup {r} ELSE tx
  PROVE  Inv'
<1>1. TypeOK /\ Typed /\ RequestInv(r) /\ ThreatsAreLatest /\ TransactionsClosed
  BY DEF Inv
<1>2. pc[r] = "scan" /\ server # "closed" /\ pc[r] \in InChain
  BY DEF At, InChain
<1>3. /\ chain[r] # <<>> /\ ~gate[r] /\ status[r] = "none" /\ received[r] = "none"
      /\ verdicts[r] = <<>> /\ hooked[r] = {}
  BY <1>2, InTheChain
<1>4. pc'[r] = p /\ \A q \in Requests : q # r => pc'[q] = pc[q]
  BY <1>1 DEF Goto, TypeOK
<1>5. TypedMove(r)
  <2>1. \E q \in Pcs : pc' = [pc EXCEPT ![r] = q]
    BY DEF Goto, Pcs
  <2>2. /\ \E k \in RequestKinds : kind' = [kind EXCEPT ![r] = k]
        /\ \E s \in Seq(Scanners) : chain' = [chain EXCEPT ![r] = s]
        /\ \E g \in BOOLEAN : gate' = [gate EXCEPT ![r] = g]
        /\ \E s \in {"none", "denied", "error", "ok", "refused", "other"} :
              status' = [status EXCEPT ![r] = s]
    BY Kept
  <2>3. /\ \E v \in Seq({"allow", "block"}) : verdicts' = [verdicts EXCEPT ![r] = v]
        /\ \E w \in {"none", "nothing", "bytes"} : received' = [received EXCEPT ![r] = w]
        /\ \E cs \in Seq(Cookies) : cookies' = [cookies EXCEPT ![r] = cs]
        /\ \E h \in SUBSET {"session", "failure"} : hooked' = [hooked EXCEPT ![r] = h]
    BY Kept
  <2> QED  BY <2>1, <2>2, <2>3 DEF TypedMove
<1>6. RequestInv(r)'
  <2>1. ChainAhead(r)'
    BY <1>1 DEF RequestInv, ChainAhead, Scanner
  <2>2. BodyRead(r)'
    BY <1>3, <1>4 DEF BodyRead, InChain, Scanner
  <2>3. Judged(r)'
    BY <1>3, <1>4 DEF Judged
  <2>4. Hooked(r)'
    BY <1>3, <1>4 DEF Hooked, Replied
  <2>5. Header(r)'
    BY <1>2, <1>4, NoCookieYet DEF Unanswered, InChain
  <2> QED  BY <2>1, <2>2, <2>3, <2>4, <2>5 DEF RequestInv
<1>7. ThreatsAreLatest' /\ threats' \in Seq(Entries) /\ Len(threats') <= MaxEntries
      /\ nextId' \in Nat \ {0}
  BY <1>1, HistoryKeeps DEF TypeOK, Typed
<1>8. tx' \subseteq Requests /\ TransactionsClosed'
  BY <1>1, <1>2, <1>4 DEF TypeOK, TransactionsClosed
<1>9. pc'[r] \in InChain <=> chain'[r] # <<>>
  BY <1>3, <1>4 DEF InChain
<1> QED  BY <1>5, <1>6, <1>7, <1>8, <1>9, MoveInv

LEMMA AdaptersInv ==
  ASSUME Inv, NEW r \in Requests, OpenTransaction(r) \/ AskOracle(r)
  PROVE  Inv'
<1>1. At(r, "scan") /\ Scanner(r) = "adapter" /\ pc[r] \in InChain /\ pc[r] # "waf"
  BY DEF OpenTransaction, AskOracle, At, InChain
<1>2. CASE OpenTransaction(r)
  <2>1. CASE tx' = tx \cup {r} /\ Goto(r, "waf")
             /\ UNCHANGED <<chain, gate, status, verdicts, threats, nextId>>
    <3>1. UNCHANGED <<engine, server, left, kind, body, received, cookies, hooked>>
      BY <1>2 DEF OpenTransaction
    <3>2. \E b \in Bodies : body' = [body EXCEPT ![r] = b]
      BY <3>1, Kept
    <3>3. Buffered(r)'
      BY <1>1, <3>1 DEF Inv, RequestInv, BodyRead, Buffered
    <3> QED  BY <1>1, <2>1, <3>1, <3>2, <3>3, SuspendInv
  <2>2. CASE UNCHANGED tx /\ Throw(r)
    <3>1. UNCHANGED <<engine, server, left, kind, body, received, cookies, hooked>>
      BY <1>2 DEF OpenTransaction
    <3> QED  BY <1>1, <2>2, <3>1, NoTransaction, ReadsInv DEF Reads
  <2> QED  BY <1>2, <2>1, <2>2 DEF OpenTransaction
<1>3. CASE AskOracle(r)
  <2>1. UNCHANGED <<engine, server, left, kind, tx, received, cookies, hooked>>
    BY <1>3 DEF AskOracle
  <2>2. CASE Buffer(r) /\ Goto(r, "oracle")
             /\ UNCHANGED <<chain, gate, status, verdicts, threats, nextId>>
    <3>1. Buffered(r)' /\ \E b \in Bodies : body' = [body EXCEPT ![r] = b]
      BY <1>1, <2>1, <2>2, BufferReads
    <3> QED  BY <1>1, <2>1, <2>2, <3>1, SuspendInv
  <2>3. CASE BufferThrows(r) /\ Throw(r)
    BY <1>1, <2>1, <2>3, NoTransaction, ReadsInv DEF Reads
  <2> QED  BY <1>3, <2>2, <2>3 DEF AskOracle
<1> QED  BY <1>2, <1>3

-----------------------------------------------------------------------------
(* Arrival, the upstream and the reply                                      *)

\* A step that leaves history, transactions and server alone.
LEMMA PlainMoveInv ==
  ASSUME Inv, NEW r \in Requests, TypedMove(r), RequestInv(r)',
         pc'[r] \in InChain <=> chain'[r] # <<>>, pc[r] # "waf",
         UNCHANGED <<engine, server, left, gate, threats, nextId, tx>>
  PROVE  Inv'
<1>1. TypeOK /\ Typed /\ ThreatsAreLatest
  BY DEF Inv
<1>2. ThreatsAreLatest' /\ threats' \in Seq(Entries) /\ Len(threats') <= MaxEntries
      /\ nextId' \in Nat \ {0}
  BY <1>1, HistoryKeeps DEF TypeOK, Typed
<1>3. \A q \in Requests : q # r => pc'[q] = pc[q]
  BY <1>1 DEF TypedMove, TypeOK
<1>4. tx' \subseteq Requests /\ TransactionsClosed'
  BY <1>3, NoTransaction, TransactionGivenBack
<1> QED  BY <1>2, <1>4, MoveInv

\* A request is routed: its whole chain is ahead, its body unread.
LEMMA ArriveInv ==
  ASSUME Inv, NEW r \in Requests, Arrive(r)
  PROVE  Inv'
<1>1. TypeOK /\ Typed /\ RequestInv(r)
  BY DEF Inv
<1>2. PICK k \in Kinds :
        /\ kind' = [kind EXCEPT ![r] = k]
        /\ chain' = [chain EXCEPT ![r] = Chain(k.route)]
        /\ body' = [body EXCEPT ![r] = IF k.size = "none" THEN "absent" ELSE "unread"]
  BY DEF Arrive
<1>3. /\ pc[r] = "idle" /\ pc' = [pc EXCEPT ![r] = "scan"]
      /\ UNCHANGED <<engine, server, left, gate, status, verdicts, threats, nextId, tx,
                     received, cookies, hooked>>
  BY DEF Arrive, Goto
<1>4. k \in RequestKinds /\ k.route \in Routes
  BY KindsAssumption DEF RequestKinds
<1> DEFINE path == Chain(k.route)
<1>5. /\ path \in Seq(Scanners) /\ path # <<>> /\ Head(path) = "fastFilter"
      /\ \A i \in DOMAIN path : path[i] = "adapter" <=> i = Len(path)
      /\ \A i \in DOMAIN path : i > 1 => path[i] # "fastFilter"
  BY <1>4, Chains
<1>6. chain' = [chain EXCEPT ![r] = path]
  BY <1>2
<1> HIDE DEF path
<1>7. /\ pc'[r] = "scan" /\ kind'[r] = k /\ chain'[r] = path
      /\ body'[r] = IF k.size = "none" THEN "absent" ELSE "unread"
  BY <1>1, <1>2, <1>3, <1>6 DEF TypeOK, Typed
<1>8. TypedMove(r)
  <2>1. /\ \E q \in Pcs : pc' = [pc EXCEPT ![r] = q]
        /\ \E l \in RequestKinds : kind' = [kind EXCEPT ![r] = l]
        /\ \E s \in Seq(Scanners) : chain' = [chain EXCEPT ![r] = s]
        /\ \E b \in Bodies : body' = [body EXCEPT ![r] = b]
    <3>1. "scan" \in Pcs /\ "absent" \in Bodies /\ "unread" \in Bodies
      BY DEF Pcs, Bodies
    <3> QED  BY <1>2, <1>3, <1>4, <1>5, <1>6, <3>1
  <2>2. /\ \E g \in BOOLEAN : gate' = [gate EXCEPT ![r] = g]
        /\ \E s \in {"none", "denied", "error", "ok", "refused", "other"} :
              status' = [status EXCEPT ![r] = s]
        /\ \E v \in Seq({"allow", "block"}) : verdicts' = [verdicts EXCEPT ![r] = v]
    BY <1>3, Kept
  <2>3. /\ \E w \in {"none", "nothing", "bytes"} : received' = [received EXCEPT ![r] = w]
        /\ \E cs \in Seq(Cookies) : cookies' = [cookies EXCEPT ![r] = cs]
        /\ \E h \in SUBSET {"session", "failure"} : hooked' = [hooked EXCEPT ![r] = h]
    BY <1>3, Kept
  <2> QED  BY <2>1, <2>2, <2>3 DEF TypedMove
<1>9. RequestInv(r)'
  <2>1. ChainAhead(r)'
    BY <1>5, <1>7 DEF ChainAhead
  <2>2. Scanner(r)' = "fastFilter" /\ AsSent(r)'
    BY <1>5, <1>7 DEF Scanner, AsSent
  <2>3. pc[r] \in Unanswered \ {"upstream"} /\ pc[r] \notin {"forward", "upstream"}
        /\ pc[r] \notin Replied
    BY <1>3 DEF Unanswered, Replied
  <2>4. ~gate[r] /\ status[r] = "none" /\ received[r] = "none" /\ verdicts[r] = <<>>
        /\ hooked[r] = {}
    BY <1>1, <2>3 DEF RequestInv, Judged, Hooked
  <2>5. BodyRead(r)'
    BY <1>3, <1>7, <2>2, <2>4 DEF BodyRead, InChain
  <2>6. Judged(r)'
    BY <1>3, <1>7, <2>4 DEF Judged
  <2>7. Hooked(r)'
    BY <1>3, <1>7, <2>4 DEF Hooked, Replied
  <2>8. Header(r)'
    BY <1>3, <1>7, NoCookieYet DEF Unanswered, InChain
  <2> QED  BY <2>1, <2>5, <2>6, <2>7, <2>8 DEF RequestInv
<1>10. pc'[r] \in InChain <=> chain'[r] # <<>>
  BY <1>5, <1>7 DEF InChain
<1> QED  BY <1>3, <1>8, <1>9, <1>10, PlainMoveInv

\* The fields of a request that has left its chain, where they stay.
LEMMA OutOfChain ==
  ASSUME Inv, NEW r \in Requests, pc[r] \in Pcs \ InChain
  PROVE  chain[r] = <<>>
  BY DEF Inv, TypeOK, Pcs, InChain

\* What is forwarded is what the scanners have put back (body-buffer.js:20-29).
LEMMA ForwardInv ==
  ASSUME Inv, NEW r \in Requests, Forward(r)
  PROVE  Inv'
<1> DEFINE got == IF body[r] \in {"unread", "fresh"} THEN "bytes" ELSE "nothing"
<1>1. TypeOK /\ Typed /\ RequestInv(r)
  BY DEF Inv
<1>2. /\ pc[r] = "forward" /\ pc' = [pc EXCEPT ![r] = "upstream"]
      /\ received' = [received EXCEPT ![r] = got]
      /\ \E b \in Bodies : body' = [body EXCEPT ![r] = b]
      /\ UNCHANGED <<engine, server, left, kind, chain, gate, status, verdicts, threats,
                     nextId, tx, cookies, hooked>>
  BY Kept DEF Forward, At, Goto, Bodies
<1>3. got \in {"nothing", "bytes"}
  OBVIOUS
<1>4. Buffered(r)
  BY <1>1, <1>2 DEF RequestInv, BodyRead
<1>5. kind[r].size # "large" /\ got = IF kind[r].size = "fits" THEN "bytes" ELSE "nothing"
  BY <1>4 DEF Buffered
<1> HIDE DEF got
<1>6. pc'[r] = "upstream" /\ received'[r] = got
  BY <1>1, <1>2 DEF TypeOK
<1>7. chain[r] = <<>>
  BY <1>2, OutOfChain DEF Pcs, InChain
<1>8. TypedMove(r)
  <2>1. /\ \E q \in Pcs : pc' = [pc EXCEPT ![r] = q]
        /\ \E k \in RequestKinds : kind' = [kind EXCEPT ![r] = k]
        /\ \E s \in Seq(Scanners) : chain' = [chain EXCEPT ![r] = s]
    BY <1>2, Kept DEF Pcs
  <2>2. /\ \E g \in BOOLEAN : gate' = [gate EXCEPT ![r] = g]
        /\ \E s \in {"none", "denied", "error", "ok", "refused", "other"} :
              status' = [status EXCEPT ![r] = s]
        /\ \E v \in Seq({"allow", "block"}) : verdicts' = [verdicts EXCEPT ![r] = v]
    BY <1>2, Kept
  <2>3. /\ \E w \in {"none", "nothing", "bytes"} : received' = [received EXCEPT ![r] = w]
        /\ \E cs \in Seq(Cookies) : cookies' = [cookies EXCEPT ![r] = cs]
        /\ \E h \in SUBSET {"session", "failure"} : hooked' = [hooked EXCEPT ![r] = h]
    BY <1>2, <1>3, Kept
  <2> QED  BY <1>2, <2>1, <2>2, <2>3 DEF TypedMove
<1>9. RequestInv(r)'
  <2>1. ChainAhead(r)'
    BY <1>2, <1>6, <1>7 DEF ChainAhead
  <2>2. BodyRead(r)'
    BY <1>2, <1>5, <1>6 DEF BodyRead, InChain
  <2>3. Judged(r)'
    BY <1>1, <1>2, <1>3, <1>6 DEF RequestInv, Judged, Unanswered, InChain
  <2>4. Hooked(r)'
    BY <1>1, <1>2, <1>6 DEF RequestInv, Hooked, Replied
  <2>5. Header(r)'
    BY <1>2, <1>6, NoCookieYet DEF Unanswered
  <2> QED  BY <2>1, <2>2, <2>3, <2>4, <2>5 DEF RequestInv
<1>10. pc'[r] \in InChain <=> chain'[r] # <<>>
  BY <1>2, <1>6, <1>7 DEF InChain
<1> QED  BY <1>2, <1>8, <1>9, <1>10, PlainMoveInv

\* The upstream answers, or the proxy gives it up.
LEMMA AnswerInv ==
  ASSUME Inv, NEW r \in Requests, Answer(r)
  PROVE  Inv'
<1>1. TypeOK /\ Typed /\ RequestInv(r)
  BY DEF Inv
<1>2. /\ pc[r] = "upstream" /\ pc' = [pc EXCEPT ![r] = "sending"]
      /\ \E s \in {"ok", "refused", "other", "error"} : status' = [status EXCEPT ![r] = s]
      /\ \E cs \in Seq(Cookies) : cookies' = [cookies EXCEPT ![r] = cs]
      /\ Header(r)'
      /\ UNCHANGED <<engine, server, left, kind, chain, body, gate, verdicts, threats,
                     nextId, tx, received, hooked>>
  <2>1. kind[r].cookies \in Seq(Cookies)
    BY Kept DEF RequestKinds
  <2>2. cookies[r] \in Seq(Cookies) /\ cookies = [cookies EXCEPT ![r] = cookies[r]]
    BY Kept
  <2>3. /\ pc[r] = "upstream" /\ pc' = [pc EXCEPT ![r] = "sending"]
        /\ UNCHANGED <<engine, server, left, kind, chain, body, gate, verdicts, threats,
                       nextId, tx, received, hooked>>
    BY DEF Answer, At, Goto
  <2>4. \/ /\ \E s \in Answers : status' = [status EXCEPT ![r] = s]
           /\ cookies' = [cookies EXCEPT ![r] = kind[r].cookies]
        \/ status' = [status EXCEPT ![r] = "error"] /\ cookies' = cookies
    BY DEF Answer
  <2>5. \E s \in {"ok", "refused", "other", "error"} : status' = [status EXCEPT ![r] = s]
    BY <2>4 DEF Answers
  <2>6. pc'[r] = "sending"
    BY <1>1, <2>3 DEF TypeOK
  <2>7. CASE /\ \E s \in Answers : status' = [status EXCEPT ![r] = s]
             /\ cookies' = [cookies EXCEPT ![r] = kind[r].cookies]
    <3>1. status'[r] \in Answers /\ cookies'[r] = kind'[r].cookies
      BY <1>1, <2>3, <2>7 DEF TypeOK, Typed
    <3>2. Header(r)'
      BY <2>6, <3>1 DEF Header, SetCookie, Unanswered, InChain, Replied
    <3> QED  BY <2>1, <2>3, <2>5, <2>7, <3>2
  <2>8. CASE status' = [status EXCEPT ![r] = "error"] /\ cookies' = cookies
    <3>1. status'[r] \notin Answers
      BY <1>1, <2>8 DEF TypeOK, Answers
    <3>2. Header(r)'
      BY <2>3, <2>6, <2>8, <3>1, NoCookieYet DEF Unanswered
    <3> QED  BY <2>2, <2>3, <2>5, <2>8, <3>2
  <2> QED  BY <2>4, <2>7, <2>8
<1>3. pc'[r] = "sending" /\ status'[r] \in {"ok", "refused", "other", "error"}
  BY <1>1, <1>2 DEF TypeOK
<1>4. chain[r] = <<>>
  BY <1>2, OutOfChain DEF Pcs, InChain
<1>5. TypedMove(r)
  <2>1. /\ \E q \in Pcs : pc' = [pc EXCEPT ![r] = q]
        /\ \E k \in RequestKinds : kind' = [kind EXCEPT ![r] = k]
        /\ \E s \in Seq(Scanners) : chain' = [chain EXCEPT ![r] = s]
        /\ \E b \in Bodies : body' = [body EXCEPT ![r] = b]
    BY <1>2, Kept DEF Pcs
  <2>2. /\ \E g \in BOOLEAN : gate' = [gate EXCEPT ![r] = g]
        /\ \E s \in {"none", "denied", "error", "ok", "refused", "other"} :
              status' = [status EXCEPT ![r] = s]
        /\ \E v \in Seq({"allow", "block"}) : verdicts' = [verdicts EXCEPT ![r] = v]
    BY <1>2, Kept
  <2>3. /\ \E w \in {"none", "nothing", "bytes"} : received' = [received EXCEPT ![r] = w]
        /\ \E h \in SUBSET {"session", "failure"} : hooked' = [hooked EXCEPT ![r] = h]
    BY <1>2, Kept
  <2> QED  BY <1>2, <2>1, <2>2, <2>3 DEF TypedMove
<1>6. received[r] # "none" /\ ~gate[r] /\ hooked[r] = {} /\ verdicts[r] = <<"allow">>
  BY <1>1, <1>2 DEF RequestInv, Judged, Hooked, Unanswered, Replied
<1>7. RequestInv(r)'
  <2>1. ChainAhead(r)'
    BY <1>2, <1>3, <1>4 DEF ChainAhead
  <2>2. BodyRead(r)'
    BY <1>1, <1>2, <1>3 DEF RequestInv, BodyRead, InChain
  <2>3. Judged(r)'
    BY <1>2, <1>3, <1>6 DEF Judged, Unanswered, InChain
  <2>4. Hooked(r)'
    BY <1>2, <1>3, <1>6 DEF Hooked, Replied
  <2> QED  BY <1>2, <2>1, <2>2, <2>3, <2>4 DEF RequestInv
<1>8. pc'[r] \in InChain <=> chain'[r] # <<>>
  BY <1>2, <1>3, <1>4 DEF InChain
<1> QED  BY <1>2, <1>5, <1>7, <1>8, PlainMoveInv

\* hardenCookiesOnSend changes each cookie where it is, takes nothing from it,
\* and leaves out only a flag that another part of it begins like
\* (session-hooks.js:36-46, 58-63).
LEMMA HardenedKeeps ==
  ASSUME NEW cs \in Seq(Cookies)
  PROVE  /\ Hardened(cs) \in Seq(Cookies) /\ Len(Hardened(cs)) = Len(cs)
         /\ \A i \in 1..Len(cs) :
               /\ cs[i].flags \subseteq Hardened(cs)[i].flags
               /\ cs[i].like = Hardened(cs)[i].like
               /\ SecureCookieFlags \ Hardened(cs)[i].flags \subseteq Hardened(cs)[i].like
<1> DEFINE n == Len(cs)
<1>1. n \in Nat /\ DOMAIN cs = 1..n /\ \A i \in 1..n : cs[i] \in Cookies
  BY LenProperties, ElementOfSeq
<1>2. ASSUME NEW c \in Cookies
      PROVE  /\ HardenOne(c) \in Cookies
             /\ c.flags \subseteq HardenOne(c).flags /\ c.like = HardenOne(c).like
             /\ SecureCookieFlags \ HardenOne(c).flags \subseteq HardenOne(c).like
  <2>1. PICK f \in SUBSET SecureCookieFlags, l \in SUBSET SecureCookieFlags :
           c = [flags |-> f, like |-> l]
    BY DEF Cookies
  <2>2. HardenOne(c) = [flags |-> f \cup (SecureCookieFlags \ l), like |-> l]
    <3> DEFINE g == f \cup (SecureCookieFlags \ l)
    <3>1. c.flags = f /\ c.like = l
      BY <2>1
    <3>2. HardenOne(c) = [c EXCEPT !.flags = g]
      BY <3>1 DEF HardenOne
    <3> HIDE DEF g
    <3>3. [c EXCEPT !.flags = g] = [flags |-> g, like |-> l]
      BY <2>1
    <3> QED  BY <3>2, <3>3 DEF g
  <2> QED  BY <2>1, <2>2 DEF Cookies
<1>3. Hardened(cs) = [i \in 1..n |-> HardenOne(cs[i])]
  BY <1>1 DEF Hardened
<1> HIDE DEF n
<1>4. Hardened(cs) \in Seq(Cookies) /\ Len(Hardened(cs)) = n
  BY <1>1, <1>2, <1>3, IsASeq, LenProperties
<1>5. \A i \in 1..n : Hardened(cs)[i] = HardenOne(cs[i])
  BY <1>3
<1> QED  BY <1>1, <1>2, <1>4, <1>5 DEF n

\* The header as it leaves, with the cookie of a session or without
\* (session-hooks.js:23-29, 54-65).
LEMMA SendHeader ==
  ASSUME Inv, NEW r \in Requests, Send(r)
  PROVE  /\ \E cs \in Seq(Cookies) : cookies' = [cookies EXCEPT ![r] = cs]
         /\ Header(r)'
<1> DEFINE set == cookies[r]
           out == Hardened(set)
           n == Len(set)
<1>1. TypeOK /\ Typed /\ RequestInv(r)
  BY DEF Inv
<1>2. /\ pc[r] = "sending" /\ pc'[r] = "sent" /\ UNCHANGED <<kind, status>>
  BY <1>1 DEF Send, At, Goto, TypeOK
<1>3. SetCookie(r)' = set /\ SetCookie(r) = set /\ hooked[r] = {}
  BY <1>1, <1>2 DEF RequestInv, Header, Hooked, SetCookie, Replied
<1>4. set \in Seq(Cookies)
  BY <1>1 DEF Typed
<1>5. n \in Nat /\ DOMAIN set = 1..n
  BY <1>4, LenProperties
<1>6. /\ out \in Seq(Cookies) /\ Len(out) = n
      /\ \A i \in 1..n : /\ set[i].flags \subseteq out[i].flags /\ set[i].like = out[i].like
                          /\ SecureCookieFlags \ out[i].flags \subseteq out[i].like
  BY <1>4, HardenedKeeps
<1>7. \/ /\ cookies' = [cookies EXCEPT ![r] = Append(out, SessionCookie)]
         /\ hooked' = [hooked EXCEPT ![r] = @ \cup {"session"}]
      \/ cookies' = [cookies EXCEPT ![r] = out] /\ hooked' = hooked
  BY DEF Send
<1>8. SessionCookie \in Cookies /\ SecureCookieFlags \ SessionCookie.flags = {}
  BY DEF SessionCookie, Cookies
<1> HIDE DEF set, out, n
<1>9. CASE /\ cookies' = [cookies EXCEPT ![r] = Append(out, SessionCookie)]
           /\ hooked' = [hooked EXCEPT ![r] = @ \cup {"session"}]
  <2> DEFINE longer == Append(out, SessionCookie)
  <2>1. /\ longer \in Seq(Cookies) /\ Len(longer) = n + 1 /\ DOMAIN longer = 1..(n + 1)
        /\ longer[n + 1] = SessionCookie /\ \A i \in 1..n : longer[i] = out[i]
    BY <1>5, <1>6, <1>8, AppendProperties, LenProperties
  <2>2. cookies' = [cookies EXCEPT ![r] = longer]
    BY <1>9
  <2> HIDE DEF longer
  <2>3. cookies'[r] = longer /\ "session" \in hooked'[r]
    BY <1>1, <1>9, <2>2 DEF Typed, TypeOK
  <2>4. \A i \in 1..(n + 1) : SecureCookieFlags \ longer[i].flags \subseteq longer[i].like
    <3> TAKE i \in 1..(n + 1)
    <3>1. CASE i \in 1..n
      BY <1>6, <2>1, <3>1
    <3>2. CASE i = n + 1
      BY <1>8, <2>1, <3>2
    <3> QED  BY <1>5, <3>1, <3>2
  <2>5. \A i \in 1..n : set[i].flags \subseteq longer[i].flags /\ set[i].like = longer[i].like
    BY <1>6, <2>1
  <2>6. LeftOnce(r)'
    BY <1>3, <1>5, <2>1, <2>3, <2>4, <2>5 DEF LeftOnce, n
  <2> QED  BY <1>2, <2>1, <2>2, <2>6 DEF Header, Unanswered, InChain
<1>10. CASE cookies' = [cookies EXCEPT ![r] = out] /\ hooked' = hooked
  <2>1. cookies'[r] = out /\ "session" \notin hooked'[r]
    BY <1>1, <1>3, <1>10 DEF Typed
  <2>2. DOMAIN out = 1..n
    BY <1>6, LenProperties
  <2>3. LeftOnce(r)'
    BY <1>3, <1>5, <1>6, <2>1, <2>2 DEF LeftOnce, n
  <2> QED  BY <1>2, <1>6, <1>10, <2>3 DEF Header, Unanswered, InChain
<1> QED  BY <1>7, <1>9, <1>10

\* The hooks go by the answer (session-hooks.js:48-66, index.js:190-195).
LEMMA HooksInv ==
  ASSUME Inv, NEW r \in Requests, Send(r) \/ Respond(r)
  PROVE  Inv'
<1>1. TypeOK /\ Typed /\ RequestInv(r)
  BY DEF Inv
<1>2. /\ pc[r] \in {"sending", "sent"}
      /\ \E p \in {"sent", "done"} : pc' = [pc EXCEPT ![r] = p]
      /\ UNCHANGED <<engine, server, left, kind, chain, body, gate, status, verdicts, threats,
                     nextId, tx, received>>
  BY DEF Send, Respond, At, Goto
<1>3. pc'[r] \in {"sent", "done"}
  BY <1>1, <1>2 DEF TypeOK
<1>4. chain[r] = <<>>
  BY <1>2, OutOfChain DEF Pcs, InChain
<1>5. /\ \E cs \in Seq(Cookies) : cookies' = [cookies EXCEPT ![r] = cs]
      /\ Header(r)'
  <2>1. CASE Send(r)
    BY <2>1, SendHeader
  <2>2. CASE Respond(r)
    <3>1. /\ UNCHANGED <<cookies, kind, status>> /\ pc[r] = "sent" /\ pc'[r] = "done"
          /\ hooked' = [hooked EXCEPT ![r] = IF IsLoginFailure(r) THEN @ \cup {"failure"} ELSE @]
      BY <1>1, <2>2 DEF Respond, At, Goto, TypeOK
    <3>2. "session" \in hooked'[r] <=> "session" \in hooked[r]
      BY <1>1, <3>1 DEF TypeOK
    <3>3. LeftOnce(r)
      BY <1>1, <3>1 DEF RequestInv, Header, Replied
    <3>4. LeftOnce(r)'
      BY <3>1, <3>2, <3>3 DEF LeftOnce, SetCookie
    <3> QED  BY <3>1, <3>4, Kept DEF Header, Unanswered, InChain
  <2> QED  BY <2>1, <2>2
<1>6. /\ \E h \in SUBSET {"session", "failure"} : hooked' = [hooked EXCEPT ![r] = h]
      /\ "failure" \in hooked'[r] => "failure" \in hooked[r] \/ IsLoginFailure(r)
      /\ "session" \in hooked'[r] => "session" \in hooked[r] \/ StartsSession(r)
  <2>1. /\ hooked = [hooked EXCEPT ![r] = hooked[r]]
        /\ hooked[r] \in SUBSET {"session", "failure"}
    BY Kept
  <2>2. CASE hooked' = hooked
    BY <2>1, <2>2
  <2>3. CASE StartsSession(r) /\ hooked' = [hooked EXCEPT ![r] = @ \cup {"session"}]
    <3>1. hooked'[r] = hooked[r] \cup {"session"}
      BY <1>1, <2>3 DEF TypeOK
    <3> QED  BY <2>1, <2>3, <3>1
  <2>4. CASE IsLoginFailure(r) /\ hooked' = [hooked EXCEPT ![r] = @ \cup {"failure"}]
    <3>1. hooked'[r] = hooked[r] \cup {"failure"}
      BY <1>1, <2>4 DEF TypeOK
    <3> QED  BY <2>1, <2>4, <3>1
  <2>5. CASE hooked' = [hooked EXCEPT ![r] = @]
    BY <2>1, <2>5
  <2> QED  BY <2>2, <2>3, <2>4, <2>5 DEF Send, Respond
<1>7. TypedMove(r)
  <2>1. /\ \E q \in Pcs : pc' = [pc EXCEPT ![r] = q]
        /\ \E k \in RequestKinds : kind' = [kind EXCEPT ![r] = k]
        /\ \E s \in Seq(Scanners) : chain' = [chain EXCEPT ![r] = s]
        /\ \E b \in Bodies : body' = [body EXCEPT ![r] = b]
    BY <1>2, Kept DEF Pcs
  <2>2. /\ \E g \in BOOLEAN : gate' = [gate EXCEPT ![r] = g]
        /\ \E s \in {"none", "denied", "error", "ok", "refused", "other"} :
              status' = [status EXCEPT ![r] = s]
        /\ \E v \in Seq({"allow", "block"}) : verdicts' = [verdicts EXCEPT ![r] = v]
        /\ \E w \in {"none", "nothing", "bytes"} : received' = [received EXCEPT ![r] = w]
    BY <1>2, Kept
  <2> QED  BY <1>5, <1>6, <2>1, <2>2 DEF TypedMove
<1>8. RequestInv(r)'
  <2>1. ChainAhead(r)'
    BY <1>2, <1>3, <1>4 DEF ChainAhead
  <2>2. BodyRead(r)'
    BY <1>1, <1>2, <1>3 DEF RequestInv, BodyRead, InChain
  <2>3. Judged(r)'
    BY <1>1, <1>2, <1>3 DEF RequestInv, Judged, Unanswered, InChain
  <2>4. Hooked(r)'
    <3>1. IsLoginFailure(r) => kind[r].route = "login" /\ received[r] # "none"
                                  /\ status[r] = "refused"
      BY <1>1 DEF RequestInv, Judged, IsLoginFailure
    <3>2. StartsSession(r) => kind[r].route = "login" /\ received[r] # "none"
                                 /\ status[r] = "ok"
      BY <1>1 DEF RequestInv, Judged, StartsSession
    <3> QED  BY <1>1, <1>2, <1>3, <1>6, <3>1, <3>2 DEF RequestInv, Hooked, Replied
  <2> QED  BY <1>5, <2>1, <2>2, <2>3, <2>4 DEF RequestInv
<1>9. pc'[r] \in InChain <=> chain'[r] # <<>>
  BY <1>2, <1>3, <1>4 DEF InChain
<1>10. pc[r] # "waf"
  BY <1>2
<1> QED  BY <1>2, <1>7, <1>8, <1>9, <1>10, PlainMoveInv

-----------------------------------------------------------------------------
(* The shutdown, and every step                                             *)

\* The server closes: whoever still has a transaction then has no client
\* waiting (server.js:56-61).
LEMMA ServerInv ==
  ASSUME Inv, Signal \/ Close \/ \E r \in Requests : HangUp(r)
  PROVE  Inv'
<1>1. TypeOK /\ Typed /\ ThreatsAreLatest /\ TransactionsClosed
      /\ \A q \in Requests : RequestInv(q)
  BY DEF Inv
<1>2. /\ UNCHANGED <<engine, pc, kind, chain, body, gate, status, verdicts, threats, nextId,
                     tx, received, cookies, hooked>>
      /\ server' \in {"up", "closing", "closed"}
      /\ left \subseteq left' /\ left' \subseteq Requests
      /\ server' = "closed" => \/ (server = "closed" /\ tx \subseteq left)
                               \/ \A r \in Requests \ left : pc[r] \in {"idle"} \cup Replied
  BY <1>1 DEF Signal, Close, HangUp, TypeOK, TransactionsClosed
<1>3. TypeOK'
  BY <1>1, <1>2 DEF TypeOK
<1>4. Typed' /\ ThreatsAreLatest'
  BY <1>1, <1>2, HistoryKeeps DEF Typed
<1>5. \A q \in Requests : RequestInv(q)'
  BY <1>1, <1>2, UntouchedKeeps DEF Untouched
<1>6. TransactionsClosed'
  <2>1. ASSUME NEW r \in tx, server' = "closed" PROVE r \in left'
    BY <1>1, <1>2, <2>1 DEF TransactionsClosed, TypeOK, Replied
  <2> QED  BY <1>1, <1>2, <2>1 DEF TransactionsClosed
<1> QED  BY <1>3, <1>4, <1>5, <1>6 DEF Inv

LEMMA InitInv == Init => Inv
<1> SUFFICES ASSUME Init PROVE Inv
  OBVIOUS
<1>1. MaxEntries \in Nat \ {0}
  BY MaxEntriesAssumption
<1>2. TypeOK
  <2>1. [route |-> "app", size |-> "none", cookies |-> <<>>] \in RequestKinds
    BY DEF RequestKinds, Routes, Sizes
  <2> QED  BY <1>1, <2>1 DEF Init, TypeOK, Pcs
<1>3. Typed
  BY DEF Init, Typed
<1>4. ASSUME NEW r \in Requests PROVE RequestInv(r)
  <2>1. /\ pc[r] = "idle" /\ chain[r] = <<>> /\ ~gate[r] /\ status[r] = "none"
        /\ verdicts[r] = <<>> /\ received[r] = "none" /\ hooked[r] = {}
        /\ cookies[r] = <<>>
    BY DEF Init
  <2> QED  BY <2>1 DEF RequestInv, ChainAhead, BodyRead, Judged, Hooked, Header, InChain,
                       Replied
<1>5. ThreatsAreLatest
  BY <1>1 DEF Init, ThreatsAreLatest
<1>6. TransactionsClosed
  BY DEF Init, TransactionsClosed
<1> QED  BY <1>2, <1>3, <1>4, <1>5, <1>6 DEF Inv

\* The invariant holds in every state.
LEMMA Invariance == Spec => []Inv
<1>1. Inv /\ [Next]_vars => Inv'
  <2> SUFFICES ASSUME Inv, [Next]_vars PROVE Inv'
    OBVIOUS
  <2>1. CASE Next
    <3>1. CASE Signal \/ Close
      BY <3>1, ServerInv
    <3>2. CASE \E r \in Requests : Arrive(r) \/ Step(r) \/ OracleAnswers(r) \/ HangUp(r)
      <4>1. PICK r \in Requests : Arrive(r) \/ Step(r) \/ OracleAnswers(r) \/ HangUp(r)
        BY <3>2
      <4>2. CASE HangUp(r)
        BY <4>2, ServerInv
      <4>3. CASE Arrive(r) \/ Forward(r) \/ Answer(r) \/ Send(r) \/ Respond(r)
        BY <4>3, ArriveInv, ForwardInv, AnswerInv, HooksInv
      <4>4. CASE Step(r) \/ OracleAnswers(r)
        BY <4>4, ScannersInv, AdaptersInv, ForwardInv, AnswerInv, HooksInv DEF Step
      <4> QED  BY <4>1, <4>2, <4>3, <4>4
    <3> QED  BY <2>1, <3>1, <3>2 DEF Next
  <2>2. CASE UNCHANGED vars
    <3>1. UNCHANGED <<engine, server, left, pc, kind, chain, body, gate, status, verdicts,
                      threats, nextId, tx, received, cookies, hooked>>
      BY <2>2 DEF vars
    <3>2. TypeOK' /\ Typed' /\ ThreatsAreLatest' /\ TransactionsClosed'
      BY <3>1, HistoryKeeps DEF Inv, TypeOK, Typed, TransactionsClosed
    <3>3. \A q \in Requests : RequestInv(q)'
      BY <3>1, UntouchedKeeps DEF Inv, Untouched
    <3> QED  BY <3>2, <3>3 DEF Inv
  <2> QED  BY <2>1, <2>2
<1> QED  BY <1>1, InitInv, PTL DEF Spec

-----------------------------------------------------------------------------
(* What follows                                                             *)

\* The types of the state, for any requests in flight.
THEOREM TypeCorrect == Spec => []TypeOK
<1>1. Inv => TypeOK  BY DEF Inv
<1> QED  BY <1>1, Invariance, PTL

\* One request, one verdict: the shared mark isLast never counts a request
\* twice or not at all, on any route (routes.js:75-76, 99-102).
THEOREM EveryVerdictOnce == Spec => []OneVerdict
<1>1. Inv => OneVerdict  BY DEF Inv, RequestInv, Judged, OneVerdict
<1> QED  BY <1>1, Invariance, PTL

\* The history is the latest of the denials, for every bound
\* (threat-store.js:10-13).
THEOREM HistoryIsLatest == Spec => []ThreatsAreLatest
<1>1. Inv => ThreatsAreLatest  BY DEF Inv
<1> QED  BY <1>1, Invariance, PTL

\* The upstream gets what the client sent, on every route and with every
\* engine (body-buffer.js:20-29).
THEOREM BodiesArrive == Spec => []BodyArrivesWhole
<1>1. Inv => BodyArrivesWhole  BY DEF Inv, RequestInv, BodyRead, BodyArrivesWhole
<1> QED  BY <1>1, Invariance, PTL

\* No denial of the gate is taken for a failed login, and none for a
\* successful one (routes.js:66-70, index.js:190-195).
THEOREM OnlyTheUpstreamDecides == Spec => []UpstreamDecidesLogins
<1>1. Inv => UpstreamDecidesLogins  BY DEF Inv, RequestInv, Hooked, UpstreamDecidesLogins
<1> QED  BY <1>1, Invariance, PTL

\* Whatever header the upstream sets, its cookies leave once each and in their
\* order, with what they had; a flag is missing from one only where another part
\* of the cookie begins like it (session-hooks.js:36-46, 59-63).
THEOREM EachCookieLeavesOnce == Spec => []CookiesLeaveOnce
<1>1. Inv => CookiesLeaveOnce  BY DEF Inv, RequestInv, Header, CookiesLeaveOnce
<1> QED  BY <1>1, Invariance, PTL

\* A transaction of the WAF lasts as long as its scan, and the pool is destroyed
\* under no scan that a client waits for (coraza-adapter.js:129-131,
\* server.js:56-61).
THEOREM TransactionsGivenBack == Spec => []TransactionsClosed
<1>1. Inv => TransactionsClosed  BY DEF Inv
<1> QED  BY <1>1, Invariance, PTL
=============================================================================
