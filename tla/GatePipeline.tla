---------------------------- MODULE GatePipeline ----------------------------
(***************************************************************************)
(* The path of a proxied request through proxy/routes.js: the scanners of  *)
(* its route in their order, each wrapped in a gate, the WAF engine behind *)
(* its adapter, the upstream, the hooks on the response, and the shutdown  *)
(* of server.js around all that.  What a scanner decides is free here; the *)
(* blocklist guard and the token guard have modules of their own.          *)
(*                                                                         *)
(* External: Fastify runs the preHandlers of a request in order and stops  *)
(* at a reply or a throw; http-proxy pipes request.body to the upstream.   *)
(***************************************************************************)
EXTENDS Naturals, Sequences

CONSTANTS
    Requests,
    Kinds,         \* the kinds of requests: route, size of the body, and the
                   \* Set-Cookie header that the upstream answers with
    MaxEntries,    \* MAX_ENTRIES of the threat history
    Engines        \* the WAF_ENGINEs that a behaviour may have

ASSUME MaxEntriesAssumption == MaxEntries \in Nat \ {0}
ASSUME EnginesAssumption == Engines \subseteq {"coraza", "nginx", "passthrough"}

Routes == {"app", "graphql", "login", "api"}
Sizes == {"none", "empty", "fits", "large"}

SecureCookieFlags == {"httponly", "secure", "samesite"}

\* A cookie: the flags it has as attributes, and those that another of its
\* parts, name=value first of all, begins like (secureSession=x; Path=/).
Cookies == [flags : SUBSET SecureCookieFlags, like : SUBSET SecureCookieFlags]

RequestKinds == [route : Routes, size : Sizes, cookies : Seq(Cookies)]

ASSUME KindsAssumption == Kinds \subseteq RequestKinds

VARIABLES
    engine,
    server,    \* "up", "closing" (fastify.close), "closed" (wafAdapter.close, and
               \* the process exits)
    left,      \* requests whose client has gone away during the shutdown
    pc,
    kind,      \* the route, the size of the body, and what the upstream would set
    chain,     \* the scanners the request has yet to pass
    body,      \* request.body: a stream, unread or fresh from the buffer that
               \* armourapiBody holds, unless there is nothing (more) to read
    gate,      \* request.armourapiBlockedByGate
    status,    \* of the reply
    verdicts,  \* what is counted, logged and published of the request
    threats,   \* the threat history, oldest first
    nextId,
    tx,        \* requests that hold a transaction of the WAF pool
    received,  \* what the upstream got of the body
    cookies,   \* the Set-Cookie header of the reply, an array
    hooked     \* what the hooks of the login route did

vars == <<engine, server, left, pc, kind, chain, body, gate, status, verdicts,
          threats, nextId, tx, received, cookies, hooked>>

\* Mutant: the chain of /app ends with the rate limiter.
ChainAppUnscanned(p) ==
    CASE p = "app"     -> <<"fastFilter", "blocklist", "rateLimit">>
      [] p = "graphql" -> <<"fastFilter", "blocklist", "rateLimit", "graphqlGuard", "adapter">>
      [] p = "login"   -> <<"fastFilter", "blocklist", "rateLimit", "schemaGuard", "loginGuard",
                            "adapter">>
      [] p = "api"     -> <<"fastFilter", "blocklist", "rateLimit", "tokenGuard", "schemaGuard",
                            "adapter">>

\* registerProxyRoutes
Chain(p) ==
    CASE p = "app"     -> <<"fastFilter", "blocklist", "rateLimit", "adapter">>
      [] p = "graphql" -> <<"fastFilter", "blocklist", "rateLimit", "graphqlGuard", "adapter">>
      [] p = "login"   -> <<"fastFilter", "blocklist", "rateLimit", "schemaGuard", "loginGuard",
                            "adapter">>
      [] p = "api"     -> <<"fastFilter", "blocklist", "rateLimit", "tokenGuard", "schemaGuard",
                            "adapter">>

\* chain() marks the scanner, and one scanner object serves several routes.
IsLast(scanner) == \E p \in Routes : scanner = Chain(p)[Len(Chain(p))]

Scanner(r) == Head(chain[r])

Init ==
    /\ engine \in Engines
    /\ server = "up"
    /\ left = {}
    /\ pc = [r \in Requests |-> "idle"]
    /\ kind = [r \in Requests |-> [route |-> "app", size |-> "none", cookies |-> <<>>]]
    /\ chain = [r \in Requests |-> <<>>]
    /\ body = [r \in Requests |-> "absent"]
    /\ gate = [r \in Requests |-> FALSE]
    /\ status = [r \in Requests |-> "none"]
    /\ verdicts = [r \in Requests |-> <<>>]
    /\ threats = <<>>
    /\ nextId = 1
    /\ tx = {}
    /\ received = [r \in Requests |-> "none"]
    /\ cookies = [r \in Requests |-> <<>>]
    /\ hooked = [r \in Requests |-> {}]

\* The process runs, and r is at p.
At(r, p) == server # "closed" /\ pc[r] = p

Goto(r, p) == pc' = [pc EXCEPT ![r] = p]

\* A request is routed; each r stands for one request.
Arrive(r) ==
    /\ pc[r] = "idle" /\ server = "up"
    /\ Goto(r, "scan")
    /\ \E k \in Kinds :
          /\ kind' = [kind EXCEPT ![r] = k]
          /\ chain' = [chain EXCEPT ![r] = Chain(k.route)]
          /\ body' = [body EXCEPT ![r] = IF k.size = "none" THEN "absent" ELSE "unread"]
    /\ UNCHANGED <<engine, server, left, gate, status, verdicts, threats, nextId, tx,
                   received, cookies, hooked>>

-----------------------------------------------------------------------------
(* bufferRequestBody                                                        *)

\* Mutant: the stream is read and not put back.
BufferKeepsNothing(r) ==
    /\ body[r] = "unread" => kind[r].size # "large"
    /\ body' = [body EXCEPT ![r] = IF @ = "unread" THEN "spent" ELSE @]

\* The stream is read once, and replaced by another with the same bytes.
Buffer(r) ==
    /\ body[r] = "unread" => kind[r].size # "large"
    /\ body' = [body EXCEPT ![r] = IF @ # "unread" THEN @
                                   ELSE IF kind[r].size = "empty" THEN "absent" ELSE "fresh"]

\* It throws: the body is too large, or the stream breaks.
BufferThrows(r) ==
    /\ body[r] = "unread"
    /\ body' = [body EXCEPT ![r] = "spent"]

-----------------------------------------------------------------------------
(* createGatePreHandler                                                     *)

\* Mutants: the history drops an entry as soon as it is full; it drops none.
RememberShort(r) ==
    LET longer == Append(threats, [id |-> nextId, request |-> r])
    IN  /\ threats' = IF Len(longer) >= MaxEntries THEN Tail(longer) ELSE longer
        /\ nextId' = nextId + 1
RememberAll(r) ==
    /\ threats' = Append(threats, [id |-> nextId, request |-> r])
    /\ nextId' = nextId + 1

\* recordThreat
Remember(r) ==
    LET longer == Append(threats, [id |-> nextId, request |-> r])
    IN  /\ threats' = IF Len(longer) > MaxEntries THEN Tail(longer) ELSE longer
        /\ nextId' = nextId + 1

\* Mutant: the request is not flagged.
DenyUnflagged(r) ==
    /\ verdicts' = [verdicts EXCEPT ![r] = Append(@, "block")]
    /\ Remember(r)
    /\ status' = [status EXCEPT ![r] = "denied"]
    /\ chain' = [chain EXCEPT ![r] = <<>>]
    /\ Goto(r, "sending")
    /\ UNCHANGED gate

Deny(r) ==
    /\ verdicts' = [verdicts EXCEPT ![r] = Append(@, "block")]
    /\ Remember(r)
    /\ gate' = [gate EXCEPT ![r] = TRUE]
    /\ status' = [status EXCEPT ![r] = "denied"]
    /\ chain' = [chain EXCEPT ![r] = <<>>]
    /\ Goto(r, "sending")

Pass(r) ==
    /\ verdicts' = [verdicts EXCEPT ![r] = IF IsLast(Scanner(r)) THEN Append(@, "allow") ELSE @]
    /\ chain' = [chain EXCEPT ![r] = Tail(@)]
    /\ Goto(r, IF Len(chain[r]) > 1 THEN "scan" ELSE "forward")
    /\ UNCHANGED <<gate, status, threats, nextId>>

\* The scanner throws: the error handler replies, 413 for a body that is too
\* large, and nothing is recorded.
Throw(r) ==
    /\ status' = [status EXCEPT ![r] = "error"]
    /\ chain' = [chain EXCEPT ![r] = <<>>]
    /\ Goto(r, "sending")
    /\ UNCHANGED <<gate, verdicts, threats, nextId>>

-----------------------------------------------------------------------------
(* The scanners                                                             *)

Turn(r, scanner) ==
    /\ At(r, "scan") /\ Scanner(r) = scanner
    /\ UNCHANGED <<engine, server, left, kind, tx, received, cookies, hooked>>

\* A scanner that reads the body and then decides.
ByBody(r) ==
    \/ Buffer(r) /\ (Pass(r) \/ Deny(r))
    \/ BufferThrows(r) /\ Throw(r)

\* The URL is looked at first, and the body then.
FastFilter(r) ==
    /\ Turn(r, "fastFilter")
    /\ \/ UNCHANGED body /\ Deny(r)
       \/ ByBody(r)

BlocklistGuard(r) ==
    Turn(r, "blocklist") /\ UNCHANGED body /\ (Pass(r) \/ Deny(r))

RateLimitGuard(r) ==
    Turn(r, "rateLimit") /\ UNCHANGED body /\ (Pass(r) \/ Deny(r))

TokenGuard(r) ==
    Turn(r, "tokenGuard") /\ UNCHANGED body /\ (Pass(r) \/ Deny(r))

GraphqlGuard(r) == Turn(r, "graphqlGuard") /\ ByBody(r)

\* Most paths have no rule.
SchemaGuard(r) ==
    /\ Turn(r, "schemaGuard")
    /\ \/ UNCHANGED body /\ Pass(r)
       \/ ByBody(r)

LoginGuard(r) ==
    /\ Turn(r, "loginGuard")
    /\ \/ Buffer(r) /\ Pass(r)
       \/ BufferThrows(r) /\ Throw(r)

Passthrough(r) ==
    Turn(r, "adapter") /\ engine = "passthrough" /\ UNCHANGED body /\ Pass(r)

\* The Coraza adapter opens a transaction, or cannot.
OpenTransaction(r) ==
    /\ At(r, "scan") /\ Scanner(r) = "adapter" /\ engine = "coraza"
    /\ \/ /\ tx' = tx \cup {r} /\ Goto(r, "waf")
          /\ UNCHANGED <<chain, gate, status, verdicts, threats, nextId>>
       \/ UNCHANGED tx /\ Throw(r)
    /\ UNCHANGED <<engine, server, left, kind, body, received, cookies, hooked>>

\* Mutant: a scan that throws does not close its transaction.
InspectTransactionNoFinally(r) ==
    /\ At(r, "waf")
    /\ \/ Buffer(r) /\ (Pass(r) \/ Deny(r)) /\ tx' = tx \ {r}
       \/ (Buffer(r) \/ BufferThrows(r)) /\ Throw(r) /\ UNCHANGED tx
    /\ UNCHANGED <<engine, server, left, kind, received, cookies, hooked>>

\* The transaction is decided, or fails, and is closed either way.
InspectTransaction(r) ==
    /\ At(r, "waf")
    /\ \/ Buffer(r) /\ (Pass(r) \/ Deny(r) \/ Throw(r))
       \/ BufferThrows(r) /\ Throw(r)
    /\ tx' = tx \ {r}
    /\ UNCHANGED <<engine, server, left, kind, received, cookies, hooked>>

\* The ModSecurity adapter sends the request to the oracle, and starts a timer.
AskOracle(r) ==
    /\ At(r, "scan") /\ Scanner(r) = "adapter" /\ engine = "nginx"
    /\ \/ /\ Buffer(r) /\ Goto(r, "oracle")
          /\ UNCHANGED <<chain, gate, status, verdicts, threats, nextId>>
       \/ BufferThrows(r) /\ Throw(r)
    /\ UNCHANGED <<engine, server, left, kind, tx, received, cookies, hooked>>

OracleAnswers(r) ==
    /\ At(r, "oracle")
    /\ Pass(r) \/ Deny(r)
    /\ UNCHANGED <<engine, server, left, kind, body, tx, received, cookies, hooked>>

\* Mutant: no timer.
OracleUntimed(r) ==
    /\ At(r, "oracle") /\ FALSE
    /\ UNCHANGED vars

\* The fetch fails, at the latest when the timer aborts it; createWafAdapter
\* leaves failOpen at its default.
OracleGone(r) ==
    /\ At(r, "oracle")
    /\ Deny(r)
    /\ UNCHANGED <<engine, server, left, kind, body, tx, received, cookies, hooked>>

-----------------------------------------------------------------------------
(* The upstream and the reply                                               *)

\* http-proxy sends what it can read of request.body.
Forward(r) ==
    /\ At(r, "forward")
    /\ Goto(r, "upstream")
    /\ received' = [received EXCEPT ![r] = IF body[r] \in {"unread", "fresh"} THEN "bytes"
                                           ELSE "nothing"]
    /\ body' = [body EXCEPT ![r] = IF @ = "absent" THEN @ ELSE "spent"]
    /\ UNCHANGED <<engine, server, left, kind, chain, gate, status, verdicts, threats, nextId, tx,
                   cookies, hooked>>

Answers == {"ok", "refused", "other"}

\* The upstream accepts (2xx), refuses (401, 403), answers something else, or
\* is not there; an answer brings the upstream's Set-Cookie header.
Answer(r) ==
    /\ At(r, "upstream")
    /\ Goto(r, "sending")
    /\ \/ /\ \E s \in Answers : status' = [status EXCEPT ![r] = s]
          /\ cookies' = [cookies EXCEPT ![r] = kind[r].cookies]
       \/ status' = [status EXCEPT ![r] = "error"] /\ UNCHANGED cookies
    /\ UNCHANGED <<engine, server, left, kind, chain, body, gate, verdicts, threats,
                   nextId, tx, received, hooked>>

\* Mutant: reply.header appends the hardened cookies to the others.
HardenedAppended(cs) == cs \o [i \in DOMAIN cs |-> [cs[i] EXCEPT !.flags = SecureCookieFlags]]

\* hardenOneCookie: a flag is missing if no part of the cookie, the name
\* included, begins with it.
HardenOne(c) == [c EXCEPT !.flags = @ \cup (SecureCookieFlags \ c.like)]

\* hardenCookiesOnSend
Hardened(cs) == [i \in DOMAIN cs |-> HardenOne(cs[i])]

\* The cookie that attachSessionOnLoginSuccess writes out.
SessionCookie == [flags |-> SecureCookieFlags, like |-> {}]

\* attachSessionOnLoginSuccess, and recordLoginOutcome's test of a failure.
StartsSession(r) == kind[r].route = "login" /\ ~gate[r] /\ status[r] = "ok"
IsLoginFailure(r) == kind[r].route = "login" /\ ~gate[r] /\ status[r] \in {"refused", "denied"}

\* onSend: the root's hook first, then the login route's.
Send(r) ==
    /\ At(r, "sending")
    /\ Goto(r, "sent")
    /\ IF StartsSession(r)
       THEN /\ cookies' = [cookies EXCEPT ![r] = Append(Hardened(@), SessionCookie)]
            /\ hooked' = [hooked EXCEPT ![r] = @ \cup {"session"}]
       ELSE /\ cookies' = [cookies EXCEPT ![r] = Hardened(@)]
            /\ UNCHANGED hooked
    /\ UNCHANGED <<engine, server, left, kind, chain, body, gate, status, verdicts,
                   threats, nextId, tx, received>>

\* onResponse, unless the process has exited before.
Respond(r) ==
    /\ At(r, "sent")
    /\ Goto(r, "done")
    /\ hooked' = [hooked EXCEPT ![r] = IF IsLoginFailure(r) THEN @ \cup {"failure"} ELSE @]
    /\ UNCHANGED <<engine, server, left, kind, chain, body, gate, status, verdicts,
                   threats, nextId, tx, received, cookies>>

-----------------------------------------------------------------------------
(* shutdown                                                                 *)

Signal ==
    /\ server = "up"
    /\ server' = "closing"
    /\ UNCHANGED <<engine, left, pc, kind, chain, body, gate, status, verdicts, threats,
                   nextId, tx, received, cookies, hooked>>

Replied == {"sent", "done"}

\* The client hangs up.  Its request goes on, but nobody waits for it: this
\* may happen at any time, and makes a difference to a shutdown only.
HangUp(r) ==
    /\ server = "closing"
    /\ pc[r] \notin {"idle"} \cup Replied
    /\ left' = left \cup {r}
    /\ UNCHANGED <<engine, server, pc, kind, chain, body, gate, status, verdicts,
                   threats, nextId, tx, received, cookies, hooked>>

\* fastify.close() resolves when every response is out that a client waits
\* for; then the engine is closed and the process exits.
Close ==
    /\ server = "closing"
    /\ \A r \in Requests \ left : pc[r] \in {"idle"} \cup Replied
    /\ server' = "closed"
    /\ UNCHANGED <<engine, left, pc, kind, chain, body, gate, status, verdicts, threats,
                   nextId, tx, received, cookies, hooked>>

-----------------------------------------------------------------------------

\* What the gateway does by itself; the oracle need never answer.
Step(r) ==
    \/ FastFilter(r) \/ BlocklistGuard(r) \/ RateLimitGuard(r) \/ TokenGuard(r)
    \/ GraphqlGuard(r) \/ SchemaGuard(r) \/ LoginGuard(r) \/ Passthrough(r)
    \/ OpenTransaction(r) \/ InspectTransaction(r)
    \/ AskOracle(r) \/ OracleGone(r)
    \/ Forward(r) \/ Answer(r) \/ Send(r) \/ Respond(r)

Next ==
    \/ \E r \in Requests : Arrive(r) \/ Step(r) \/ OracleAnswers(r) \/ HangUp(r)
    \/ Signal
    \/ Close

\* Promises settle, the timer fires, and http-proxy gives up on an upstream
\* that does not answer.
Fairness == \A r \in Requests : WF_vars(Step(r))

Spec == Init /\ [][Next]_vars /\ Fairness

-----------------------------------------------------------------------------
(* Properties                                                               *)

Pcs == {"idle", "scan", "waf", "oracle", "forward", "upstream", "sending", "sent", "done"}

TypeOK ==
    /\ engine \in Engines /\ server \in {"up", "closing", "closed"}
    /\ left \subseteq Requests
    /\ pc \in [Requests -> Pcs]
    /\ kind \in [Requests -> RequestKinds]
    /\ \A r \in Requests : pc[r] \in {"scan", "waf", "oracle"} <=> chain[r] # <<>>
    /\ body \in [Requests -> {"absent", "unread", "fresh", "spent"}]
    /\ gate \in [Requests -> BOOLEAN]
    /\ status \in [Requests -> {"none", "denied", "error", "ok", "refused", "other"}]
    /\ verdicts \in [Requests -> Seq({"allow", "block"})]
    /\ Len(threats) <= MaxEntries /\ nextId \in Nat
    /\ tx \subseteq Requests
    /\ received \in [Requests -> {"none", "nothing", "bytes"}]
    /\ hooked \in [Requests -> SUBSET {"session", "failure"}]

\* routes.js:75-76: one request is logged, counted and published once, by the
\* verdict that the whole chain came to, and one that is still in the chain
\* or that a scanner failed on is not, though the routes share their scanners.
OneVerdict ==
    \A r \in Requests :
        verdicts[r] = IF gate[r] THEN <<"block">>
                      ELSE IF pc[r] \in {"forward", "upstream"} \/ received[r] # "none"
                      THEN <<"allow">>
                      ELSE <<>>

\* threat-store.js:10-13: the history is the latest of the denials.
ThreatsAreLatest ==
    /\ Len(threats) = IF nextId - 1 < MaxEntries THEN nextId - 1 ELSE MaxEntries
    /\ \A i \in DOMAIN threats : threats[i].id = nextId - 1 - Len(threats) + i
    /\ \A i \in DOMAIN threats : gate[threats[i].request]

\* body-buffer.js:20-29: the upstream gets what the client sent and the
\* scanners saw, in full, whichever of them read it first.
BodyArrivesWhole ==
    \A r \in Requests : received[r] # "none" =>
        /\ kind[r].size # "large"
        /\ received[r] = IF kind[r].size = "fits" THEN "bytes" ELSE "nothing"

\* index.js:190-195, routes.js:66-70: only what the upstream answered to a
\* login counts as a failed or as a successful one.
UpstreamDecidesLogins ==
    \A r \in Requests :
        /\ "failure" \in hooked[r] => kind[r].route = "login" /\ received[r] # "none"
                                         /\ status[r] = "refused"
        /\ "session" \in hooked[r] => kind[r].route = "login" /\ received[r] # "none"
                                         /\ status[r] = "ok"

\* What the answer that r got has set.
SetCookie(r) == IF status[r] \in Answers THEN kind[r].cookies ELSE <<>>

\* Each cookie of the upstream is in the reply, once, in its place and with what
\* it had, and behind them is the one cookie of a session that started; none
\* lacks a flag, but for one that another part of it begins like.
LeftOnce(r) ==
    /\ Len(cookies[r]) = Len(SetCookie(r)) + (IF "session" \in hooked[r] THEN 1 ELSE 0)
    /\ \A i \in DOMAIN SetCookie(r) : /\ SetCookie(r)[i].flags \subseteq cookies[r][i].flags
                                      /\ SetCookie(r)[i].like = cookies[r][i].like
    /\ \A i \in DOMAIN cookies[r] :
          SecureCookieFlags \ cookies[r][i].flags \subseteq cookies[r][i].like

\* session-hooks.js:59-63, 23-29: reply.header appends, and all the same no
\* cookie leaves twice, as it came and hardened, and none is lost.  That each has
\* the flags (48-53) holds with the exception in LeftOnce only.
CookiesLeaveOnce == \A r \in Requests : pc[r] \in Replied => LeftOnce(r)

\* coraza-adapter.js:129-131: a scan gives its transaction back however it
\* ends, and when the pool is destroyed (server.js:56-61) nobody waits for the
\* verdict of one that is open.
TransactionsClosed ==
    /\ \A r \in tx : pc[r] = "waf"
    /\ server = "closed" => tx \subseteq left

\* nginx-modsecurity-adapter.js:48-75: a reply goes out to every client that
\* waits for it, also when the oracle does not answer, and during a shutdown.
EveryRequestReplied ==
    \A r \in Requests : pc[r] = "scan" ~> pc[r] \in Replied \/ r \in left
=============================================================================
