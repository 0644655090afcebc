---------------------------- MODULE SecurityApi ----------------------------
(***************************************************************************)
(* What an operator sees of the gate's decisions: the threat history of    *)
(* security-api/threat-store.js, the live feed of traffic-bus.js, the      *)
(* routes of security-api/routes.js that show them, and the name that the  *)
(* WAF adapter gives to what it blocked.                                   *)
(*                                                                         *)
(* A connection stands for an operator's page: a WebSocket on the feed,    *)
(* and the last answer that the page got to GET threats.                   *)
(*                                                                         *)
(* External: EventEmitter calls its listeners at once; ws closes a socket  *)
(* in two steps, CLOSING and then the close event.                         *)
(***************************************************************************)
EXTENDS Integers, Sequences, FiniteSets, SequencesExt

CONSTANTS
    Connections,
    MaxEntries,     \* MAX_ENTRIES
    Queries,        \* bound: what is asked for, a limit as the number it becomes, 0
                    \* for NaN, and a category or AnyCategory
    Matches,        \* what the rules of the WAF may find in a request
    MaxDecisions    \* bound: decisions of the gate

ASSUME BoundsAssumption ==
    /\ MaxEntries \in Nat \ {0} /\ MaxDecisions \in Nat
    /\ \A q \in Queries : q.limit \in Int

\* The rules that matched come in the order they fired.
ASSUME MatchesAssumption ==
    \A m \in Matches : m.rules \in Seq([id : Int, severity : Int])

VARIABLES
    matched,     \* what the rules found in the request that was blocked last, or <<>>
    entries,     \* the history, oldest first
    nextId,
    published,   \* every event of the bus, oldest first
    socket,      \* readyState, or "none" before and after the connection
    listening,   \* the connections whose handlers are on the bus
    heard,       \* the events sent on the socket
    joined,      \* how many events there were when the connection subscribed
    answer       \* [query, threats] of GET threats, or <<>>

history == <<matched, entries, nextId>>
feed == <<published, socket, listening, heard, joined>>
vars == <<history, feed, answer>>

Init ==
    /\ matched = <<>>
    /\ entries = <<>>
    /\ nextId = 1
    /\ published = <<>>
    /\ socket = [c \in Connections |-> "none"]
    /\ listening = {}
    /\ heard = [c \in Connections |-> <<>>]
    /\ joined = [c \in Connections |-> 0]
    /\ answer = [c \in Connections |-> <<>>]

\* Array.prototype.filter: the elements of s that are in kept, in their order.
Filter(s, kept) ==
    LET upTo[i \in 0..Len(s)] ==
            IF i = 0 THEN <<>>
            ELSE IF s[i] \in kept THEN Append(upTo[i - 1], s[i]) ELSE upTo[i - 1]
    IN  upTo[Len(s)]

-----------------------------------------------------------------------------
(* coraza-adapter.js: the category of what was blocked                      *)

Within(n, range) == range[1] <= n /\ n <= range[2]

\* CATEGORY_RANGES
CategoryRanges ==
    << <<911000, 911999, "method-enforcement">>, <<913000, 913999, "scanner-detection">>,
       <<920000, 921999, "protocol-violation">>, <<930000, 930999, "path-traversal">>,
       <<931000, 931999, "rfi">>, <<932000, 933999, "rce">>,
       <<934000, 934999, "generic-attack">>, <<941000, 941999, "xss">>,
       <<942000, 942999, "sqli">>, <<943000, 943999, "session-fixation">>,
       <<944000, 944999, "java-attack">> >>

AttackRange == <<930000, 944999>>

CategoryFor(id) ==
    LET hits == {i \in DOMAIN CategoryRanges : Within(id, CategoryRanges[i])}
    IN  IF hits = {} THEN "anomaly" ELSE CategoryRanges[CHOOSE i \in hits : TRUE][3]

Specific(rule) == rule.severity \in 0..4

\* Mutant: the first specific rule is reported, whatever it is about.
ReportingFirst(m) ==
    Filter(m.rules, {rule \in Range(m.rules) : Specific(rule) /\ rule.id # m.interruption})

\* pickReportingRule: the candidates, of which the first is taken.
Reporting(m) ==
    LET specific == {rule \in Range(m.rules) : Specific(rule)}
    IN  Filter(m.rules, {rule \in specific : Within(rule.id, AttackRange)})
        \o Filter(m.rules, {rule \in specific : rule.id # m.interruption})

Category(m) == CategoryFor(IF Reporting(m) = <<>> THEN m.interruption ELSE Head(Reporting(m)).id)

Categories == {"anomaly"} \cup {CategoryRanges[i][3] : i \in DOMAIN CategoryRanges}

-----------------------------------------------------------------------------
(* The gate decides                                                         *)

\* recordThreat
Remember(category) ==
    LET longer == Append(entries, [id |-> nextId, category |-> category])
    IN  /\ entries' = IF Len(longer) > MaxEntries THEN Tail(longer) ELSE longer
        /\ nextId' = nextId + 1

\* The handler of each subscriber, on an open socket.
Deliver(event) ==
    heard' = [c \in Connections |->
                 IF c \in listening /\ socket[c] = "OPEN" THEN Append(heard[c], event)
                 ELSE heard[c]]

\* Mutant: bus.once for bus.on.
PublishOnce(event) ==
    /\ published' = Append(published, event)
    /\ Deliver(event)
    /\ listening' = {}
    /\ UNCHANGED <<socket, joined>>

\* publishTraffic.  An event carries no id of a threat; id says here which of
\* them it is about, 0 for a request that was allowed.
Publish(event) ==
    /\ published' = Append(published, event)
    /\ Deliver(event)
    /\ UNCHANGED <<socket, listening, joined>>

\* Mutant: the history is kept and the feed forgotten.
BlockUnpublished(m) ==
    /\ matched' = m
    /\ Remember(Category(m))
    /\ UNCHANGED <<published, heard, socket, listening, joined>>

\* The gate's denial of what the WAF has found, in one turn of the event loop.
Block(m) ==
    /\ matched' = m
    /\ Remember(Category(m))
    /\ Publish([id |-> nextId, decision |-> "block"])

Allow ==
    /\ Publish([id |-> 0, decision |-> "allow"])
    /\ UNCHANGED history

Decide ==
    /\ Len(published) < MaxDecisions
    /\ Allow \/ \E m \in Matches : Block(m)
    /\ UNCHANGED answer

-----------------------------------------------------------------------------
(* The routes, for a caller that has the admin key                          *)

\* GET traffic: the socket is upgraded, and its handler put on the bus.
Subscribe(c) ==
    /\ socket[c] = "none"
    /\ socket' = [socket EXCEPT ![c] = "OPEN"]
    /\ listening' = listening \cup {c}
    /\ joined' = [joined EXCEPT ![c] = Len(published)]
    /\ UNCHANGED <<history, published, heard, answer>>

\* The socket begins to close, from either side or as the connection breaks,
\* and its page is gone.
Closing(c) ==
    /\ socket[c] = "OPEN"
    /\ socket' = [socket EXCEPT ![c] = "CLOSING"]
    /\ answer' = [answer EXCEPT ![c] = <<>>]
    /\ UNCHANGED <<history, published, listening, heard, joined>>

\* Mutant: the handler stays on the bus when its socket is gone.
CloseSubscribed(c) ==
    /\ socket[c] = "CLOSING"
    /\ socket' = [socket EXCEPT ![c] = "none"]
    /\ heard' = [heard EXCEPT ![c] = <<>>]
    /\ joined' = [joined EXCEPT ![c] = 0]
    /\ UNCHANGED <<history, published, listening, answer>>

\* socket.on('close', unsubscribe).  The page may be opened anew.
Close(c) ==
    /\ socket[c] = "CLOSING"
    /\ socket' = [socket EXCEPT ![c] = "none"]
    /\ listening' = listening \ {c}
    /\ heard' = [heard EXCEPT ![c] = <<>>]
    /\ joined' = [joined EXCEPT ![c] = 0]
    /\ UNCHANGED <<history, published, answer>>

\* slice(-limit): of -0, and of NaN, which a limit that is no number becomes,
\* it takes the whole; of a limit below 0, what is left without that many.
LastOf(s, limit) ==
    IF limit < 0 THEN SubSeq(s, 1 - limit, Len(s))
    ELSE IF limit = 0 \/ limit >= Len(s) THEN s
    ELSE SubSeq(s, Len(s) - limit + 1, Len(s))

\* The query names no category.
AnyCategory == ""

Matching(s, category) ==
    IF category = AnyCategory THEN s ELSE Filter(s, {e \in Range(s) : e.category = category})

\* Mutant: the category is looked for among the latest entries only.
ListThreatsLate(limit, category) == Reverse(Matching(LastOf(entries, limit), category))

\* listThreats
ListThreats(limit, category) == Reverse(LastOf(Matching(entries, category), limit))

\* GET threats, of a page on the feed.
List(c) ==
    /\ socket[c] = "OPEN"
    /\ \E q \in Queries :
          answer' = [answer EXCEPT
                        ![c] = [query |-> q, threats |-> ListThreats(q.limit, q.category)]]
    /\ UNCHANGED <<history, feed>>

Next ==
    \/ Decide
    \/ \E c \in Connections : Subscribe(c) \/ Closing(c) \/ Close(c) \/ List(c)

Spec == Init /\ [][Next]_vars

-----------------------------------------------------------------------------
(* Properties                                                               *)

Threats == Seq([id : Nat, category : Categories])

\* Every variable has its type, and a handler is on the bus as long as its
\* socket is there, and no longer (routes.js:64-69).
TypeOK ==
    /\ matched \in Matches \cup {<<>>}
    /\ entries \in Threats /\ Len(entries) <= MaxEntries
    /\ nextId \in Nat
    /\ published \in Seq([id : Nat, decision : {"allow", "block"}])
    /\ socket \in [Connections -> {"none", "OPEN", "CLOSING"}]
    /\ listening = {c \in Connections : socket[c] # "none"}
    /\ \A c \in Connections : joined[c] \in 0..Len(published)

\* routes.js:59-60: every decision is pushed in real time.  A page has heard
\* exactly the events since it subscribed, in their order, and one that has
\* begun to close the first of them.
FeedIsWhole ==
    \A c \in Connections :
        /\ IsPrefix(heard[c], SubSeq(published, joined[c] + 1, Len(published)))
        /\ socket[c] = "OPEN" => Len(heard[c]) = Len(published) - joined[c]

\* A page that has subscribed and then asked for the whole history misses no
\* threat of the history: what the answer does not have, the feed showed.
NothingBetween ==
    \A c \in Connections :
        /\ socket[c] = "OPEN" /\ answer[c] # <<>>
        /\ answer[c].query.category = AnyCategory
        /\ answer[c].query.limit = 0 \/ answer[c].query.limit >= MaxEntries
        => \A e \in Range(entries) :
               \/ e \in Range(answer[c].threats)
               \/ \E i \in DOMAIN heard[c] : heard[c][i].id = e.id

Least(m, n) == IF m < n THEN m ELSE n

\* An answer has the latest threats of its category that the limit leaves room
\* for, the latest first (threat-store.js:17), and no other.
AnswersAreLatest ==
    [][\A c \in Connections : answer'[c] # answer[c] /\ answer'[c] # <<>> =>
          LET limit == answer'[c].query.limit
              threats == answer'[c].threats
              wanted == {e \in Range(entries) : answer'[c].query.category \in {AnyCategory, e.category}}
          IN  /\ Range(threats) \subseteq wanted
              /\ \A i, j \in DOMAIN threats : i < j => threats[i].id > threats[j].id
              /\ \A e \in wanted \ Range(threats), f \in Range(threats) : e.id < f.id
              /\ limit > 0 => Len(threats) = Least(limit, Cardinality(wanted))
              /\ limit = 0 => Range(threats) = wanted]_vars

\* coraza-adapter.js:40-42: an attack goes by its own name, whatever protocol
\* rules fired before it.
AttacksAreNamed ==
    matched # <<>> =>
        LET attacks == {rule \in Range(matched.rules) :
                            rule.severity \in 0..4 /\ rule.id >= 930000 /\ rule.id < 945000}
        IN  attacks # {} => Last(entries).category \in {CategoryFor(rule.id) : rule \in attacks}
=============================================================================
