---------------------------- MODULE GraphqlGuard ----------------------------
(***************************************************************************)
(* graphql-guard/index.js: the scan of a request's operations, and the     *)
(* walk over the selections of each query, one step per selection.         *)
(*                                                                         *)
(* A selection set is a sequence of selections, each a record of its kind, *)
(* its name and its own selection set, <<>> where it has none.             *)
(*                                                                         *)
(* External: graphql's parse, which yields a document or throws.           *)
(***************************************************************************)
EXTENDS Naturals, Sequences, FiniteSets

CONSTANTS
    MaxDepth,
    MaxComplexity,
    MaxBatchSize,
    AllowIntrospection,
    Payloads,           \* what requests may bring
    Longest             \* bound: sets nest no deeper in a query written out

ASSUME LimitsAssumption ==
    /\ MaxDepth \in Nat /\ MaxComplexity \in Nat /\ MaxBatchSize \in Nat
    /\ AllowIntrospection \in BOOLEAN

\* What stands where no fragment does: no name is empty in GraphQL's grammar.
NoFragment == ""

\* Operations come in a sequence, and a document names its fragments.
ASSUME PayloadsAssumption ==
    \A payload \in Payloads : payload.form \notin {"absent", "malformed"} =>
        LET batch == payload.operations
        IN  /\ batch \in Seq({batch[i] : i \in DOMAIN batch})
            /\ \A i \in DOMAIN batch :
                   batch[i].form = "document" => NoFragment \notin DOMAIN batch[i].fragments

-----------------------------------------------------------------------------
(* A query written out: every spread replaced by what it stands for, which  *)
(* is nothing where the fragment is undefined or is around it already.  A   *)
(* place is a selection set of it: from is the definition or the selection  *)
(* that it is the set of, on are the fragments around it.                   *)

Roots(op) ==
    {[from |-> <<i>>, set |-> op.definitions[i], depth |-> 1, on |-> {}] :
        i \in DOMAIN op.definitions}

Leads(op, q, i) ==
    LET s == q.set[i]
    IN  \/ s.kind = "field" /\ s.set # <<>>
        \/ s.kind = "inline"
        \/ s.kind = "spread" /\ s.name \in DOMAIN op.fragments /\ s.name \notin q.on

Within(op, q, i) ==
    LET s == q.set[i]
    IN  [from |-> <<q, i>>,
         set |-> IF s.kind = "spread" THEN op.fragments[s.name] ELSE s.set,
         depth |-> IF s.kind = "field" THEN q.depth + 1 ELSE q.depth,
         on |-> IF s.kind = "spread" THEN q.on \cup {s.name} ELSE q.on]

Leading(op, q) == {i \in DOMAIN q.set : Leads(op, q, i)}

Below(op, places) == UNION {{Within(op, q, i) : i \in Leading(op, q)} : q \in places}

AndBelow(op, places) == places \cup Below(op, places)

Places(op) ==
    LET upTo[n \in 0..Longest] ==
            IF n = 0 THEN Roots(op) ELSE AndBelow(op, upTo[n - 1])
    IN  upTo[Longest]

Selections(op) == UNION {{<<q, i>> : i \in DOMAIN q.set} : q \in Places(op)}
Fields(op) == {x \in Selections(op) : x[1].set[x[2]].kind = "field"}

TooDeep(op) == \E q \in Places(op) : q.depth > MaxDepth
TooComplex(op) == Cardinality(Fields(op)) > MaxComplexity
Introspective(op) == \E x \in Fields(op) : x[1].set[x[2]].name = "__schema"

Harmless(op) ==
    /\ op.form = "document"
    /\ ~TooDeep(op) /\ ~TooComplex(op)
    /\ Introspective(op) => AllowIntrospection

ASSUME LongestAssumption == Longest \in Nat

\* The selections of a set come in a sequence, and no place is nested so deeply
\* that it is missed.
Finite(op) ==
    LET places == Places(op)
    IN  /\ op.definitions \in Seq({q.set : q \in Roots(op)})
        /\ \A q \in places : q.set \in Seq({q.set[i] : i \in DOMAIN q.set})
        /\ Below(op, places) \subseteq places

\* The parser's documents are finite.
ASSUME DocumentsAssumption ==
    \A payload \in Payloads : payload.form \notin {"absent", "malformed"} =>
        \A i \in DOMAIN payload.operations :
            payload.operations[i].form = "document" => Finite(payload.operations[i])

-----------------------------------------------------------------------------

VARIABLES
    pc,             \* "operation": at the loop of scan; "walk": in analyzeQuery; "ended"
    operations,
    at,             \* the operation that the loop is at
    definitions,    \* the operation definitions of its document, yet to be walked
    stack,          \* the calls of walkSelectionSet, the innermost last
    seenFragments,
    maxDepthSeen,
    fieldCount,
    introspectionUsed,
    verdict         \* "none" until the scan ends

seen == <<maxDepthSeen, fieldCount, introspectionUsed>>
vars == <<pc, operations, at, definitions, stack, seenFragments, seen, verdict>>

-----------------------------------------------------------------------------
(* scan                                                                     *)

\* extractOperations: the payload is absent, or no JSON, or one operation, or
\* an array of operations; a GET has none or one.
Extracted(payload) == IF payload.form = "absent" THEN <<>> ELSE payload.operations

\* What is settled before any operation is looked at.
Screened(payload) ==
    IF payload.form = "malformed" THEN "graphql-malformed"
    ELSE IF Extracted(payload) = <<>> THEN "allow"
    ELSE IF Len(Extracted(payload)) > MaxBatchSize THEN "graphql-batching"
    ELSE "none"

Init ==
    /\ \E payload \in Payloads :
          /\ operations = IF payload.form = "malformed" THEN <<>> ELSE Extracted(payload)
          /\ verdict = Screened(payload)
          /\ pc = IF Screened(payload) = "none" THEN "operation" ELSE "ended"
    /\ at = 1
    /\ definitions = <<>>
    /\ stack = <<>>
    /\ seenFragments = {}
    /\ maxDepthSeen = 0
    /\ fieldCount = 0
    /\ introspectionUsed = FALSE

Operation == operations[at]

End(v) == pc' = "ended" /\ verdict' = v

\* The operation has no string for a query, or one that parse rejects.
Malformed ==
    /\ pc = "operation"
    /\ Operation.form \in {"missing", "unparsable"}
    /\ End("graphql-malformed")
    /\ UNCHANGED <<operations, at, definitions, stack, seenFragments, seen>>

\* Mutant: the counters outlive the operation.
AnalyzeOn ==
    /\ pc = "operation" /\ Operation.form = "document"
    /\ pc' = "walk"
    /\ definitions' = Operation.definitions
    /\ seenFragments' = {}
    /\ UNCHANGED <<operations, at, stack, seen, verdict>>

\* analyzeQuery begins with fresh counters.
Analyze ==
    /\ pc = "operation" /\ Operation.form = "document"
    /\ pc' = "walk"
    /\ definitions' = Operation.definitions
    /\ seenFragments' = {}
    /\ maxDepthSeen' = 0
    /\ fieldCount' = 0
    /\ introspectionUsed' = FALSE
    /\ UNCHANGED <<operations, at, stack, verdict>>

-----------------------------------------------------------------------------
(* walkSelectionSet                                                         *)

Defined(name) == name \in DOMAIN Operation.fragments

Larger(m, n) == IF m > n THEN m ELSE n

\* Mutant: only the depth cuts the walk short.
OverDepth == maxDepthSeen > MaxDepth

OverLimit == maxDepthSeen > MaxDepth \/ fieldCount > MaxComplexity

\* fragment: the one whose spread led here, or NoFragment.
Call(calls, set, depth, fragment) ==
    /\ maxDepthSeen' = Larger(maxDepthSeen, depth)
    /\ stack' = Append(calls, [rest |-> set, depth |-> depth, fragment |-> fragment])

WalkDefinition ==
    /\ pc = "walk" /\ stack = <<>> /\ definitions # <<>>
    /\ Call(<<>>, Head(definitions), 1, NoFragment)
    /\ definitions' = Tail(definitions)
    /\ UNCHANGED <<pc, operations, at, seenFragments, fieldCount, introspectionUsed, verdict>>

Top == stack[Len(stack)]
Selection == Head(Top.rest)

\* The loop over the selections goes on with the next one.
Selecting(kind) ==
    /\ pc = "walk" /\ stack # <<>> /\ ~OverLimit
    /\ Top.rest # <<>> /\ Selection.kind = kind

\* The calls, with the selection taken.
Taken == [stack EXCEPT ![Len(stack)].rest = Tail(@)]

SelectField ==
    /\ Selecting("field")
    /\ fieldCount' = fieldCount + 1
    /\ introspectionUsed' = (introspectionUsed \/ Selection.name = "__schema")
    /\ IF Selection.set # <<>> THEN Call(Taken, Selection.set, Top.depth + 1, NoFragment)
       ELSE stack' = Taken /\ UNCHANGED maxDepthSeen
    /\ UNCHANGED <<pc, operations, at, definitions, seenFragments, verdict>>

SelectInline ==
    /\ Selecting("inline")
    /\ Call(Taken, Selection.set, Top.depth, NoFragment)
    /\ UNCHANGED <<pc, operations, at, definitions, seenFragments, fieldCount,
                   introspectionUsed, verdict>>

\* Undefined fragments, and those that are being spread, are passed over.
MayEnter(name) == Defined(name) /\ name \notin seenFragments

\* Mutant: a spread that is passed over is not taken from the loop.
SelectSpreadStuck ==
    /\ Selecting("spread")
    /\ IF MayEnter(Selection.name)
       THEN /\ seenFragments' = seenFragments \cup {Selection.name}
            /\ Call(Taken, Operation.fragments[Selection.name], Top.depth, Selection.name)
       ELSE UNCHANGED <<stack, seenFragments, maxDepthSeen>>
    /\ UNCHANGED <<pc, operations, at, definitions, fieldCount, introspectionUsed, verdict>>

SelectSpread ==
    /\ Selecting("spread")
    /\ IF MayEnter(Selection.name)
       THEN /\ seenFragments' = seenFragments \cup {Selection.name}
            /\ Call(Taken, Operation.fragments[Selection.name], Top.depth, Selection.name)
       ELSE stack' = Taken /\ UNCHANGED <<seenFragments, maxDepthSeen>>
    /\ UNCHANGED <<pc, operations, at, definitions, fieldCount, introspectionUsed, verdict>>

\* Mutant: a fragment that was walked stays seen.
ReturnKeepsSeen ==
    /\ pc = "walk" /\ stack # <<>>
    /\ OverLimit \/ Top.rest = <<>>
    /\ stack' = SubSeq(stack, 1, Len(stack) - 1)
    /\ UNCHANGED <<pc, operations, at, definitions, seen, seenFragments, verdict>>

\* The call returns, at its last selection or with a limit passed.
Return ==
    /\ pc = "walk" /\ stack # <<>>
    /\ OverLimit \/ Top.rest = <<>>
    /\ stack' = SubSeq(stack, 1, Len(stack) - 1)
    /\ seenFragments' = seenFragments \ {Top.fragment}
    /\ UNCHANGED <<pc, operations, at, definitions, seen, verdict>>

-----------------------------------------------------------------------------

\* What analyzeQuery returns.
Result ==
    IF introspectionUsed /\ ~AllowIntrospection THEN "graphql-introspection"
    ELSE IF maxDepthSeen > MaxDepth THEN "graphql-depth"
    ELSE IF fieldCount > MaxComplexity THEN "graphql-complexity"
    ELSE "allow"

\* The loop ends at the first operation that is denied, or at the last.
Conclude ==
    /\ pc = "walk" /\ stack = <<>> /\ definitions = <<>>
    /\ IF Result = "allow" /\ at < Len(operations)
       THEN /\ at' = at + 1
            /\ pc' = "operation"
            /\ UNCHANGED verdict
       ELSE End(Result) /\ UNCHANGED at
    /\ UNCHANGED <<operations, definitions, stack, seenFragments, seen>>

Next ==
    \/ Malformed \/ Analyze \/ WalkDefinition
    \/ SelectField \/ SelectInline \/ SelectSpread \/ Return
    \/ Conclude

Spec == Init /\ [][Next]_vars /\ WF_vars(Next)

-----------------------------------------------------------------------------
(* Properties                                                               *)

Categories == {"graphql-malformed", "graphql-batching", "graphql-introspection",
               "graphql-depth", "graphql-complexity"}

\* Every variable has its type, and the walk looks at nothing more once a limit
\* is passed (index.js:43, 63): it stops one level, or one field, beyond it.
TypeOK ==
    /\ pc \in {"operation", "walk", "ended"}
    /\ verdict \in {"none", "allow"} \cup Categories
    /\ maxDepthSeen \in 0..(MaxDepth + 1)
    /\ fieldCount \in 0..(MaxComplexity + 1)
    /\ introspectionUsed \in BOOLEAN
    /\ \A i \in DOMAIN stack : stack[i].depth \in 1..(MaxDepth + 1)

\* seenFragments is the path of the walk (index.js:38, 55-59): the fragments
\* that are being spread now, each of them once, so that a cycle is cut where
\* it closes and a fragment spread in several places counts in each.
SeenIsPath ==
    /\ \A i, j \in DOMAIN stack :
           stack[i].fragment = stack[j].fragment /\ stack[i].fragment # NoFragment => i = j
    /\ seenFragments = {stack[i].fragment : i \in DOMAIN stack} \ {NoFragment}

\* index.js:5-18: a scan allows a batch if no operation in it is too deep, too
\* complex or introspective when its fragments are written out, and otherwise
\* names what is wrong with the first that is.
VerdictIsTrue ==
    pc = "ended" =>
        /\ Len(operations) > MaxBatchSize <=> verdict = "graphql-batching"
        /\ verdict = "allow" => \A i \in DOMAIN operations : Harmless(operations[i])
        /\ verdict \in Categories \ {"graphql-batching"} =>
               \A i \in 1..(at - 1) : Harmless(operations[i])
        /\ verdict = "graphql-introspection" => Introspective(Operation)
        /\ verdict = "graphql-depth" => TooDeep(Operation)
        /\ verdict = "graphql-complexity" => TooComplex(Operation)
        /\ verdict = "graphql-malformed" /\ operations # <<>> => Operation.form # "document"

\* Every scan ends, whatever the fragments spread (index.js:38).
ScanEnds == <>(pc = "ended")
=============================================================================
