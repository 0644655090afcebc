--------------------------- MODULE MCGraphqlGuard ---------------------------
(***************************************************************************)
(* GraphqlGuard for TLC, with the tree that the fragments of a query       *)
(* expand to by recursion, which the places of a query must agree with.    *)
(***************************************************************************)
EXTENDS GraphqlGuard, SequencesExt

Field(set) == [kind |-> "field", name |-> "field", set |-> set]
Inline(set) == [kind |-> "inline", name |-> "", set |-> set]
Spread(name) == [kind |-> "spread", name |-> name, set |-> <<>>]
Nothing == Spread("")
Leaf == Field(<<>>)
Schema == [kind |-> "field", name |-> "__schema", set |-> <<>>]

\* One selection of some, or two with the second of others.
OneOrTwo(first, second) == {<<a>> : a \in first} \cup {<<a, b>> : a \in first, b \in second}

\* H is never defined; F and G may spread themselves and each other.
QuerySets ==
    OneOrTwo({Leaf, Spread("F"), Spread("G"), Field(<<Leaf, Spread("F")>>)},
             {Leaf, Schema, Spread("F"), Field(<<Spread("G")>>)})
FragmentSets ==
    OneOrTwo({Leaf, Spread("F"), Spread("G"), Field(<<Spread("G")>>), Inline(<<Spread("F")>>)},
             {Leaf, Spread("G"), Spread("H"), Field(<<Schema>>)})

Document(defs, f, g) ==
    [form |-> "document", definitions |-> defs,
     fragments |-> [n \in {"F", "G"} |-> IF n = "F" THEN f ELSE g]]
Missing == [form |-> "missing"]
Unparsable == [form |-> "unparsable"]

Batch(operationsOf) == [form |-> "operations", operations |-> operationsOf]

Queries == {Document(<<q>>, f, g) : q \in QuerySets, f \in FragmentSets, g \in FragmentSets}

\* Documents of one and two definitions, for the batches.
Shallow == Document(<<<<Leaf>>>>, <<Leaf>>, <<Leaf>>)
Wide == Document(<<<<Leaf, Leaf>>, <<Leaf, Leaf>>>>, <<Leaf>>, <<Leaf>>)
Deep == Document(<<<<Spread("F")>>, <<Schema>>>>, <<Field(<<Field(<<Field(<<Leaf>>)>>)>>)>>, <<Leaf>>)

MCPayloads ==
    {[form |-> "absent"], [form |-> "malformed"]}
    \cup {Batch(<<q>>) : q \in Queries}
    \cup {Batch(b) : b \in BoundedSeq({Missing, Unparsable, Shallow, Wide, Deep}, MaxBatchSize + 1)}

-----------------------------------------------------------------------------

\* The set with every spread replaced by what it stands for: nothing where the
\* fragment is undefined or within itself; on holds the spreads around the set.
RECURSIVE Expand(_, _, _)
Expand(fragments, set, on) ==
    LET Of(s) ==
            IF s.kind = "field" THEN <<[s EXCEPT !.set = Expand(fragments, @, on)]>>
            ELSE IF s.kind = "inline" THEN Expand(fragments, s.set, on)
            ELSE IF s.name \in on \/ s.name \notin DOMAIN fragments THEN <<Nothing>>
            ELSE Expand(fragments, fragments[s.name], on \cup {s.name})
    IN  FlattenSeq([i \in DOMAIN set |-> Of(set[i])])

Sum(numbers) == FoldLeft(LAMBDA m, n : m + n, 0, numbers)
Greatest(numbers) == FoldLeft(LAMBDA m, n : IF m > n THEN m ELSE n, 0, numbers)

\* The levels, the fields and the introspection of an expanded set.
RECURSIVE Levels(_)
Levels(set) ==
    IF set = <<>> THEN 0 ELSE 1 + Greatest([i \in DOMAIN set |-> Levels(set[i].set)])

RECURSIVE FieldsOf(_)
FieldsOf(set) ==
    Sum([i \in DOMAIN set |-> (IF set[i].kind = "field" THEN 1 ELSE 0) + FieldsOf(set[i].set)])

RECURSIVE Introspects(_)
Introspects(set) ==
    \E i \in DOMAIN set : set[i].name = "__schema" \/ Introspects(set[i].set)

Expanded(op) ==
    [i \in DOMAIN op.definitions |-> Expand(op.fragments, op.definitions[i], {})]

\* The places of a query are the sets of that tree, with its levels, its fields
\* and its introspection.
ASSUME PlacesAreTheTree ==
    \A op \in Queries \cup {Shallow, Wide, Deep} :
        LET tree == Expanded(op)
        IN  /\ {q.depth : q \in Places(op)} = 1..Greatest([i \in DOMAIN tree |-> Levels(tree[i])])
            /\ Sum([i \in DOMAIN tree |-> FieldsOf(tree[i])]) = Cardinality(Fields(op))
            /\ (\E i \in DOMAIN tree : Introspects(tree[i])) <=> Introspective(op)
=============================================================================
