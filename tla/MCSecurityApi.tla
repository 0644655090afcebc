--------------------------- MODULE MCSecurityApi ---------------------------
(* SecurityApi for TLC.  The rules are a protocol rule, a signature, the     *)
(* notice of another (severity 5), and the rule of CRS that adds scores up.  *)
EXTENDS SecurityApi, TLC

Rule(n, s) == [id |-> n, severity |-> s]

Rules == {Rule(920350, 4), Rule(941100, 2), Rule(942200, 5), Rule(949110, 0)}

MCMatches == {[rules |-> rules, interruption |-> 949110] : rules \in BoundedSeq(Rules, 2)}

\* A limit; the whole history; a limit below 0; and the latest of a category.
MCQueries == {[limit |-> 1, category |-> ""], [limit |-> 0, category |-> ""],
              [limit |-> -1, category |-> ""], [limit |-> 1, category |-> "xss"]}

Interchangeable == Permutations(Connections)
=============================================================================
