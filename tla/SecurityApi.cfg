SPECIFICATION Spec
CONSTANTS
    Connections = {c1, c2}
    MaxEntries = 2
    Queries <- MCQueries
    Matches <- MCMatches
    MaxDecisions = 3
SYMMETRY Interchangeable
CHECK_DEADLOCK FALSE
INVARIANTS
    TypeOK
    FeedIsWhole
    NothingBetween
    AttacksAreNamed
PROPERTIES
    AnswersAreLatest
