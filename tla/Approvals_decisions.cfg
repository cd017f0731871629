SPECIFICATION FairSpec
CONSTANTS
    Strategies = {s1}
    Cards = {c1}
    Operators = {o1, o2}
    Askers = {a1}
    NoStrategy = NoStrategy
    NoCard = NoCard
    MaxMoves = 2
    MaxCrashes = 2
INVARIANTS TypeOK ApplyExclusive DeniedNotApplied
PROPERTIES CardReturns
CHECK_DEADLOCK FALSE
