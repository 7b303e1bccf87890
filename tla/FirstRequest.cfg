CONSTANTS
    Worker = {w1, w2, w3}
SPECIFICATION FairSpec
INVARIANTS
    SeededOnce
    PartialMeansGivenUp
PROPERTIES
    EventuallyComplete
