CONSTANTS
    Keys = {q1, q2}
    Data = {m, n}
    Workers = {w1, w2}
SPECIFICATION FairSpec
INVARIANTS NeverStranded Exclusive
PROPERTIES ImplementsBuckets WorkTaken
