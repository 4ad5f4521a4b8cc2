SPECIFICATION MemorySpec
CONSTANTS
    Slots = {s1, s2}
    Values = {v1, v2}
    Sightings <- WordAndGuess
    Paddings = {TRUE, FALSE}
    Learners = {k1, k2}
    MaxFacts = 3
    MaxNow = 1
SYMMETRY Symmetry
INVARIANTS
    MemoryTypeOK
    
PROPERTIES
    RevocationReachesSubtree
    SweepSparesRelied
    
