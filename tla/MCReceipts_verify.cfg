CONSTANTS
    alice = alice
    bob = bob
    k1 = k1
    k2 = k2
    utc = utc
    ist = ist
    v0 = v0
    v1 = v1
    h1 = h1
    h2 = h2
    Garbage = Garbage
    Subjects = {alice, bob}
    Layers = {"graph"}
    Counts = {0, 1}
    Terms = {v0, v1}
    OurTerms = v0
    Instants = {1, 2}
    Zones = {utc, ist}
    UTC = utc
    Hints = {h1, h2}
    DefaultHint = h1
    Keys = {k1, k2}
    MaxReceipts = 2
    MaxChanges = 3
SYMMETRY MCSymmetry
SPECIFICATION Spec
INVARIANTS TypeOK OnlyIssuedVerifies IssuedVerifies PairMatches
CHECK_DEADLOCK FALSE
