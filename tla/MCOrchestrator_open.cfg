CONSTANTS
    alice = alice
    bob = bob
    vector = vector
    graph = graph
    log = log
    v1 = v1
    w = w
    g = g
    Subjects = {alice}
    Records = {v1, g}
    SubjectOf <- MCSubjectOf
    LayerOf <- MCLayerOf
    Adapters = {vector, graph}
    Lineage = {vector}
    Deferred = {graph}
    Castless = {v1}
    Timed = {}
    MaySilence = {}
    EraseOps = {e1}
    PreviewOps = {p1}
    Quiesced = FALSE
    MaxFaults = 1
SPECIFICATION FairSpec
INVARIANTS ReceiptClearsStores
PROPERTIES EveryCallEnds LayersKeepPort
CHECK_DEADLOCK FALSE
