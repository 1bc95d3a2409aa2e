CONSTANTS
    alice = alice
    bob = bob
    vector = vector
    graph = graph
    log = log
    v1 = v1
    w = w
    g = g
    Subjects = {alice, bob}
    Records = {v1, w, g}
    SubjectOf <- MCSubjectOf
    LayerOf <- MCLayerOf
    Adapters = {vector, graph}
    Lineage = {vector}
    Deferred = {graph}
    Castless = {}
    Timed = {}
    MaySilence = {}
    EraseOps = {e1, e2}
    PreviewOps = {}
    Quiesced = TRUE
    MaxFaults = 3
SYMMETRY MCSymmetry
SPECIFICATION Spec
INVARIANTS TypeOK ReceiptAttests NoOrphan RowsPurgedOnce
PROPERTIES PurgeForgetsOnlyErased ImplementsContract LayersKeepPort
CHECK_DEADLOCK FALSE
