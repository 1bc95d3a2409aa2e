CONSTANTS
    alice = alice
    bob = bob
    vector = vector
    graph = graph
    log = log
    v1 = v1
    w = w
    g = g
    Subjects = {alice}
    Records = {v1}
    SubjectOf <- MCSubjectOf
    LayerOf <- MCLayerOf
    Adapters = {vector, graph}
    Lineage = {vector}
    Deferred = {graph}
    Castless = {}
    Timed = {}
    MaySilence = {}
    EraseOps = {e1}
    PreviewOps = {}
    Quiesced = FALSE
    MaxFaults = 0
SPECIFICATION Spec
PROPERTIES PurgeForgetsOnlyErased
CHECK_DEADLOCK FALSE
