CONSTANTS
    alice = alice
    bob = bob
    vector = vector
    graph = graph
    log = log
    v1 = v1
    w = w
    g = g
    Subjects = {alice}
    Records = {v1}
    SubjectOf <- MCSubjectOf
    LayerOf <- MCLayerOf
    Adapters = {vector, log}
    Lineage = {vector}
    Deferred = {}
    Castless = {v1}
    Timed = {log}
    MaySilence = {vector, log, "ledger"}
    EraseOps = {e1, e2}
    PreviewOps = {}
    Quiesced = FALSE
    MaxFaults = 1
SPECIFICATION FairSpec
PROPERTIES EveryCallEnds RequestHonoured
CHECK_DEADLOCK FALSE
