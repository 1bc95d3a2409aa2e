CONSTANTS
    alice = alice
    bob = bob
    Chat = Chat
    Comment = Comment
    ModelInference = ModelInference
    i1 = i1
    m1 = m1
    f1 = f1
    i2 = i2
    m2 = m2
    c1 = c1
    c2 = c2
    c3 = c3
    Subjects = {alice, bob}
    Rows = {i1, m1, f1, i2, m2}
    TableOf <- MCTableOf
    SubjectOf <- MCSubjectOf
    InferenceOf <- MCInferenceOf
    Seed = {i2, m2}
    TagTables <- MCTagTables
    InferenceTables = {Chat}
    CallSubject <- MCCallSubject
    Calls = {c1, c2, c3}
    DryRuns = {c3}
    MaxFaults = 1
SPECIFICATION FairSpec
INVARIANTS TypeOK OwnRowsOnly DoneMeansGone StrandedOnlyByRace CountsCoverRemovals
PROPERTIES RetryCompletes ImplementsPort
CHECK_DEADLOCK FALSE
