CONSTANTS
    alice = alice
    bob = bob
    a1 = a1
    a2 = a2
    b1 = b1
    u1 = u1
    acme = acme
    ravi = ravi
    c1 = c1
    c2 = c2
    c3 = c3
    c4 = c4
    Subjects = {alice, bob}
    Items = {a1, a2, b1, u1}
    ItemSubject <- MCItemSubject
    Entities = {acme, ravi}
    Mentions <- MCMentions
    Untagged = {u1}
    Calls = {c1, c2, c3, c4}
    CallSubject <- MCCallSubject
    DryRuns = {c4}
    MaxFaults = 1
SPECIFICATION Spec
INVARIANTS TypeOK DoneMeansForgotten TextIsReachable DeletionsAddUp
PROPERTIES ImplementsPort
CHECK_DEADLOCK FALSE
