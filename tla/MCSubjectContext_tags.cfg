CONSTANTS
    main = main
    t1 = t1
    t2 = t2
    g1 = g1
    g2 = g2
    alice = alice
    bob = bob
    acme = acme
    None = None
    Tasks = {main, t1}
    Main = main
    Gens = {g1, g2}
    Subjects = {alice, bob}
    Tenants = {acme}
    Bindings <- MCBindings
    MaxOpen = 3
SPECIFICATION Spec
INVARIANTS TypeOK InnermostBlockRules
CHECK_DEADLOCK FALSE
