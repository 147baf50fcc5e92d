CONSTANTS
    None = None
    Owners = {o1, o2}
    Principals = {p1, p2}
    Measurements = {m1, m2}
    Chips = {c1, c2}
    Models = {llm}
    LIVENESS_TIMEOUT = 1
    MAX_NODES = 2
SPECIFICATION FairSpec
INVARIANTS TypeOK RegistryIsWhole PrincipalIndexIsExact
PROPERTIES NoTakeover RevokedNodesStop
