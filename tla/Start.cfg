\* Two invocations of init, every call of which may fail, be the last one before
\* a kill or a crash; three processes on one socket, three connections for two
\* places; two peppers.
SPECIFICATION StartSpec
CONSTANTS
    Inits = {i1, i2}
    Foreign = Foreign
    Free = Free
    Daemons = {d1, d2, d3}
    Conns = {c1, c2, c3}
    MaxConnections = 2
    Modes = {"disabled", "best-effort", "required"}
    Vacant = Vacant
    Alien = Alien
    Orphan = Orphan
    MaxPeppers = 2
SYMMETRY Symmetry
INVARIANTS
    ConfigIsUsable
    AllOrNothing
    ServingIsReachable
    ConnectionsCapped
    InstallSuffices
PROPERTIES
    OthersPreserved
CHECK_DEADLOCK FALSE
