CONSTANTS
    p1 = p1
    p2 = p2
    k1 = k1
    k2 = k2
    Channels = 1
    DeviceKeys = {k1}
    Reconciles = {p1, p2}
    Runtimes = 2
    SpawnsFail = FALSE
SPECIFICATION Spec
INVARIANTS
    OneGroupedWorker
