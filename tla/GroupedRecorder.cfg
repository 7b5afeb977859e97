\* Two reconcile() calls that may overlap, and spawns that may be rejected.
CONSTANTS
    p1 = p1
    p2 = p2
    k1 = k1
    k2 = k2
    Channels = 1
    DeviceKeys = {k1, k2}
    Reconciles = {p1, p2}
    Runtimes = 2
    SpawnsFail = TRUE
SPECIFICATION Spec
SYMMETRY Symmetry
INVARIANTS
    TypeOK
    OneDriver
    RegistrationWithdrawn
    NothingOlderThanBurst
PROPERTIES
    StaysStopped
