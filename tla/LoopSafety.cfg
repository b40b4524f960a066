SPECIFICATION Spec
CONSTANTS
    c1 = c1
    c2 = c2
    a = a
    b = b
    Server = Server
    None = None
    Clients <- TwoClients
    Paths <- OnePath
    Capacity = 1
    MaxGen = 2
    Hazards = {"initfail", "installfault", "crash", "signal", "timeout"}
INVARIANTS
    LockCoversDatabase
    NothingLeaks
    SignalSaves
PROPERTIES
    BoundToItsLifetime
    QuietAfterCrash
    CloseMeansClosed
