SPECIFICATION FairSpec
CONSTANTS
    c1 = c1
    c2 = c2
    a = a
    b = b
    Server = Server
    None = None
    Clients <- OneClient
    Paths <- TwoPaths
    Capacity = 1
    MaxGen = 1
    Hazards = {"initfail", "installfault", "crash", "signal", "timeout"}
PROPERTIES
    RequestsAnswered
    SignalStops
    ShutdownEnds
