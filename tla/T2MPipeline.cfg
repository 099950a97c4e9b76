SPECIFICATION Spec
CONSTANTS
    None = None
    h1 = h1
    h2 = h2
    c1 = c1
    Threads = {h1, h2}
    Clients = {c1}
    Posted = {"fits"}
    Sent = {"empty", "fits", "long"}
    Failures = {"decode", "ort", "disk", "convert", "stop", "hangup"}
    FdLimit = 3
INVARIANTS TypeOK OneAtATime NoLiveLeftover
PROPERTIES ImplementsService
CHECK_DEADLOCK FALSE
