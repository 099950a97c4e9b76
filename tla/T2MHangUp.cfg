SPECIFICATION Spec
CONSTANTS
    None = None
    h1 = h1
    c1 = c1
    Threads = {h1}
    Clients = {c1}
    Posted = {"fits"}
    Sent = {"fits"}
    Failures = {"hangup"}
    FdLimit = 4
INVARIANTS StaysUp
