SPECIFICATION FairSpec
CONSTANTS
    None = None
    h1 = h1
    Threads = {h1}
    Clients = {}
    Posted = {"fits", "long"}
    Sent = {}
    Failures = {}
    FdLimit = 3
PROPERTIES Answered
CHECK_DEADLOCK FALSE
