SPECIFICATION FairSpec
CONSTANTS
    None = None
    h1 = h1
    c1 = c1
    Threads = {h1}
    Clients = {c1}
    Posted = {"bad", "fits", "huge"}
    Sent = {"fits", "huge"}
    Failures = {"stop", "kill", "hangup"}
    FdLimit = 2
INVARIANTS GoodPromptsSucceed
PROPERTIES Answered
