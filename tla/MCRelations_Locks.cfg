SPECIFICATION StoresSpec
CONSTANTS
    Subjects <- MCLocked
    Admitted <- MCLocked
    Rank <- MCRank
    Callers = {r1, r2}
    Adapters = {"drizzle"}
    Limits = {}
    ScanLimits = {}
    Predicates = {}
    MAX_PAGE_SIZE = 2
    MaxReplaces = 2
    MaxWrites = 1
    MaxFaults = 0
    MaxPages = 0
    None = None
    Backends = {}
    Crowd = 3
    UserId <- MCUserId
    Type = {"user", "staff"}
    Login <- MCLogin
    LoginRank <- MCLoginRank
    SessionId = {"s1", "s2", "s3", "s4"}
    Hash = {"t1", "t2", "t3", "t4", "t5", "t6", "t7"}
    Kind = {"signInCode", "secondFactor", "resetPassword", "verifyEmail", "magicLink", "changeEmail", "stepUp"}
    Address = {"address", "other"}
    TypeRank <- MCTypeRank
    Clock = 50
    Failure = Failure
    Empty = Empty
INVARIANT NeverDeadlock
CHECK_DEADLOCK FALSE
