SPECIFICATION StoresSpec
CONSTANTS
    Subjects <- MCSubjects
    Admitted <- MCAdmitted
    Rank <- MCRank
    Callers = {r1, r2}
    Adapters = {"memory", "drizzle", "mongo"}
    Limits = {1, 2}
    ScanLimits = {1, 3}
    Predicates <- MCPredicates
    MAX_PAGE_SIZE = 2
    MaxReplaces = 2
    MaxWrites = 1
    MaxFaults = 1
    MaxPages = 4
    None = None
    Backends = {"memory", "redis", "drizzle", "mongo"}
    Crowd = 3
    UserId <- MCUserId
    Type = {"user", "staff"}
    Login <- MCLogin
    LoginRank <- MCLoginRank
    SessionId = {"s1", "s2", "s3", "s4"}
    Hash = {"t1", "t2", "t3", "t4", "t5", "t6", "t7"}
    Kind = {"signInCode", "secondFactor", "resetPassword", "verifyEmail", "magicLink", "changeEmail", "stepUp"}
    Address = {"address", "other"}
    TypeRank <- MCTypeRank
    Clock = 50
    Failure = Failure
    Empty = Empty
INVARIANTS ReplacesBetween HoldersPaged CasesPass Linearises
CONSTRAINT PagesOrReplaces
CHECK_DEADLOCK FALSE
