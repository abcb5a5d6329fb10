SPECIFICATION Serve
CONSTANTS
    Declarations <- MCDeclarations
    Ids <- MCIds
    Stray <- MCStray
    Fields <- MCFields
    Depths = {1, 4}
    Askers <- MCAskers
    MaxTuples = 3
    Apps <- MCApps
    None = None
    MaxNow = 2
    MaxChanges = 1
    MaxFaults = 1
    MaxEvents = 2
INVARIANTS CanFollowsTheModel ListAgreesWithCan AnswersWereTrue HiddenStaysHidden OwnCookieWins WiredAtStart
CHECK_DEADLOCK FALSE
