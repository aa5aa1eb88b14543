\* One goroutine is enough to abandon a transaction.
SPECIFICATION FairSpec
CONSTANTS
    None = None
    right = right
    wrong = wrong
    words = words
    Users = {u1}
    Serial = {u1}
    Puzzles = {0}
    Levels = {"EASY"}
    Answers <- MCAnswers
    RightAnswers <- MCRightAnswers
    NumericAnswers <- MCNumericAnswers
    Requests = {r1}
    MaxConns = 2
    AttemptsThreshold1 = 3
    CooldownDuration1 = 3
    AttemptsThreshold2 = 5
    CooldownDuration2 = 5
    Delays = {}
    MaxTime = 0
    MaxSubmissions = 2
INVARIANT
    NoTransactionAbandoned
