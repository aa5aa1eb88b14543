\* Two goroutines in contention for the rows of one user, with fairness.
SPECIFICATION FairSpec
CONSTANTS
    None = None
    right = right
    wrong = wrong
    words = words
    Users = {u1}
    Serial = {}
    Puzzles = {0}
    Levels = {"EASY"}
    Answers <- MCAnswers
    RightAnswers <- MCRightAnswers
    NumericAnswers <- MCNumericAnswers
    Requests = {r1, r2}
    MaxConns = 2
    AttemptsThreshold1 = 3
    CooldownDuration1 = 3
    AttemptsThreshold2 = 5
    CooldownDuration2 = 5
    Delays = {}
    MaxTime = 0
    MaxSubmissions = 1
PROPERTY
    EveryRequestAnswered
