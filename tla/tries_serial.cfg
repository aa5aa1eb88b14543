\* One user who waits for each reply, with the cooldowns of the source.
SPECIFICATION Spec
CONSTANTS
    None = None
    right = right
    wrong = wrong
    words = words
    Users = {u1}
    Serial = {u1}
    Puzzles = {0}
    Levels = {"MEDIUM"}
    Answers <- MCAnswers
    RightAnswers <- MCRightAnswers
    NumericAnswers <- MCNumericAnswers
    Requests = {r1}
    MaxConns = 1
    AttemptsThreshold1 = 3
    CooldownDuration1 = 3
    AttemptsThreshold2 = 5
    CooldownDuration2 = 5
    Delays = {3}
    MaxTime = 12
    MaxSubmissions = 6
INVARIANTS
    NoSubmissionLost
PROPERTIES
    ImplementsLifecycle
    CooldownRespected
