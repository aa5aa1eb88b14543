\* Two goroutines serving one user, nothing ordered.
SPECIFICATION Spec
CONSTANTS
    None = None
    right = right
    wrong = wrong
    words = words
    Users = {u1}
    Serial = {}
    Puzzles = {0}
    Levels = {"EASY"}
    Answers <- MCAnswers
    RightAnswers <- MCRightAnswers
    NumericAnswers <- MCNumericAnswers
    Requests = {r1, r2}
    MaxConns = 2
    AttemptsThreshold1 = 3
    CooldownDuration1 = 3
    AttemptsThreshold2 = 5
    CooldownDuration2 = 5
    Delays = {11}
    MaxTime = 11
    MaxSubmissions = 2
INVARIANTS
    TypeOK
    RowsCoherent
    NoPhantomSolve
    NeverOvercharged
PROPERTIES
    SecondStepFollowsFirst
    StartNeverMoves
SYMMETRY MCSymmetry
