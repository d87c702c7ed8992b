SPECIFICATION Spec
CONSTANTS
    Runs = {r1, r2}
    s1 = s1
    s2 = s2
    Sources = {s1, s2}
    a = a
    b = b
    c = c
    Titles = {a, b, c}
    Similar <- MCSimilar
    Feeds <- MCFeeds
    CandidateLimit = 10
    Settings <- MCOverlap
CHECK_DEADLOCK FALSE
INVARIANTS
    NoDuplicateTopics
