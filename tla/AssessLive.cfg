SPECIFICATION FairSpec
CONSTANTS
    Topics = {t1, t2}
    Jobs = {j1}
    Singles = {s1}
    Frameworks = {verdict, swot}
    Lenient = {verdict}
    Models = {m1}
    MaxLimit = 2
    Faults = {"db_fails", "deletes"}
CHECK_DEADLOCK FALSE
INVARIANTS
    CompletedCovers
PROPERTIES
    JobsEnd
