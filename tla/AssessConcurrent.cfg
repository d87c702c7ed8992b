SPECIFICATION Spec
CONSTANTS
    Topics = {t1, t2}
    Jobs = {j1, j2}
    Singles = {}
    Frameworks = {swot}
    Lenient = {}
    Models = {m1}
    MaxLimit = 2
    Faults = {"crash", "db_fails", "db_down", "deletes"}
SYMMETRY Symmetry
CHECK_DEADLOCK FALSE
INVARIANTS
    TypeOK
    CompletedCovers
    CountersMatchResults
PROPERTIES
    ImplementsBoard
