SPECIFICATION FairSpec
CONSTANTS
    Topics = {t1}
    Jobs = {j1}
    Singles = {}
    Frameworks = {verdict}
    Lenient = {verdict}
    Models = {m1}
    MaxLimit = 1
    Faults = {"crash"}
CHECK_DEADLOCK FALSE
PROPERTIES
    JobsEnd
