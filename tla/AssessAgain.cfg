SPECIFICATION Spec
CONSTANTS
    Topics = {t1}
    Jobs = {}
    Singles = {s1, s2}
    Frameworks = {verdict}
    Lenient = {verdict}
    Models = {m1, m2}
    MaxLimit = 1
    Faults = {}
CHECK_DEADLOCK FALSE
PROPERTIES
    ReassessStores
