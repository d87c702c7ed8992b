SPECIFICATION MCSpec
CONSTANTS
    Writes = {w1, w2}
    Slots = {s1, s2}
    Final = fin
    None = none
    Torn = torn
    Window = 1
    Faults = {"dump_slow"}
    Found <- MCFound
    Depts = {d1, d2, d3}
    NewDepts = {d1, d2}
    d1 = d1
    d2 = d2
    d3 = d3
    Default = d1
    It = d2
    hn = hn
    own = own
    Builtin = {hn, own}
    verdict = verdict
    swot = swot
    pestle = pestle
    Frameworks = {verdict, swot, pestle}
    Verdict = verdict
    Prompt <- MCPrompt
    Seeded = "v1"
    Provider <- MCProvider
    seed = seed
    u1 = u1
    u2 = u2
    SeedName = seed
    k1 = k1
    k2 = k2
    Cases = {k1, k2}
    Null = null
PROPERTIES
    InFlightDumpCovers
