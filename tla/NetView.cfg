SPECIFICATION Spec
CONSTANTS
    seed = seed
    u1 = u1
    u2 = u2
    Users = {seed, u1, u2}
    Seed = seed
    d1 = d1
    d2 = d2
    d3 = d3
    Depts = {d1, d2, d3}
    Default = d1
    Slug <- MCSlug
    verdict = verdict
    swot = swot
    Frameworks = {verdict, swot}
    Verdict = verdict
    None = none
    Staff = {seed, u1}
    Founded = {d1, d2}
    Clients = {c1, c2}
    Given = {"analyst", "dept_lead"}
    Scopes = {{"topics", "netview"}}
    Pats = {p1}
    Global = global
    Calls = {call1}
    hn = hn
    own = own
    HackerNews = hn
    Sources = {hn, own}
    Builtin = {hn}
    Disabled = {}
    Editors = {e1, e2}
    Authors = {a1, a2}
CHECK_DEADLOCK FALSE
INVARIANTS
    LastWriteWins
