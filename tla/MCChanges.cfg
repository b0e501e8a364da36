CONSTANTS
    NoDoc = NoDoc
    NoId = NoId
    Collection = {c1, c2}
    Id = {d1, d2}
    Value = {v1, v2}
    Subscriber = {s1}
    MaxOps = 2
    MaxCommits = 2
SPECIFICATION Spec
SYMMETRY Alike
INVARIANTS
    NetEffect
    CopiesCurrent
