SPECIFICATION Spec
CONSTANTS
    h1 = h1
    h2 = h2
    c1 = c1
    a = a
    e1 = e1
    e2 = e2
    x = x
    None = None
    Unrestricted = Unrestricted
    Handlers = {h1, h2}
    Callers = {c1}
    Slugs = {a}
    Emails = {e1, e2}
    Models = {x}
    AskedModels = {Unrestricted}
    MemberLimits = {1}
    MaxKeys = 0
SYMMETRY MCSymmetry
INVARIANTS
    AllowanceRespected
