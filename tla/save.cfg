SPECIFICATION Spec
CONSTANTS
    p1 = p1
    s1 = s1
    s2 = s2
    t1 = t1
    t2 = t2
    v1 = v1
    v2 = v2
    Previews = {p1}
    Saves = {s1, s2}
    Texts = {t1, t2}
    Versions = {v1, v2}
    MaxEvents = 2
    Partial = Partial
    None = None
SYMMETRY Symmetry
INVARIANTS
    AllOrNothing
    WholeFiles
PROPERTIES
    CopyKept
    PreviousKept
    
CHECK_DEADLOCK FALSE
