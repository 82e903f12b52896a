SPECIFICATION FairMenuSpec
CONSTANTS
    Client = {c1, c2}
    Editor = {e1, e2}
    NoCopy = NoCopy
    MaxChanges = 4
    c1 = c1
    c2 = c2
    e1 = e1
    e2 = e2
INVARIANTS
    NotModifiedIsFresh
PROPERTY ClientsCatchUp
