SPECIFICATION Spec
CONSTANTS
    Op = {o1, o2}
    Doc = {dir, doc}
    Parent <- TheParent
    Lineage <- TheLineage
    NoDoc = NoDoc
    NoOp = NoOp
    Commands <- TwoReindexes
    Existing <- TheExisting
    Content = {v1, v2}
    NoFile = NoFile
    SourceOf <- TheSources
    Batches = 2
    Embeds = FALSE
    MaxGen = 4
    MaxEvents = 0
    o1 = o1
    o2 = o2
    dir = dir
    doc = doc
    v1 = v1
    v2 = v2
INVARIANT PublishedIsWhole
CHECK_DEADLOCK FALSE
