\* One caller, the prober and two helpers; two documents; a batch of three
\* items with three attempts and two failures; a reader of two documents in two bases, one of
\* which is indexed again or deleted; three facts of two documents with any versions;
\* windows, graphs and schemas of a few shapes.
CONSTANTS
    caller = caller
    prober = prober
    h1 = h1
    h2 = h2
    Free = Free
    d1 = d1
    d2 = d2
    f1 = f1
    f2 = f2
    c1 = c1
    c2 = c2
    t1 = t1
    Nothing = Nothing
    Nobody = Nobody
    Nil = Nil
    k1 = k1
    k2 = k2
SPECIFICATION Spec
INVARIANTS
    TypesOK
    
    MemoryIsSound
    
    ReadersSeeOneView
    WindowsAreSound
    AnswersAreSound
    SchemaIsWhole
PROPERTIES
    AllReturn
\* Callers may stop calling, everything may be compiled and deleted.
CHECK_DEADLOCK FALSE
