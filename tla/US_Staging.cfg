\* Two uploads; two operations on one page; a directory with a file in it and
\* two changes, failures or crashes; two clients that submit, retry and sign
\* commands; two clients at the rows of two bases and two groups; two
\* processes on one directory; files and texts of a few shapes; searches over
\* three chunks; questions about three memories; migrations between three
\* caches beside downloads and removals of one model.
SPECIFICATION ContentSpec
CONSTANTS
    Upload <- Uploads
    Put = {p1, p2}
    Content <- Contents
    None = None
    Size <- Sizes
    Accepts <- AcceptsOf
    Reservation <- Reserves
    TempLimit = 3
    UploadLimit = 2
    MaxClosing = 1
    MaxFaults = 1
    MaxStarts = 2
    imp = imp
    refresh = refresh
    b1 = b1
    b2 = b2
    Nil = Nil
    text1 = text1
    text2 = text2
    aBase = aBase
    aDoc = aDoc
    bDoc = bDoc
    aKey = aKey
    Nothing = Nothing
    NoPolicy = NoPolicy
    client1 = client1
    client2 = client2
    signer1 = signer1
    signer2 = signer2
    credential1 = credential1
    bBase = bBase
    group1 = group1
    group2 = group2
    name1 = name1
    secret1 = secret1
    Ungrouped = Ungrouped
    Keyless = Keyless
    Unset = Unset
    process1 = process1
    process2 = process2
    Nobody = Nobody
    m1 = m1
    r1 = r1
    r2 = r2
    r3 = r3
    n1 = n1
    n2 = n2
    j1 = j1
    j2 = j2
INVARIANTS InputsTypeOK   CatalogIsKept DirectoryIsOwned TextIsSound
           AnswersAreRanked ContextIsSound 
PROPERTIES RecoveryIsExact 
SYMMETRY ContentSymmetry
VIEW ContentView
CHECK_DEADLOCK FALSE
