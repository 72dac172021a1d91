SPECIFICATION Spec
CONSTANTS
    Txs = {t1, t2, t3}
    Seed = seed
    Note = note
    Collection = collection
    Attempts = 2
    i1 = i1
    i2 = i2
    n1 = n1
    n2 = n2
    Images = {i1, i2}
    References = {n1, n2}
    Requests <- MCRequests
    Seeds <- MCSeeds
SYMMETRY Symmetry
INVARIANTS
    RowsAreOfWholeCalls
    UpsertsGoThrough
    TagsLinked
