\* The process dies, also of a transaction that does not decode, or is
\* interrupted; node and database answer.
CONSTANTS
    t1 = t1  t2 = t2  a1 = a1  a2 = a2  v1 = v1  v2 = v2
    NoId = NoId
    MaxHeight = 3
    MaxBlockChunkSize = 2
    Modulus = 16
    MaxSliceLen = 8
    Hashes <- MCHashes
    HeightOf <- MCHeightOf
    Defect <- MCPoison
    MsgTables <- MCMsgTables
    TablesOf <- MCTablesOf
    Addresses = {a1, a2}
    AddrsOf <- MCAddrsOf
    TxIds = {1, 2}
    Validators = {v1, v2}
    Signers <- MCSigners
    Proposer <- MCProposer
    BadHashes = {}
    BadHeights = {}
    BadCommits = {}
    FaultKinds = {"crash", "signal"}
    MaxFaults = 2
    SkipInitialDbCheck = FALSE
    MaxLag = 1
SPECIFICATION Spec
INVARIANTS
    BlocksAreContiguous
    SavedHeightIsIndexed
