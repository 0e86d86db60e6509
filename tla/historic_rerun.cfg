\* Crashes, interruptions and reruns; the database and the node answer.
CONSTANTS
    t1 = t1  t2 = t2  t3 = t3  t4 = t4  t5 = t5  a1 = a1  a2 = a2  v1 = v1  v2 = v2
    NoId = NoId
    MaxHeight = 4
    MaxBlockChunkSize = 2
    Modulus = 16
    MaxSliceLen = 8
    Hashes <- MCFewHashes
    HeightOf <- MCFewHeightOf
    Defect <- MCFewSound
    MsgTables <- MCMsgTables
    TablesOf <- MCFewTablesOf
    Addresses = {a1, a2}
    AddrsOf <- MCFewAddrsOf
    TxIds = {1, 2, 3}
    Validators = {v1, v2}
    Signers <- MCSigners
    Proposer <- MCProposer
    BadHashes = {}
    BadHeights = {}
    BadCommits = {}
    FaultKinds = {"crash", "signal"}
    MaxFaults = 2
    FromHeight = 2
    ToHeight = 4
SPECIFICATION Spec
INVARIANT
    RerunRepairsBlocksAndSignings
PROPERTY
    UnresolvedOnlyAtChunkEnd
