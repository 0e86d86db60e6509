\* Completion under fairness, across one failure of any kind, of a range with
\* transactions, two headers and a commit the indexer cannot digest.
CONSTANTS
    t1 = t1  t2 = t2  t3 = t3  t4 = t4  t5 = t5  a1 = a1  a2 = a2  v1 = v1  v2 = v2
    NoId = NoId
    MaxHeight = 5
    MaxBlockChunkSize = 2
    Modulus = 16
    MaxSliceLen = 8
    Hashes <- MCAllHashes
    HeightOf <- MCAllHeightOf
    Defect <- MCUndigestible
    MsgTables <- MCMsgTables
    TablesOf <- MCAllTablesOf
    Addresses = {a1, a2}
    AddrsOf <- MCAllAddrsOf
    TxIds = {1, 2, 3, 4}
    Validators = {v1, v2}
    Signers <- MCSigners
    Proposer <- MCProposer
    BadHashes = {4}
    BadHeights = {5}
    BadCommits = {3}
    FaultKinds = {"rpc", "db", "crash"}
    MaxFaults = 1
    FromHeight = 2
    ToHeight = 5
SPECIFICATION FairSpec
INVARIANT
    DefectsAreContained
PROPERTY
    Completes
