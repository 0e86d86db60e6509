\* One failure of any kind beside the requests of one client.
CONSTANTS
    t1 = t1  t2 = t2  a1 = a1  a2 = a2  v1 = v1  v2 = v2
    NoId = NoId
    MaxHeight = 2
    MaxBlockChunkSize = 1
    Modulus = 16
    MaxSliceLen = 8
    Hashes <- MCHashes
    HeightOf <- MCHeightOf
    Defect <- MCSound
    MsgTables <- MCMsgTables
    TablesOf <- MCTablesOf
    MsgsOf <- MCMsgsOf
    SendTable = "bank_msg_send"
    Addresses = {a1, a2}
    AddrsOf <- MCAddrsOf
    TxIds = {1, 2}
    Validators = {v1, v2}
    Signers <- MCSigners
    Proposer <- MCProposer
    BadHashes = {}
    BadHeights = {}
    BadCommits = {}
    FaultKinds = {"rpc", "db", "crash"}
    MaxFaults = 1
    SkipInitialDbCheck = FALSE
    MaxLag = 0
    Spans <- MCSpans
SPECIFICATION ApiSpec
INVARIANTS
    AnswersAreTrue
    SettledIsServed
PROPERTY
    NothingIsTakenBack
