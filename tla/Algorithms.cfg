SPECIFICATION Spec
CONSTANTS
    Bits = 4
    MaxHosts = 8
    IntMax = 99
    RangeMaxCount = 3
    MaxOverlaps = 2
    CidrInputs <- Addresses
    OrderInputs <- OrderTriples
    NewerInputs <- PackageUpgrades
    VerifyInputs <- VerifyQuestions
    TlsInputs <- TlsAudits
    ByteRangeInputs <- RangeRequests
INVARIANTS
    SyntaxReadsBack
    PluginsMeanWhatTheySay
    VersionsInOrder
    CidrIsTheBlock
    MessagesReadBack
    TerrapinVerdict
    TlsVerdict
    WebTextReadsBack
    RangesAreTheBytes
    RecordsReadBack
CHECK_DEADLOCK FALSE
