SPECIFICATION Spec
\* a call returns
CHECK_DEADLOCK FALSE
CONSTANTS
    Requests <- MCRequests
    Capability <- MCCapability
    MaxEntries <- MCMaxEntries
    MaxWasmBytes <- MCMaxWasmBytes
    MaxInstructions <- MCMaxInstructions
    MaxCalls <- MCMaxCalls
    KnownRule <- MCKnownRule
    Family <- MCFamily
    MaxFunctions <- MCMaxFunctions
    MaxPerFunction <- MCMaxPerFunction
    Axis <- MCAxis
    BadName <- MCBadName
    MaxMembers <- MCMaxMembers
    MaxMemberBytes <- MCMaxMemberBytes
    MaxTotalBytes <- MCMaxTotalBytes
    Escalating <- MCEscalating
    MaxDepth <- MCMaxDepth
    Alphabet <- MCAlphabet
    TooLong <- MCTooLong
    MaxXdrDepth <- MCMaxXdrDepth
    EventName <- MCEventName
    KindOrder <- MCKindOrder
    Category <- MCCategory
    RuleId <- MCRuleId
    CategoryAxes <- MCCategoryAxes
    SchemaKeys <- MCSchemaKeys
    FileKeys <- MCFileKeys
    MaxRules <- MCMaxRules
    MaxTargetless <- MCMaxTargetless
    BadId <- MCBadId
    Content <- MCContent
    ByteSize <- MCByteSize
    Wasm <- MCWasm
    OciManifest <- MCOciManifest
    AcceptedTypes <- MCAcceptedTypes
    Word <- MCWord
INVARIANTS
    QuietMeansDeployable
    SafeMeansStorageKept
    VerdictExplained
    EvidenceVouches
    SettingsTell
    BuildsUnderstood
    InputsPinned
