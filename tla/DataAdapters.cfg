SPECIFICATION Spec
CONSTANTS
    none = none
    None = none
    Setups <- MCSetups
    MaxFaults = 2
    Registered = {"direct_provisioning", "1", "sql-adapter", "local-file-adapter", "blob-storage-adapter", "kafka", "component-adapter"}
    IntegerKeys = {"1", "2"}
    Shortcuts <- MCShortcuts
    BatchSize = 2
    Databases <- MCDatabases
    Numerals = {"7", "8"}
    InferMetrics = FALSE
    HierarchyNodes <- MCHierarchy
    DefinesKeys <- MCDefines
    Lower <- MCLower
    Ends <- MCEnds
    Rank <- MCRank
    ListLimit = 10
    BucketCreation = FALSE
    HasTensorflow = TRUE
    LocalDirs = {"d"}
    Settings <- MCSettings
    Handlers <- MCHandlers
    GenericSinks = {"any"}
    AdapterUrls <- MCUrls
    OwnAdapters = {}
    KafkaConfigs <- MCKafka
    ExternalTypes <- Types
    Components <- MCComponents
    AllowDraft = FALSE
    SourceCategories = {"in"}
    SinkCategories = {"out"}
INVARIANTS
    OkMeansDelivered
    WrittenObjectsCanBeLoaded
    RepeatingDoesNotDuplicate
    ResolvedWiringsAreTheirOwn
    OfferedAreFound
PROPERTIES
    ObjectsAreNeverOverwritten
    EveryExecutionIsAnswered
CHECK_DEADLOCK FALSE
