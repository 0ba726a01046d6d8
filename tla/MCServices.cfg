SPECIFICATION Spec
CONSTANTS
    ServicePart = {"multipart", "buckets", "listing", "body", "capability", "rate", "snapshots", "cache", "tenancy", "config", "packs", "backfill", "presign"}
    MpClient = {c1, c2}
    Part = {1, 2}
    Bytes = {1, 2}
    MaxPart = 0
    MaxRetry = 2
    MaxRequests = 5
    BkClient = {c1, c2}
    Bucket = {b1}
    BkKey = {k1, k2}
    MaxBkRequests = 4
    Key = {1, 3, 4, 5}
    Folder <- MCFolder
    MaxKeys = {1, 2}
    MaxPages = 5
    MaxChanges = 2
    MaxBody = 4
    MaxObject = 3
    Jti = {j1}
    TTLs = {0, 1, 9}
    DefaultTTL = 2
    ShareableMax = 2
    BoundMax = 3
    Retention = 3
    MaxNow = 5
    MaxLost = 1
    Caller = {c1, c2, c3}
    Burst = 2
    Backing = {"memory", "postgres"}
    MaxTick = 4
    MaxGrants = 8
    SnClient = {c1, c2}
    SnBackend = {"local", "s3"}
    Stamp <- MCStamp
    ScClient = {c1, c2}
    ScVersion = {v1, v2}
    MaxBytes = 1
    MaxFills = 4
    ProviderTTL = 2
    CacheTTL = 2
    Session = 6
    Margin = 1
    MaxClk = 7
    MaxPool = 4
    FileCounts = {1, 2}
    Tenant = {"a", "ab"}
    Prefix <- MCPrefix
    MaxEdits = 3
    Layout <- MCLayout
    Standalone = {"V"}
    Size <- MCSize
    ZSize <- MCZSize
    Objects <- MCObjects
    MaxPuts = 2
    BfKey = {"a", "b", "c"}
    BfPack = {"P", "Q"}
    Legacy <- MCLegacy
    OwnerContext <- MCOwnerContext
    BatchSize = 2
    MaxBfCalls = 2
    MaxBfFaults = 1
    MaxWalks = 2
    PresignTTL = 4
    PresignMaxTTL = 3
    RefreshMargin = 2
    NodeLag = 1
    PcCaller = {c1, c2}
    MaxAttempts = 2
    MaxUrls = 2
    MaxPcFaults = 1
    MaxPcCalls = 3
CHECK_DEADLOCK FALSE
INVARIANTS  S3WireSound   TenantsSound PackReadSound BackfillSound PresignSound
