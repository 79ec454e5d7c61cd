SPECIFICATION FairSpec
CONSTANTS
    Detectors = {d1, d2}
    V2VCalls = {v1}
    OpenCalls = {o1}
    Configs <- MCConfigs
    Installed = {"vddk7", "vddk8"}
    NfcPlugin = TRUE
    LibraryPath = {"vddk7", "vddk8", "vix", "usr"}
    VendorNamed = {"vix"}
    Certs <- MCCerts
    V2VOutputs <- MCV2VOutputs
    NumURLs = 2
    MaxPolls = 1
    LocalOutputs <- MCLocalOutputs
    MaxInFlight = 1
INVARIANTS
    TypeOK
    LibDirSetSinceOwner
    VerifiedAsConfigured
    NamedAfterItsCause
    DocumentFound
    PasswordFileScoped
    NoProxyLeft
    InspectorGetsEveryURL
    LocalDocument
PROPERTIES
    NBDImplementsScope
    CallReturns
    NBDReturns
