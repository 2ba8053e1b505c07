SPECIFICATION Spec
CONSTANTS
    None = None
    Error = Error
    Admin = a
    Other = b
    Clients = {a, b, m, u, v}
    Machines = {m}
    Uploaders = {u, v}
    Plans <- MCPlans
    Slots = {1, 2, 3}
    Callers = {t1, t2}
    Payloads <- MCPayloads
    Numerals = {"0"}
    NumberOf <- MCNumberOf
    Texts = {"off"}
    Offers <- MCOffers
    Mimes <- MCMimes
    MaxFileSize <- MCMaxFileSize
    MaxFiles <- MCMaxFiles
    Uploadable <- MCUploadable
    Pipeable <- MCPipeable
    MaxTimeouts = 1
    MaxFaults = 1
    MaxIssues = 2
    MaxSwitches = 1
    MaxUpdates = 2
    MaxExpiries = 1
    MaxUploads = 2
INVARIANTS GatewayTypeOK OneAnswerEach LastIssueWorks AcceptedWasValid HangsExplained SettingFits PhotoStored OrphansExplained PipesExact
PROPERTIES MaintenanceEnds
CHECK_DEADLOCK FALSE
