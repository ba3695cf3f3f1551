SPECIFICATION Spec
CONSTANTS
    none = none
    noSubject = noSubject
    NoFamily = NoFamily
    NoCall = none
    NoSubject = noSubject
    AnySubject = AnySubject
    Hooks = {h1}
    Calls <- MCCalls
    Policies <- MCPolicies
    Family <- MCFamily
    Recognized <- MCRecognized
    Savable <- MCSavable
    LongestHistory = 4
    Unsaid = Unsaid
    Frames <- MCFrames
    Failures <- MCFailures
    LongestStream <- MCLongest
    Unset = Unset
    Documents <- MCDocuments
    ProjectFiles <- MCProjectFiles
    Flags <- MCFlags
    Additions <- MCAdditions
    Environments <- MCEnvironments
    Sessions = {s1}
    Slug <- MCSlug
    NoFile = NoFile
    Torn = Torn
    Processes = {p, q}
    Lineup <- MCLineup
    Probes = 1
    Windows = {w1, w2}
    BuiltinWindow = w0
    Uncategorized = "uncategorized"
    Projects <- MCProjects
    NewIds = {"i", "j"}
    Queries = {"", "one", "none"}
    Listing <- MCListing
    Blank = " "
    Slash = "/"
    Letters = {"c", "o"}
    Commands <- MCCommands
    Alias <- MCAlias
    Spoken = {"es"}
    DefaultSpoken = "en"
    Replies <- MCReplies
    MaxLine = 3
    ChannelCapacity = 2
    MaxPieces = 2
    MaxCalls = 2
    MaxAsides = 1
    Places <- MCPlaces
    Workspace <- MCWorkspace
    NamedPaths <- MCNamedPaths
    Links <- MCLinks
    Old = "x"
    New = "y"
    Long = "l"
    Texts <- MCTexts
    MaxResults = 1
    MaxBytes = 2
    MaxMeddling = 2
    Owned <- MCOwned
    Proposed <- MCProposed
    Offers <- MCOffers
    Exposed <- MCExposed
    MaxServers = 2
    MaxConnections = 1
    Urls = {u1, u2}
    Proper = {u1}
    Addresses <- MCAddresses
    Public = {"p", "q"}
    Pages <- MCPages
    Width <- MCWidth
    MaxRedirects = 2
    MaxLength = 2
    Variables <- MCVariables
    Folded <- MCFolded
    BlankName = " "
    Keyed = {"X_API_KEY"}
    Sockets = {"SSH_AUTH_SOCK"}
    Configurations <- MCConfigurations
    NoPolicy = NoPolicy
    Raw = "raw"
    Escapes <- MCEscapes
    Drawn = {"attribute", "color", "cursor"}
INVARIANTS
    NothingRunsUnasked
    HistoryIsServable
PROPERTIES
    StreamsKeepTheProtocol
    OwnersWordStands
    FilesOutliveTheirProcess
    ScreensAreTrue
    ToolsKeepTheirBounds
CHECK_DEADLOCK FALSE
