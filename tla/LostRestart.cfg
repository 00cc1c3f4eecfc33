SPECIFICATION Spec
CONSTANTS
    Nil = Nil
    Absent = Absent
    NoOwner = NoOwner
    yaml = yaml
    yaml2 = yaml2
    note = note
    o1 = o1
    Texts <- MCTexts
    DataKeys <- MCDataKeys
    RequiredPlugins <- MCRequiredPlugins
    Folded <- MCFolded
    Operators = {o1}
    Keys <- NamedKeys
    Specs <- NamedSpecs
    Offered <- NamedOffered
    Initial <- NamedInitial
    Deletable = {}
    WatchedNamespaces = {}
    WatchBreaks = FALSE
    AutoNodePort = 30000
    MaxEdits = 1
    MaxFaults = 1
    MaxVersion = 9
    MaxBehind = 1
    PluginSpecs <- MCPluginSpecs
INVARIANTS
    RestartedAfterUpdate
CHECK_DEADLOCK FALSE
