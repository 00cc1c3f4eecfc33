SPECIFICATION Spec
CONSTANTS
    Nil = Nil
    Absent = Absent
    NoOwner = NoOwner
    yaml = yaml
    yaml2 = yaml2
    note = note
    o1 = o1
    Texts <- MCTexts
    DataKeys <- MCDataKeys
    RequiredPlugins <- MCRequiredPlugins
    Folded <- MCFolded
    Operators = {o1}
    Keys <- FarKeys
    Specs <- FarSpecs
    Offered <- FarOffered
    Initial <- FarInitial
    Deletable = {}
    WatchedNamespaces = {"a"}
    WatchBreaks = FALSE
    AutoNodePort = 30000
    MaxEdits = 0
    MaxFaults = 0
    MaxVersion = 9
    MaxBehind = 1
    PluginSpecs <- MCPluginSpecs
INVARIANTS
    OnlyWatchedNamespaces
CHECK_DEADLOCK FALSE
