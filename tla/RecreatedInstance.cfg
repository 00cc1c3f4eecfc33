SPECIFICATION Spec
CONSTANTS
    Nil = Nil
    Absent = Absent
    NoOwner = NoOwner
    yaml = yaml
    yaml2 = yaml2
    note = note
    o1 = o1
    Texts <- MCTexts
    DataKeys <- MCDataKeys
    RequiredPlugins <- MCRequiredPlugins
    Folded <- MCFolded
    Operators = {o1}
    Keys <- CiKeys
    Specs <- ImageSpecs
    Offered <- AgainOffered
    Initial <- CiInitial
    Deletable <- InstanceDeletable
    WatchedNamespaces = {}
    WatchBreaks = FALSE
    AutoNodePort = 30000
    MaxEdits = 2
    MaxFaults = 0
    MaxVersion = 9
    MaxBehind = 2
    PluginSpecs <- MCPluginSpecs
INVARIANTS
    ReadyMeansServed
CHECK_DEADLOCK FALSE
