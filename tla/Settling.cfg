SPECIFICATION FairSpec
CONSTANTS
    Nil = Nil
    Absent = Absent
    NoOwner = NoOwner
    yaml = yaml
    yaml2 = yaml2
    note = note
    o1 = o1
    Texts <- MCTexts
    DataKeys <- MCDataKeys
    RequiredPlugins <- MCRequiredPlugins
    Folded <- MCFolded
    Operators = {o1}
    Keys <- StoredKeys
    Specs <- SettleSpecs
    Offered <- SettleOffered
    Initial <- CiInitial
    Deletable <- SettleDeletable
    WatchedNamespaces = {}
    WatchBreaks = TRUE
    AutoNodePort = 30000
    MaxEdits = 2
    MaxFaults = 1
    MaxVersion = 16
    MaxBehind = 1
    PluginSpecs <- MCPluginSpecs
PROPERTIES
    Settles
CHECK_DEADLOCK FALSE
