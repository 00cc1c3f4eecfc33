SPECIFICATION FairSpec
CONSTANTS
    Nil = Nil
    Absent = Absent
    NoOwner = NoOwner
    yaml = yaml
    yaml2 = yaml2
    note = note
    o1 = o1
    Texts <- MCTexts
    DataKeys <- MCDataKeys
    RequiredPlugins <- MCRequiredPlugins
    Folded <- MCFolded
    Operators = {o1}
    Keys <- LateKeys
    Specs <- LateSpecs
    Offered <- LateOffered
    Initial <- LateInitial
    Deletable <- LateDeletable
    WatchedNamespaces = {}
    WatchBreaks = FALSE
    AutoNodePort = 30000
    MaxEdits = 3
    MaxFaults = 1
    MaxVersion = 12
    MaxBehind = 2
    PluginSpecs <- MCPluginSpecs
PROPERTIES
    ServedInTheEnd
    OnlyOwnObjectsChange
CHECK_DEADLOCK FALSE
