SPECIFICATION Spec
CONSTANTS
    Nil = Nil
    Absent = Absent
    NoOwner = NoOwner
    yaml = yaml
    yaml2 = yaml2
    note = note
    o1 = o1
    Texts <- MCTexts
    DataKeys <- MCDataKeys
    RequiredPlugins <- MCRequiredPlugins
    Folded <- MCFolded
    Operators = {o1}
    Keys <- LifeKeys
    Specs <- LifeSpecs
    Offered <- LifeOffered
    Initial <- CiInitial
    Deletable <- LifeDeletable
    WatchedNamespaces = {}
    WatchBreaks = FALSE
    AutoNodePort = 30000
    DeletesInstances = TRUE
    MaxEdits = 2
    MaxFaults = 1
    MaxVersion = 16
    MaxBehind = 1
    PluginSpecs <- MCPluginSpecs
INVARIANTS
    TypeOK
    QuiescentConverged
    ReadyRunsAtRest
PROPERTIES
    OnlyOwnObjectsChange
    ImplementsOwnedObjects
CHECK_DEADLOCK FALSE
