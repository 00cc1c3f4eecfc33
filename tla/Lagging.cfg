SPECIFICATION Spec
CONSTANTS
    Nil = Nil
    Absent = Absent
    NoOwner = NoOwner
    yaml = yaml
    yaml2 = yaml2
    note = note
    o1 = o1
    Texts <- MCTexts
    DataKeys <- MCDataKeys
    RequiredPlugins <- MCRequiredPlugins
    Folded <- MCFolded
    Operators = {o1}
    Keys <- CiKeys
    Specs <- LagSpecs
    Offered <- LagOffered
    Initial <- CiInitial
    Deletable <- LagDeletable
    WatchedNamespaces = {}
    WatchBreaks = FALSE
    AutoNodePort = 30000
    DeletesInstances = TRUE
    MaxEdits = 2
    MaxFaults = 0
    MaxVersion = 5
    MaxBehind = 5
    PluginSpecs <- MCPluginSpecs
INVARIANTS
    QuiescentConverged
CHECK_DEADLOCK FALSE
