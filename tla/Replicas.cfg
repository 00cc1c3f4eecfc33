SPECIFICATION Spec
CONSTANTS
    Nil = Nil
    Absent = Absent
    NoOwner = NoOwner
    yaml = yaml
    yaml2 = yaml2
    note = note
    o1 = o1
    o2 = o2
    Texts <- MCTexts
    DataKeys <- MCDataKeys
    RequiredPlugins <- MCRequiredPlugins
    Folded <- MCFolded
    Operators = {o1, o2}
    Keys <- NamedKeys
    Specs <- NamedSpecs
    Offered <- ReplicaOffered
    Initial <- NamedInitial
    Deletable = {}
    WatchedNamespaces = {}
    WatchBreaks = FALSE
    AutoNodePort = 30000
    DeletesInstances = FALSE
    MaxEdits = 2
    MaxFaults = 1
    MaxVersion = 10
    MaxBehind = 1
    PluginSpecs <- MCPluginSpecs
SYMMETRY Symmetry
INVARIANTS
    QuiescentConverged
    ReadyMeansServed
PROPERTIES
    PluginsOnce
    UserDataSurvives
CHECK_DEADLOCK FALSE
