SPECIFICATION FairSpec
CONSTANTS
    Nil = Nil
    Absent = Absent
    NoOwner = NoOwner
    yaml = yaml
    yaml2 = yaml2
    note = note
    o1 = o1
    Texts <- MCTexts
    DataKeys <- MCDataKeys
    RequiredPlugins <- MCRequiredPlugins
    Folded <- MCFolded
    Operators = {o1}
    Keys <- PairKeys
    Specs <- UnconfiguredSpecs
    Offered <- PairOffered
    Initial <- UnconfiguredInitial
    Deletable = {}
    WatchedNamespaces = {}
    WatchBreaks = FALSE
    AutoNodePort = 30000
    MaxEdits = 0
    MaxFaults = 0
    MaxVersion = 9
    MaxBehind = 1
    PluginSpecs <- MCPluginSpecs
PROPERTIES
    ConfiguredInstanceServed
CHECK_DEADLOCK FALSE
