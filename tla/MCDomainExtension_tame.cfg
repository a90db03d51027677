CONSTANTS
    Links <- SixLinks
    Channels <- Channels2
    Kinds <- AllKinds
    Sort <- SortOf
    Classes <- MCClasses
    NoClass = "none"
    Reads <- Reads2
    Self = "self"
    Induces <- TameInduces
    Body <- TameBody
    Heap <- LowOrHigh
    Scaffold = "Scaffold"
    MainKinds <- Main2
    NewKinds = {"Use", "DeclB", "Scaffold"}
    InnerKinds = {"Use"}
    MaxInner = 0
    Reserve = 2
    MaxBuilt = 2
SPECIFICATION Spec
INVARIANTS StoreInvariant MapsInSynch NothingDangles ExtraTreeHasOneOwner ExtensionsKnown
