CONSTANTS
    Links <- SixLinks
    Channels <- Channels1
    Kinds <- AllKinds
    Sort <- SortOf
    Classes <- MCClasses
    NoClass = "none"
    Reads <- Reads1
    Self = "self"
    Induces <- NestedInduces
    Body <- TameBody
    Heap <- LowOrHigh
    Scaffold = "Scaffold"
    MainKinds <- Main2
    NewKinds = {"Use", "DeclB", "Scaffold"}
    InnerKinds = {"Use"}
    MaxInner = 0
    Reserve = 2
    MaxBuilt = 2
SPECIFICATION Spec
INVARIANT ExtensionsKnown
