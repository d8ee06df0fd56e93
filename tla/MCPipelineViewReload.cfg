CONSTANTS
    k1 = k1  k2 = k2  k3 = k3  p1 = p1  p2 = p2
    ErrorPage = ErrorPage
    Kernels = {k1, k2}
    Yamls <- MCYamls
    ImportedFrom <- MCImportedFrom
    Package <- MCPackage
    DefinedIn <- MCDefinedIn
    Pages = {p1, p2}
    MaxEdits = 1
    MaxRestarts = 1
SPECIFICATION Spec
INVARIANT EveryReloadCounts
CHECK_DEADLOCK FALSE
