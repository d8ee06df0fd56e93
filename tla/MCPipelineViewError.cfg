CONSTANTS
    k1 = k1  k2 = k2  k3 = k3  p1 = p1  p2 = p2
    ErrorPage = ErrorPage
    Kernels = {k1, k2}
    Yamls <- MCYamls
    ImportedFrom <- MCImportedFrom
    Package <- MCPackage
    DefinedIn <- MCDefinedIn
    Pages = {p1}
    MaxEdits = 2
    MaxRestarts = 1
SPECIFICATION Spec
CHECK_DEADLOCK FALSE
INVARIANT ErrorIsCurrent
