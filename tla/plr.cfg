SPECIFICATION Spec
CONSTANTS
    Ids = {"x", "y"}
    Dirs <- MCDirs
    Bases <- MCBases
    Subdirs <- MCSubdirs
    Packages <- MCPackages
    Callers = {c1, c2, c3}
    None = None
    Malformed = Malformed
    InitialDisks <- MCDisks
    Edits <- MCEdits
    MaxChanges = 1
SYMMETRY Symmetry
INVARIANTS TypeOK PresentIsFound CacheMatchesDisk
CHECK_DEADLOCK FALSE
