SPECIFICATION Spec
CONSTANTS
    Names = {"a", "b", "c"}
    LongNames = {"c"}
    MaxDepth = 3
    Blocks = {"x"}
    Offsets = {0, 1, 2}
    DiskSize = 12
    Workload = {"mknod", "mkdir", "write", "readdir"}
    Absent = Absent
    Dir = Dir
INVARIANTS
    NoAliases
    DentriesResolve
PROPERTIES
    ImplementsFileSystem
