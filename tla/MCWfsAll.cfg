SPECIFICATION Spec
CONSTANTS
    Names = {"a", "b"}
    LongNames = {"b"}
    MaxDepth = 2
    Blocks = {"x"}
    Offsets = {0, 1}
    DiskSize = 15
    Workload = {"mknod", "mkdir", "write", "unlink", "readdir", "crash"}
    Absent = Absent
    Dir = Dir
INVARIANTS
    TypeOK
PROPERTIES
    HistoryKept
    DirectoriesStay
