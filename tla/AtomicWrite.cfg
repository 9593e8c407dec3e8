SPECIFICATION Spec
CONSTANTS
    Writer = {w1, w2}
    Process = {{w1}, {w2}}
    Path = {index, block}
    CreateOnly = {block}
    Value = {v1, v2}
    Torn = Torn
    Inode = {i1, i2}
    NoInode = NoInode
    NoWriter = NoWriter
    Absent = Absent
SYMMETRY Symmetry
INVARIANTS
    NeverTorn
    OneInTheDirectory
PROPERTIES
    ImplementsAtomicFile
