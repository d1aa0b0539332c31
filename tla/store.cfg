SPECIFICATION Spec
CONSTANTS
    s1 = s1  s2 = s2  x1 = x1  x2 = x2  pid1 = pid1  pid2 = pid2
    Stores = {s1, s2}
    States = {x1, x2}
    Pids = {pid1, pid2}
    NoContainer = NoContainer
    Nothing = Nothing
    Refused = Refused
    RemovalFails = TRUE
    MaxSaves = 2
INVARIANTS StoreInv RenamesItsOwn
PROPERTY SaveIsAtomic
SYMMETRY StoreSymmetry
