SPECIFICATION Spec
CONSTANTS
    one = one
    two = two
    Links = {one, two}
    Users = {u1, u2}
    Clients = {c1, c2}
    NoRow = NoRow
    MaxRows = 3
    FirstRows <- MCFirstRows
    PaidDays = 2
    AdminDays = {1}
    LastDay = 1
    MaxEvents = 3
SYMMETRY Symmetry
INVARIANTS OneActivePerLink LostOnlyToOlderCopies
CHECK_DEADLOCK FALSE
