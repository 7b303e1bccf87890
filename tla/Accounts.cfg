CONSTANTS
    admin = admin
    emma = emma
    zoe = zoe
    n1 = n1
    n2 = n2
    Worker = {w1, w2}
    NoWorker = NoWorker
    Username = {admin, emma, zoe}
    Name = {n1, n2}
    SeedUsers <- MCSeedUsers
    SeedStaff <- MCSeedStaff
    Registrations <- MCRegistrations
    Edits <- MCEdits
    MaxUsers = 4
SPECIFICATION Spec
SYMMETRY Symmetry
INVARIANTS
    TypeOK
    IsolationInv
    UsernamesUnique
    StaffRowsMatch
PROPERTIES
    AtomicSpec
