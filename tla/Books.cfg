CONSTANTS
    k1 = k1
    p1 = p1
    s1 = s1
    s2 = s2
    Worker = {w1, w2}
    NoWorker = NoWorker
    Client = {k1}
    NoClient = walkIn
    Product = {p1}
    NoProduct = service
    Stylist = {s1, s2}
    NoStylist = nobody
    Profile <- MCProfile
    OpeningCash = 200
    MaxDay = 2
    Sales <- MCSales
    AutoSales <- MCAutoSales
    Spendings <- MCSpendings
    Counts <- MCCounts
    Deliveries <- MCDeliveries
    MaxInvoices = 2
    MaxExpenses = 1
    MaxStock = 2
SPECIFICATION Spec
SYMMETRY Symmetry
INVARIANTS
    TypeOK
    IsolationInv
    DrawerBalances
    DrawersMatchTables
    SpentBalances
    InvoicesComplete
PROPERTIES
    ClosedDrawerFrozen
    AtomicSpec
