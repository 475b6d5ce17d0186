\* Numbers, receipts and invoices, with two requests at a time, and the parties.
SPECIFICATION RecordsSpec
CONSTANTS
    None = None
    Record = {x1, x2, x3}
    Request = {r1, r2}
    MaxNumber = 3
    NoLine = None
    Line = {x1, x2, x3}
    Clerk = {r1, r2}
    NoDocument = None
    Document = {x1, x2, x3}
    Shipment = {s1}
    Biller = {r1, r2}
    Totals = {0, 2}
    Amounts <- RefundOrPay
    MaxPaid = 2
    Sender = {s1, s2}
    DefaultSender = s1
    Receiver = {o1, o2}
    Person = {r1, r2}
    NoHome = None
    Product = {x1, x2, x3}
    Editor = {r1, r2}
    MaxPart = 2
    NoProduct = None
    CartonSize <- Carton76
    DefaultMeasure <- Light
    Measures <- FewMeasures
    PackForms <- FewForms
    Order = {r1, r2}
    Parcel = {x1, x2, x3}
    ReadyCarton = {c1, c2}
    Asker = {r1, r2}
    MaxUnits = 2
    MaxMoved = 1
    Nothing = None
INVARIANTS
    RecordsTypeOK
    NumbersGivenOnce
    ReceiptsSettled
    BalancesFollowed
    CorrectedOnce
    PartiesCoherent
    KitsExpand
    BinsHold
    OrdersAccounted
PROPERTIES
    MergesKeepAuthorizations
SYMMETRY Symmetric
CHECK_DEADLOCK FALSE
