\* facturation-design.md:352: "Once issued, shipment exclusivity is enforced."
SPECIFICATION RecordsSpec
CONSTANTS
    None = None
    Record = {x1, x2}
    Request = {r1}
    MaxNumber = 1
    NoLine = None
    Line = {x1, x2}
    Clerk = {r1}
    NoDocument = None
    Document = {x1, x2}
    Shipment = {s1}
    Biller = {r1}
    Totals = {0, 2}
    Amounts <- RefundOrPay
    MaxPaid = 2
    Sender = {s1}
    DefaultSender = s1
    Receiver = {o1}
    Person = {r1}
    NoHome = None
    Product = {x1, x2}
    Editor = {r1}
    MaxPart = 2
    NoProduct = None
    CartonSize <- Carton76
    DefaultMeasure <- Light
    Measures <- FewMeasures
    PackForms <- FewForms
    Order = {r1}
    Parcel = {x1, x2}
    ReadyCarton = {c1, c2}
    Asker = {r1}
    MaxUnits = 2
    MaxMoved = 1
    Nothing = None
INVARIANTS
    OneInvoicePerShipment
CHECK_DEADLOCK FALSE
