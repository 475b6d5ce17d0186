----------------------------- MODULE RecordsMC -----------------------------
(* The office: references, receipts, billing, the registry of parties, kits, *)
(* the preparation page and orders, which share no rows but those of kits.   *)
(* A behaviour shows one of them at work.                                    *)
EXTENDS ReferenceSequences, Receipts, Billing, ShipmentParties, PackingBins, OrderDesk, TLC

VARIABLE office   \* it never changes

\* Lines, documents, products and shipments are named like records, clerks, persons and
\* editors like requests, so that one small group of permutations serves all.
Symmetric == Permutations(Record) \cup Permutations(Request)

\* What is paid at once: half of a document's lines, or that much back.
RefundOrPay == {-1, 1}

\* A carton that two or three of the measured products fill, by weight or by volume.
Carton76 == [weight |-> 7, volume |-> 6]
Light == [weight |-> 5, volume |-> 1]
FewMeasures == {[weight |-> 0, volume |-> 0], [weight |-> 0, volume |-> 2],
                [weight |-> 2, volume |-> 5], [weight |-> 3, volume |-> 2]}

\* Forms of one or two lines, and of three for products of which each fills a carton.
\* A preparer's second line is of the family that is packed first.
Lines(n, families) == [1..n -> [product : Product, quantity : {1, 4}, family : families]]
FewForms ==
    [who : {"staff", "edit"}, lines : Lines(1, {"-"}) \cup Lines(2, {"-"})]
    \cup [who : {"staff"}, lines : {f \in Lines(3, {"-"}) :
                                      /\ {f[i].product : i \in 1..3} = Product
                                      /\ \A i \in 1..3 : f[i].quantity = 4}]
    \cup [who : {"preparer"}, lines : Lines(1, {"-"})
                                      \cup {f \in Lines(2, {"MM", "CN"}) : f[2].family = "MM"}]

\* No kit, or one of two units of another product.
PairKits ==
    {NoRows} \cup {[NoRows EXCEPT ![way[1]][way[2]] = 2] : way \in {w \in Product \X Product : w[1] # w[2]}}

RecordsInit ==
    /\ office \in {"numbers", "receipts", "billing", "parties", "kits", "packing", "orders"}
    /\ RefsInit /\ ReceiptsInit /\ BillingInit /\ PartiesInit /\ DeskInit
    /\ office # "numbers" => family = "receipt" /\ ref = [x \in Record |-> NoRef]
    /\ form = [e \in Editor |-> NoForm] /\ overtaken = FALSE
    /\ IF office = "packing" THEN PackingInit(PairKits)
       ELSE /\ parts = NoRows /\ size = [p \in Product |-> [weight |-> 0, volume |-> 0]]
            /\ sheet = [who |-> "staff", lines |-> <<>>, confirmed |-> FALSE,
                        step |-> "sent", cartons |-> <<>>]

\* The units of the orders and the cartons a page moves are two in all. Orders are
\* followed until a request writes over another's work, or dies between two commits.
FewUnits(orders) ==
    MapThenSumSet(LAMBDA o : orders[o].quantity + orders[o].removed * orders[o].removed, Order) <= 2

\* A person strays once one shipper is left and everybody is active; two seats are
\* then followed, the one left and the one taken or another person's.
FewStrays(registry) ==
    registry.strayed # {} => /\ Cardinality(registry.strayed) = 1
                             /\ registry.living = Person
                             /\ Cardinality(registry.sends) = 1
                             /\ Cardinality(registry.seat) <= 2

\* Invoices are followed until two were written over: each is judged by itself.
FewDisturbed(documents) == Cardinality(documents) <= 1

RecordsNext ==
    \/ office = "numbers" /\ RefsNext
       /\ UNCHANGED <<office, receiptVars, billingVars, partyVars, kitVars, packVars, deskVars>>
    \/ office = "receipts" /\ ReceiptsNext
       /\ UNCHANGED <<office, refVars, billingVars, partyVars, kitVars, packVars, deskVars>>
    \/ office = "billing" /\ BillingNext /\ FewDisturbed(disturbed')
       /\ UNCHANGED <<office, refVars, receiptVars, partyVars, kitVars, packVars, deskVars>>
    \/ office = "parties" /\ PartiesNext /\ FewStrays(book')
       /\ UNCHANGED <<office, refVars, receiptVars, billingVars, kitVars, packVars, deskVars>>
    \/ office = "kits" /\ KitsNext
       /\ UNCHANGED <<office, refVars, receiptVars, billingVars, partyVars, packVars, deskVars>>
    \/ office = "packing" /\ PackingNext
       /\ UNCHANGED <<office, refVars, receiptVars, billingVars, partyVars, kitVars, deskVars>>
    \/ office = "orders" /\ ~mixed /\ ~severed /\ DeskNext /\ FewUnits(order')
       /\ UNCHANGED <<office, refVars, receiptVars, billingVars, partyVars, kitVars, packVars>>

RecordsSpec ==
    RecordsInit /\ [][RecordsNext]_<<office, refVars, receiptVars, billingVars, partyVars,
                                     kitVars, packVars, deskVars>>

\* One type invariant for all.
RecordsTypeOK ==
    /\ RefsTypeOK /\ ReceiptsTypeOK /\ BillingTypeOK /\ PartiesTypeOK /\ KitsTypeOK
    /\ DeskTypeOK /\ PackingTypeOK
=============================================================================
