----------------------------- MODULE PackingBins -----------------------------
(***************************************************************************)
(* The preparation page: what handle_pack_post (pack_handlers.py) asks,    *)
(* refuses and packs, build_packing_bins (scan_pack_helpers.py), which     *)
(* spreads the lines over cartons, and the number of cartons that the      *)
(* portal announces for a line (order_helpers.py).                         *)
(* Weights and volumes are whole numbers. The cartons are then packed in   *)
(* one transaction, by the pack_carton of Stock.                           *)
(***************************************************************************)
EXTENDS Kits

CONSTANTS
    CartonSize,      \* [weight, volume] of the carton the page packs
    DefaultMeasure,  \* the [weight, volume] of a product without either
    Measures,        \* what the products may measure, 0 for what is not known
    PackForms        \* the forms that are sent: who, and the lines

MeasureType == [weight : Nat, volume : Nat]

ASSUME PackingAssumption ==
    /\ CartonSize \in MeasureType /\ CartonSize.weight > 0 /\ CartonSize.volume > 0
    /\ DefaultMeasure \in MeasureType /\ DefaultMeasure.weight > 0 /\ DefaultMeasure.volume > 0
    /\ Measures \subseteq MeasureType
    /\ \A f \in PackForms :
          /\ f.who \in {"staff", "edit", "preparer"}
          /\ f.lines \in Seq([product : Product, quantity : Nat \ {0}, family : STRING])

VARIABLES
    size,    \* [weight, volume] of each product that is no kit
    sheet    \* the form, what became of it, and the cartons

packVars == <<size, sheet>>

\* The families of a preparer's cartons; a line's is the one typed in the form, or its
\* product's root category.
Families == <<"MM", "CN">>

----------------------------------------------------------------------------
Measured(p) == [weight |-> UnitMeasure(parts, [q \in Product |-> size[q].weight], p),
                volume |-> UnitMeasure(parts, [q \in Product |-> size[q].volume], p)]
Unmeasured(p) == Measured(p) = [weight |-> 0, volume |-> 0]

\* A line's product with its measures, or those that stand in for them.
Item(l) == [product |-> l.product, quantity |-> l.quantity,
            measure |-> IF Unmeasured(l.product) THEN DefaultMeasure ELSE Measured(l.product)]

\* The larger of the shares of the carton that a unit takes, as a number to compare.
Share(x) == Max({x.measure.weight * CartonSize.volume, x.measure.volume * CartonSize.weight})

\* The numbers of S in an order, where place[i] of them come no later than i.
InOrder(S, place) == [n \in 1..Cardinality(S) |-> CHOOSE i \in S : place[i] = n]

\* sort(reverse=True): equals stay in the order of the form.
LargestFirst(items) ==
    LET before(i, j) == \/ Share(items[i]) > Share(items[j])
                        \/ Share(items[i]) = Share(items[j]) /\ i <= j
        place == [j \in DOMAIN items |-> Cardinality({i \in DOMAIN items : before(i, j)})]
    IN  [n \in DOMAIN items |-> items[InOrder(DOMAIN items, place)[n]]]

\* How many units of an item go into what is left of a carton; what is not known of
\* it limits nothing.
FitByVolume(left, m) == IF m.volume > 0 THEN left.volume \div m.volume ELSE 1000
Fit(left, m) ==
    Min({left[d] \div m[d] : d \in {x \in {"weight", "volume"} : m[x] > 0}})
Without(left, m, n) == [weight |-> left.weight - n * m.weight, volume |-> left.volume - n * m.volume]

Put(bin, item, n) ==
    [left |-> Without(bin.left, item.measure, n), held |-> [bin.held EXCEPT ![item.product] = @ + n]]
EmptyBin == [left |-> CartonSize, held |-> [p \in Product |-> 0]]

\* One item: each carton takes what it can, from the first on, and what remains goes
\* into new ones. (A carton that took what it could takes no more: the loop of the
\* code, which starts again at the first, passes it.)
PlaceItem(bins, item) ==
    LET room(b) == Fit(b.left, item.measure)
        left[i \in 0..Len(bins)] ==
            IF i = 0 THEN item.quantity ELSE left[i - 1] - Min({left[i - 1], room(bins[i])})
        filled == [i \in DOMAIN bins |-> Put(bins[i], item, left[i - 1] - left[i])]
        full   == Max({1, Fit(CartonSize, item.measure)})
        rest   == left[Len(bins)]
        added  == [i \in 1..((rest + full - 1) \div full) |->
                      Put(EmptyBin, item, Min({full, rest - (i - 1) * full}))]
    IN  filled \o added

\* build_packing_bins refuses everything for one unit that no carton holds.
TooLarge(items) == \E i \in DOMAIN items : \E d \in {"weight", "volume"} : items[i].measure[d] > CartonSize[d]
Bins(items) ==
    LET upto[n \in 0..Len(items)] ==
            IF n = 0 THEN <<>> ELSE PlaceItem(upto[n - 1], LargestFirst(items)[n])
    IN  upto[Len(items)]

----------------------------------------------------------------------------
Items == [i \in DOMAIN sheet.lines |-> Item(sheet.lines[i])]
\* grouped_line_items: a family's, in the order of the form.
OfFamily(f) ==
    LET of    == {i \in DOMAIN sheet.lines : sheet.lines[i].family = f}
        place == [j \in of |-> Cardinality({i \in of : i <= j})]
    IN  [n \in 1..Cardinality(of) |-> Item(sheet.lines[InOrder(of, place)[n]])]

\* A preparer's lines are packed family by family, the others' together.
Packed == IF sheet.who = "preparer" THEN [i \in 1..2 |-> Bins(OfFamily(Families[i]))]
          ELSE <<Bins(Items)>>

PackingInit(rows) ==
    /\ parts \in rows
    /\ size \in [Product -> Measures]
    /\ \E f \in PackForms :
         sheet = [who |-> f.who, lines |-> f.lines, confirmed |-> FALSE, step |-> "sent", cartons |-> <<>>]

Answer(step, cartons) ==
    /\ sheet' = [sheet EXCEPT !.step = step, !.cartons = cartons]
    /\ UNCHANGED size

\* Products without weight and volume are packed with the defaults, once that was confirmed.
AsksToConfirm == ~sheet.confirmed /\ \E i \in DOMAIN sheet.lines : Unmeasured(sheet.lines[i].product)
AskToConfirm == sheet.step = "sent" /\ AsksToConfirm /\ Answer("asked", <<>>)
Confirm ==
    /\ sheet.step = "asked"
    /\ sheet' = [sheet EXCEPT !.step = "sent", !.confirmed = TRUE]
    /\ UNCHANGED size

\* A preparer's line needs a family, unless it is a carton that is edited.
Unsorted == sheet.who = "preparer" /\ \E i \in DOMAIN sheet.lines : sheet.lines[i].family \notin {"MM", "CN"}

\* A carton that is edited must remain one.
Refuse ==
    /\ sheet.step = "sent" /\ ~AsksToConfirm
    /\ Unsorted \/ TooLarge(Items) \/ (sheet.who = "edit" /\ Len(Packed[1]) # 1)
    /\ Answer("refused", <<>>)

Pack ==
    /\ sheet.step = "sent" /\ ~AsksToConfirm
    /\ ~Unsorted /\ ~TooLarge(Items) /\ (sheet.who = "edit" => Len(Packed[1]) = 1)
    /\ Answer("packed", Packed)

PackingNext == AskToConfirm \/ Confirm \/ Refuse \/ Pack

\* The rows of the kits do not change while a form is packed.
PackingSpec(rows) ==
    PackingInit(rows) /\ [][PackingNext /\ UNCHANGED parts]_<<packVars, parts>>

----------------------------------------------------------------------------
(* The announcement. *)

\* estimate_cartons_for_line: 0, for None, when neither measure is known.
Estimate(l) ==
    LET m == Measured(l.product)
        units == {Max({1, CartonSize[d] \div m[d]}) : d \in {x \in {"weight", "volume"} : m[x] > 0}}
    IN  IF units = {} THEN 0 ELSE (l.quantity + Min(units) - 1) \div Min(units)

----------------------------------------------------------------------------
(* Properties *)

PackingTypeOK ==
    /\ size \in [Product -> Measures]
    /\ sheet.step \in {"sent", "asked", "refused", "packed"} /\ sheet.confirmed \in BOOLEAN

Asked(of, p) ==
    SumFunction([i \in {j \in of : sheet.lines[j].product = p} |-> sheet.lines[i].quantity])
Contents(bins, p) == SumFunction([i \in DOMAIN bins |-> bins[i].held[p]])
UnitOf(p) == Item([product |-> p, quantity |-> 1]).measure
MeasureOf(bin, d) == SumFunction([p \in Product |-> bin.held[p] * UnitOf(p)[d]])

\* What the page packs is what was asked, to the unit, every family in cartons of its
\* own; no carton is heavier or fuller than its format allows, by the measures that are
\* known; none was opened for a unit that an earlier one still had room for; and
\* a line alone takes as many cartons as the portal announced for it.
BinsHold == sheet.step = "packed" =>
    /\ \A g \in DOMAIN sheet.cartons :
         LET bins == sheet.cartons[g]
             of   == {i \in DOMAIN sheet.lines :
                        sheet.who = "preparer" => sheet.lines[i].family = Families[g]}
         IN  /\ \A p \in Product : Contents(bins, p) = Asked(of, p)
             /\ \A i \in DOMAIN bins : \A d \in {"weight", "volume"} : MeasureOf(bins[i], d) <= CartonSize[d]
             /\ \A i, j \in DOMAIN bins : \A p \in Product :
                  i < j /\ bins[j].held[p] > 0 =>
                    \E d \in {"weight", "volume"} :
                       MeasureOf(bins[i], d) + UnitOf(p)[d] > CartonSize[d]
    /\ Len(sheet.lines) = 1 /\ Estimate(sheet.lines[1]) > 0 =>
         Len(sheet.cartons[1]) + (IF sheet.who = "preparer" THEN Len(sheet.cartons[2]) ELSE 0)
           = Estimate(sheet.lines[1])
=============================================================================
