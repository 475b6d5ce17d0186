-------------------------------- MODULE Kits --------------------------------
(***************************************************************************)
(* Kits: the rows that say how many of a product another one holds         *)
(* (models_domain/catalog.py), the administration's form that edits them   *)
(* (admin.py), and what a kit comes down to (kit_components.py), its weight *)
(* and its volume (scan_product_helpers.py).                               *)
(* A form is one transaction: it is validated against what was committed   *)
(* before, and saved when others may have been. A form changes one row of  *)
(* one kit; a product is not deleted.                                      *)
(***************************************************************************)
EXTENDS Naturals, Sequences, FiniteSets, FiniteSetsExt, Functions

CONSTANTS
    Product,
    Editor,      \* forms being saved
    MaxPart,     \* the most of a product that a kit holds
    NoProduct

ASSUME KitsAssumption == IsFiniteSet(Product) /\ NoProduct \notin Product /\ MaxPart \in Nat \ {0}

VARIABLES
    parts,     \* parts[k][p]: how many p the kit k holds, 0 without a row
    form,      \* the forms that were validated and not yet saved
    overtaken  \* a form was saved after another that was validated with it

kitVars == <<parts, form, overtaken>>

Rows == [Product -> [Product -> 0..MaxPart]]
NoRows == [k \in Product |-> [p \in Product |-> 0]]
NoForm == [kit |-> NoProduct, part |-> NoProduct, old |-> 0, new |-> 0, behind |-> FALSE]

PartsOf(rows, k) == {p \in Product : rows[k][p] > 0}

----------------------------------------------------------------------------
(* What a product comes down to. *)

\* get_unit_component_quantities: a product without rows is itself, a kit the sum of
\* what its rows come down to, and a product met again on the way down is a cycle.
\* The memo of the code holds results that are complete, which are the same on
\* every way down.
UnitQuantities(rows, product) ==
    LET cycle == [ok |-> FALSE, of |-> [p \in Product |-> 0]]
        unit[above \in SUBSET Product] == [k \in Product |->
            LET held == PartsOf(rows, k)
                below(q) == unit[above \cup {k}][q]
            IN  IF k \in above \/ \E q \in held : ~below(q).ok THEN cycle
                ELSE [ok |-> TRUE,
                      of |-> [p \in Product |->
                                IF held = {} THEN IF p = k THEN 1 ELSE 0
                                ELSE SumFunction([q \in held |-> rows[k][q] * below(q).of[p]])]]]
    IN  unit[{}][product]

\* get_product_weight_g and get_product_volume_cm3: 0, for None, when a component has
\* none and when the kit has a cycle.
UnitMeasure(rows, measure, product) ==
    LET unit == UnitQuantities(rows, product)
        of   == {p \in Product : unit.of[p] > 0}
    IN  IF ~unit.ok \/ \E p \in of : measure[p] = 0 THEN 0
        ELSE SumFunction([p \in of |-> unit.of[p] * measure[p]])

----------------------------------------------------------------------------
(* The form of a kit. *)

\* _component_reaches_kit, on the rows that are committed.
ReachesOneLevel(rows, part, kit) == part = kit \/ kit \in PartsOf(rows, part)
Reaches(rows, part, kit) ==
    LET step(S) == S \cup UNION {PartsOf(rows, p) : p \in S}
        visited[n \in 0..Cardinality(Product)] == IF n = 0 THEN {part} ELSE step(visited[n - 1])
    IN  kit \in visited[Cardinality(Product)]

KitsInit == parts = NoRows /\ form = [e \in Editor |-> NoForm] /\ overtaken = FALSE

\* The inline's rows that the form keeps are validated with the one it changes, each
\* by ProductKitItem.clean; a row that it deletes is not.
ValidateKit(e, k, p, n) ==
    /\ form[e] = NoForm /\ n # parts[k][p]
    /\ \A q \in PartsOf([parts EXCEPT ![k][p] = n], k) : q # k /\ ~Reaches(parts, q, k)
    /\ form' = [form EXCEPT ![e] = [kit |-> k, part |-> p, old |-> parts[k][p], new |-> n,
                                    behind |-> FALSE]]
    /\ UNCHANGED <<parts, overtaken>>

\* A row that another form added in between is refused by unique_together, and the
\* whole form with it.
SaveKit(e) ==
    LET f == form[e]
        refused == f.old = 0 /\ parts[f.kit][f.part] > 0
    IN  /\ f # NoForm
        /\ parts' = IF refused THEN parts ELSE [parts EXCEPT ![f.kit][f.part] = f.new]
        /\ form' = [x \in Editor |->
                      IF x = e THEN NoForm
                      ELSE IF form[x] = NoForm \/ parts' = parts THEN form[x]
                      ELSE [form[x] EXCEPT !.behind = TRUE]]
        /\ overtaken' = (overtaken \/ (f.behind /\ ~refused))

KitsNext == \E e \in Editor :
    \/ \E k, p \in Product, n \in 0..MaxPart : ValidateKit(e, k, p, n)
    \/ SaveKit(e)

KitsSpec == KitsInit /\ [][KitsNext]_kitVars

----------------------------------------------------------------------------
(* Properties *)

KitsTypeOK ==
    /\ parts \in Rows
    /\ \A e \in Editor : form[e] = NoForm \/
         /\ form[e].kit \in Product /\ form[e].part \in Product
         /\ form[e].old \in 0..MaxPart /\ form[e].new \in 0..MaxPart /\ form[e].behind \in BOOLEAN
    /\ overtaken \in BOOLEAN

\* The ways down the rows from a product, each product once.
Ways(from) ==
    {w \in UNION {[1..n -> Product] : n \in 1..Cardinality(Product)} :
        /\ w[1] = from /\ IsInjective(w)
        /\ \A i \in 1..Len(w) - 1 : parts[w[i]][w[i + 1]] > 0}
OnWay(w) ==
    LET upto[n \in 0..Len(w) - 1] == IF n = 0 THEN 1 ELSE upto[n - 1] * parts[w[n]][w[n + 1]]
    IN  upto[Len(w) - 1]
HasCycle(from) == \E w \in Ways(from) : \E p \in Product : parts[w[Len(w)]][p] > 0 /\ p \in {w[i] : i \in DOMAIN w}

\* A kit never comes to hold itself, however deep, unless two forms were validated
\* side by side and saved one after the other; a product whose rows lead to a cycle,
\* and no other, is refused by everything that expands kits; and any other comes down
\* to products without rows, of each as many as the ways that lead there add up to,
\* every way the product of the quantities on it.
KitsExpand == parts # NoRows => \A k \in Product :
    LET unit == UnitQuantities(parts, k)
    IN  /\ unit.ok <=> ~HasCycle(k)
        /\ unit.ok \/ overtaken
        /\ unit.ok => \A p \in Product :
             unit.of[p] = IF PartsOf(parts, p) # {} THEN 0
                          ELSE SumFunction([w \in {x \in Ways(k) : x[Len(x)] = p} |-> OnWay(w)])
=============================================================================
