--------------------------- MODULE MCBackOffice ---------------------------
(***************************************************************************)
(* A purchase order of two products, and one of the material that          *)
(* production consumes; two receipts and a bill; a production order with   *)
(* materials and one without; two payrolls of one month; a leave; a day of *)
(* an employee; a lead and an opportunity; a part in two warehouses and a  *)
(* good, made of it, with a variant.                                       *)
(***************************************************************************)
EXTENDS BackOffice, TLC

CONSTANTS po, pm, g1, g2, b1, adv, w, bare, steel, wheel,
  pay1, pay2, june, lv, day, ld, opp, fromNumber, ownCode,
  part, far, good, variant

MCDocuments == {po, pm, g1, g2, b1, adv, w, bare, pay1, pay2, june, lv, day, ld, opp,
  part, far, good, variant}
MCOrdered == po :> (steel :> 1 @@ wheel :> 1) @@ pm :> (steel :> 1 @@ wheel :> 0)
MCUnitCost == steel :> 1 @@ wheel :> 3

Line(largest, sum) == [largest |-> largest, sum |-> sum]

\* One product at a time, and a receipt with two lines of the same item.
MCDeliveries ==
  {steel :> Line(1, 1) @@ wheel :> Line(0, 0),
   steel :> Line(0, 0) @@ wheel :> Line(1, 1),
   steel :> Line(1, 2) @@ wheel :> Line(0, 0)}

MCInitialStock == [p \in {steel, wheel} |-> [quantity |-> 1, reserved |-> 0]]

MCMakes == w :> wheel @@ bare :> wheel
MCBoms == w :> {steel :> 1 @@ wheel :> 0} @@ bare :> {steel :> 0 @@ wheel :> 0}
MCValues == w :> {0} @@ bare :> {0, 1}
MCAverageCost == steel :> 1 @@ wheel :> 2

MCCodeOf == ld :> fromNumber

MCRows == {part, far, good, variant}
MCLookedUp == [i \in MCRows |-> IF i = good THEN {good, variant} ELSE {i}]
MCRecipes == {[from |-> part, needs |-> 1, to |-> good, makes |-> 2, value |-> 1]}
MCTransfers == {<<part, far>>, <<far, part>>}

\* An order in two receipts; a receipt and its bill; a bill and an advance;
\* production with a receipt of its material; production from nothing; each of
\* the documents that share no row with these; two rows of stock.
MCTogether ==
  {{po, g1, g2}, {po, g1, b1}, {b1, adv}, {pm, g1, w}, {bare}, {pay1, pay2, june}, {lv}, {day}, {ld, opp},
   {part, far}, {part, good}, {good, variant}}

Symmetry == Permutations(Requests)
=============================================================================
