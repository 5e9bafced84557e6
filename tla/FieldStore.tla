----------------------------- MODULE FieldStore -----------------------------
(***************************************************************************)
(* What set-field promises of one item: a store with a value in each cell, *)
(* a cell being a field in a slot.  A request writes one cell or none.     *)
(***************************************************************************)
CONSTANTS Cells, Contents

VARIABLE values

Init == values \in [Cells -> Contents]

Changed(cell) == values'[cell] # values[cell]

Next ==
  /\ DOMAIN values' = Cells
  /\ \A a \in Cells : Changed(a) =>
       values'[a] \in Contents /\ \A b \in Cells : Changed(b) => a = b

Spec == Init /\ [][Next]_values
=============================================================================
