----------------------------- MODULE MCDelivery -----------------------------
(* Small instances of Delivery for TLC.  No definition tells the people, the *)
(* browsers, the cases or the links apart, and no property is a liveness     *)
(* property, so states that differ by a renaming are checked once.           *)
EXTENDS Delivery, TLC

Symmetry ==
  Permutations(Email) \cup Permutations(Browser) \cup Permutations(Case)
    \cup Permutations(Link)
=============================================================================
