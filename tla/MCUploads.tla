----------------------------- MODULE MCUploads -----------------------------
(* Small instances of Uploads for TLC.  Items are interchangeable; the safety *)
(* runs use that, the liveness run does not.                                  *)
EXTENDS Uploads, TLC

Symmetry == Permutations(Item)
=============================================================================
