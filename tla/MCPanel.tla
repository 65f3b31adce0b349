------------------------------- MODULE MCPanel -------------------------------
(* Panel on small sets.                                                    *)
EXTENDS Panel, TLC

\* Accounts made after the founder's, and forms, are interchangeable.
Symmetry == Permutations(User \ {Founder}) \cup Permutations(Request)
=============================================================================
