------------------------------ MODULE MCSignIn ------------------------------
\* Instances of SignIn for TLC.
EXTENDS SignIn, TLC

Symmetry == Permutations(Session) \cup Permutations(Request) \cup Permutations(Key)

=============================================================================
