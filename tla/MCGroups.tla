------------------------------ MODULE MCGroups ------------------------------
(* Groups on small sets. *)
EXTENDS Groups

CONSTANTS a1, u1, e1, e2, en, pl

L(e, l, s) == [email |-> e, lang |-> l, aside |-> s]
R(e, l) == [email |-> e, lang |-> l]

\* A line with another person's address in the name, one with a language, and one that
\* cannot be read; a group with both people, each in a language of its own.
MCTyped == {L(e1, None, {e2}), L(e2, pl, {}), L(e2, "?", {})}
MCGroups0 == {<<R(e1, pl), R(e2, en)>>}
=============================================================================
