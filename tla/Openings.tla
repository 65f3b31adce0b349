------------------------------ MODULE Openings ------------------------------
(***************************************************************************)
(* What a delivery link promises, whatever the requests, the codes and the *)
(* clock do: nobody gets inside except by an opening, every opening is     *)
(* counted against the link's limit in the same step, and who is no longer *)
(* inside comes back only by another opening.                              *)
(***************************************************************************)
EXTENDS Integers

CONSTANTS Link, Null

VARIABLES
  limit,    \* how many openings a link allows; 0 before it exists, Null for any
  used,     \* how many were counted
  inside    \* the sessions that would be served

ovars == <<limit, used, inside>>

Init ==
  /\ limit = [l \in Link |-> 0]
  /\ used = [l \in Link |-> 0]
  /\ inside = [l \in Link |-> {}]

\* A link is created with its limit, which never changes.
Offer(l) ==
  /\ limit[l] = 0 /\ used[l] = 0
  /\ limit'[l] \in (Nat \ {0}) \cup {Null}
  /\ limit' = [limit EXCEPT ![l] = limit'[l]]
  /\ UNCHANGED <<used, inside>>

Allowed(l) == limit[l] = Null \/ used[l] < limit[l]

\* An accepted code: one opening, one session.
Enter(l) ==
  /\ Allowed(l)
  /\ used' = [used EXCEPT ![l] = @ + 1]
  /\ \E s \in inside'[l] \ inside[l] :
       inside' = [inside EXCEPT ![l] = @ \cup {s}]
  /\ UNCHANGED limit

\* An opening that was counted and led nowhere.
Lose(l) ==
  /\ Allowed(l)
  /\ used' = [used EXCEPT ![l] = @ + 1]
  /\ UNCHANGED <<limit, inside>>

\* Sessions end: closed, expired, or ended by the administrator.
Leave ==
  /\ \A l \in Link : inside'[l] \subseteq inside[l]
  /\ DOMAIN inside' = Link
  /\ UNCHANGED <<limit, used>>

Next == (\E l \in Link : Offer(l) \/ Enter(l) \/ Lose(l)) \/ Leave

Spec == Init /\ [][Next]_ovars
=============================================================================
