----------------------------- MODULE MCDisplays -----------------------------
(* Two displays with pictures of one size at different scales; where both  *)
(* are on, the second is to the left of the main one.                      *)
EXTENDS Displays

At(on, main, mirrors, x) ==
  [on |-> on, main |-> main, mirrors |-> mirrors, x |-> x, y |-> <<0, 1>>,
   width |-> <<1, 2>>, scale |-> <<2, 1>>]

MCLayouts ==
  {At({1}, 1, {}, <<0, 0>>), At({2}, 2, {}, <<0, 0>>),
   At({1, 2}, 1, {}, <<0, -2>>), At({1, 2}, 1, {2}, <<0, 0>>)}
=============================================================================
