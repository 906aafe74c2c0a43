------------------------------- MODULE MCPool -------------------------------
(* Tasks and sockets are interchangeable: nothing in Pool orders them, and *)
(* only safety properties are checked with this reduction.                 *)
EXTENDS Pool, TLC

Symmetry == Permutations(Tasks) \cup Permutations(Sockets)

=============================================================================
