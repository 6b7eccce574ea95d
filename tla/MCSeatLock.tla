------------------------------ MODULE MCSeatLock ------------------------------
(***************************************************************************)
(* SeatLock for TLC: model values, their symmetries, and small bounds.     *)
(***************************************************************************)
EXTENDS SeatLock, TLC

Symmetry == Permutations(Users) \cup Permutations(Requests)
=============================================================================
