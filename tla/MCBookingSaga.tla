---------------------------- MODULE MCBookingSaga ----------------------------
(***************************************************************************)
(* BookingSaga for TLC: model values, their symmetries, and small bounds.  *)
(***************************************************************************)
EXTENDS BookingSaga, TLC

Symmetry == Permutations(Users) \cup Permutations(Seats)
            \cup Permutations(Bookings) \cup Permutations(Confirmers)
=============================================================================
