---------------------------- MODULE MCBookingParts ----------------------------
\* The twelve parts of BookingParts for TLC.
EXTENDS BookingParts

SixEach == [c \in Classes |-> 6]
WantedLists == {<<1, 2>>, <<2, 2>>}
Symmetry == {f @@ g @@ h : f \in Permutations(Users), g \in Permutations(Requests),
                          h \in Permutations(Calls)}
=============================================================================
