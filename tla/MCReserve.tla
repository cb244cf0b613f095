----------------------------- MODULE MCReserve ------------------------------
(* The reserve on small instances *)
EXTENDS Reserve, TLC

CONSTANTS u1, u2

TwoUsers == {u1, u2}
Symmetry == Permutations(Users)

Factors == {0, 30}
OneFactor == {30}
WholeFactor == {100}
OneAmount == {600}
FewAmounts == {600, 1000}
ActiveAndFrozen == {"active", "frozen"}
None == {}
=============================================================================
