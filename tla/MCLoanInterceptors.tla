-------------------------- MODULE MCLoanInterceptors --------------------------
(* The interceptors and flash loans of one collection, on a small instance *)
EXTENDS LoanInterceptors, TLC

CONSTANTS n1, n2, u1, u2, a1, a2, k1

OneToken == {n1}
TwoTokens == {n1, n2}
OneUser == {u1}
TwoUsers == {u1, u2}
TwoAgents == {a1, a2}
OneLocker == {k1}

(* Agents are interchangeable, and so are users and tokens. *)
Symmetry == Permutations(Agents) \cup Permutations(Users)
              \cup Permutations(Tokens)
=============================================================================
