---------------------------- MODULE MCSettlement ----------------------------
(***************************************************************************)
(* Settlement on a small instance.                                         *)
(***************************************************************************)
EXTENDS Settlement, TLC

CONSTANT Bill   \* the grand total of every order

MCGrandTotal == [type \in OrderType |-> [S \in SUBSET Lines |-> IF S = {} THEN 0 ELSE Bill]]

Symmetry == Permutations(Workers) \cup Permutations(Invoices) \cup Permutations(PaymentIds)
            \cup Permutations(Keys)
=============================================================================
