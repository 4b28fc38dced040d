---------------------------- MODULE TenderLedger ----------------------------
(***************************************************************************)
(* What the payment services promise of the money, without rows, requests  *)
(* or interleavings: per bill, what the customers tendered and what the    *)
(* bill is credited with.                                                  *)
(***************************************************************************)
EXTENDS Integers

CONSTANT Bills

VARIABLES tendered, credited

ledger == <<tendered, credited>>

Init == tendered = [b \in Bills |-> 0] /\ credited = [b \in Bills |-> 0]

\* Some amount is tendered on b, and nothing happens to the other bills.
Tender(b) ==
  /\ tendered' \in [Bills -> Nat]
  /\ tendered'[b] > tendered[b]
  /\ \A c \in Bills \ {b} : tendered'[c] = tendered[c] /\ credited'[c] = credited[c]

\* The promise that survives every interleaving: credit is backed by what was tendered.
BackedStep == \E b \in Bills : Tender(b) /\ credited'[b] \in 0 .. tendered'[b]

BackedSpec == Init /\ [][BackedStep]_ledger

\* The promise to one user: every amount is credited, once.
ExactStep ==
  \E b \in Bills : Tender(b) /\ credited'[b] - credited[b] = tendered'[b] - tendered[b]

ExactSpec == Init /\ [][ExactStep]_ledger
=============================================================================
