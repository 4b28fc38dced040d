-------------------------- MODULE CashDrawerWindow --------------------------
(***************************************************************************)
(* CashDrawerModal.tsx: a cashier records pay-ins and pay-outs and closes  *)
(* the shift with a count.  The hooks come after the early return of a     *)
(* closed window, so that every opening starts with fresh state.           *)
(***************************************************************************)
EXTENDS BillingRules

CONSTANTS OpeningFloat,    \* openingFloat
          CashSales,       \* currentCashInDrawer
          MovementAmounts, \* amounts typed into the form
          CountedAmounts,  \* amounts typed as the count
          MaxMoved         \* bound: the sum of the pay-ins, and of the pay-outs

ASSUME DrawerAssumption ==
  /\ OpeningFloat \in Nat /\ CashSales \in Nat /\ MaxMoved \in Nat
  /\ MovementAmounts \subseteq Nat /\ CountedAmounts \subseteq Nat

VARIABLES tab,         \* activeTab; "CLOSED": the window is not open
          payIns,
          payOuts,
          txType,
          txAmount,
          countedCash,
          shift,       \* history: the movements recorded since the window was opened
          report       \* history: what the last shift was closed with

drawerVars == <<tab, payIns, payOuts, txType, txAmount, countedCash, shift, report>>

Tabs == {"STATUS", "PAY_IN_OUT", "CLOSE_SHIFT"}
Kinds == {"PAY_IN", "PAY_OUT"}

Report == [payIns: Nat, payOuts: Nat, expectedCash: Int, actualCountedCash: Nat,
           discrepancy: Int, shift: Int]

NoReport == [payIns |-> 0, payOuts |-> 0, expectedCash |-> 0, actualCountedCash |-> 0,
             discrepancy |-> 0, shift |-> 0]

DrawerTypeOK ==
  /\ tab \in Tabs \cup {"CLOSED"}
  /\ payIns \in 0 .. MaxMoved /\ payOuts \in 0 .. MaxMoved
  /\ txType \in Kinds /\ txAmount \in MovementAmounts \cup {0}
  /\ countedCash \in Nat
  /\ shift \in Int
  /\ report \in Report

\* The useState calls of a window that opens: nothing of an earlier one is kept.
FreshWindow ==
  /\ payIns' = 0 /\ payOuts' = 0
  /\ txType' = "PAY_IN" /\ txAmount' = 0
  /\ countedCash' = OpeningFloat + CashSales
  /\ shift' = 0

DrawerInit ==
  /\ tab = "CLOSED"
  /\ payIns = 0 /\ payOuts = 0
  /\ txType = "PAY_IN" /\ txAmount = 0
  /\ countedCash = OpeningFloat + CashSales
  /\ shift = 0
  /\ report = NoReport

-----------------------------------------------------------------------------
\* sessionResult: a pay-out is an expense, a pay-in an adjustment.
Movements == [cashSales |-> CashSales, cashRefunds |-> 0,
              cashExpenses |-> payOuts, cashAdjustments |-> payIns]

\* Mutant: the two kinds are swapped.
SwappedMovements == [cashSales |-> CashSales, cashRefunds |-> 0,
                     cashExpenses |-> payIns, cashAdjustments |-> payOuts]

SessionMovements == Movements

ExpectedCash == ExpectedClosingCash(OpeningFloat, SessionMovements)

Discrepancy == countedCash - ExpectedCash

OpenDrawer ==
  /\ tab = "CLOSED"
  /\ tab' = "STATUS"
  /\ FreshWindow
  /\ UNCHANGED report

\* onClose, of the header, the footer and Escape: what was recorded is forgotten.
CloseDrawer ==
  /\ tab # "CLOSED"
  /\ tab' = "CLOSED"
  /\ FreshWindow
  /\ UNCHANGED report

SetActiveTab(t) ==
  /\ tab # "CLOSED"
  /\ tab' = t
  /\ UNCHANGED <<payIns, payOuts, txType, txAmount, countedCash, shift, report>>

\* The form of the second tab.  Both fields are required.

SetTxType(kind) ==
  /\ tab = "PAY_IN_OUT"
  /\ txType' = kind
  /\ UNCHANGED <<tab, payIns, payOuts, txAmount, countedCash, shift, report>>

SetTxAmount(amount) ==
  /\ tab = "PAY_IN_OUT"
  /\ txAmount' = amount
  /\ UNCHANGED <<tab, payIns, payOuts, txType, countedCash, shift, report>>

\* handleAddTx: the kind stays for the next movement.
HandleAddTx ==
  /\ tab = "PAY_IN_OUT"
  /\ txAmount > 0
  /\ payIns' = payIns + (IF txType = "PAY_IN" THEN txAmount ELSE 0)
  /\ payOuts' = payOuts + (IF txType = "PAY_OUT" THEN txAmount ELSE 0)
  /\ payIns' <= MaxMoved /\ payOuts' <= MaxMoved
  /\ shift' = shift + (IF txType = "PAY_IN" THEN txAmount ELSE -txAmount)
  /\ txAmount' = 0
  /\ tab' = "STATUS"
  /\ UNCHANGED <<txType, countedCash, report>>

SetCountedCash(amount) ==
  /\ tab = "CLOSE_SHIFT"
  /\ countedCash' = amount
  /\ UNCHANGED <<tab, payIns, payOuts, txType, txAmount, shift, report>>

\* handleCloseShift: the page only logs the report.  The count that is offered was filled in
\* when the window opened, before any movement.
HandleCloseShift ==
  /\ tab = "CLOSE_SHIFT"
  /\ report' = [payIns |-> payIns, payOuts |-> payOuts, expectedCash |-> ExpectedCash,
                actualCountedCash |-> countedCash, discrepancy |-> Discrepancy,
                shift |-> shift]
  /\ tab' = "CLOSED"
  /\ FreshWindow

DrawerNext ==
  \/ OpenDrawer
  \/ CloseDrawer
  \/ \E t \in Tabs : SetActiveTab(t)
  \/ \E kind \in Kinds : SetTxType(kind)
  \/ \E amount \in MovementAmounts : SetTxAmount(amount)
  \/ HandleAddTx
  \/ \E amount \in CountedAmounts : SetCountedCash(amount)
  \/ HandleCloseShift

-----------------------------------------------------------------------------
\* What a shift is closed with accounts for every movement recorded since the window opened,
\* in whatever order the tabs were used and the count was made: the discrepancy is the count
\* less float, sales and those movements (CashDrawerModal.tsx:57-94).
ShiftReportAddsUp ==
  report # NoReport =>
    /\ report.payIns - report.payOuts = report.shift
    /\ report.discrepancy =
         report.actualCountedCash - (OpeningFloat + CashSales + report.shift)
=============================================================================
