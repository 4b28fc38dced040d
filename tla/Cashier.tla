------------------------------- MODULE Cashier -------------------------------
(***************************************************************************)
(* CashierService: a cash drawer session is opened with a float and closed *)
(* with a count.  Both handlers check what they have read and write later. *)
(***************************************************************************)
EXTENDS BillingRules

CONSTANTS Terminals,  \* requests to this service in flight at a time
          Staff,      \* ids of staff
          Sessions,   \* ids of cash sessions
          NoOne,      \* no staff, no session
          Floats,     \* opening amounts
          Counts      \* amounts counted at closing

ASSUME SessionAssumption == NoOne \notin Staff \cup Sessions
ASSUME CashAssumption == Floats \subseteq Nat /\ Counts \subseteq Nat

VARIABLES opened,     \* ids of the session rows that exist
          session,    \* CashSession rows, with the sums of their CashTransaction rows
          overlapped, \* history: the cashiers of whom a drawer was being opened twice at a time
          till        \* per request in flight, the handler's local variables

cashierVars == <<opened, session, overlapped, till>>

\* What the transactions of a session add up to, by kind.  openSession writes the opening
\* float; no service writes another transaction.
NoCash == [cashSales |-> 0, cashRefunds |-> 0, cashExpenses |-> 0, cashAdjustments |-> 0]

SessionRow == [staffId: Staff \cup {NoOne}, openingCash: Nat, cash: {NoCash}, closed: BOOLEAN,
               closingCash: Nat, expectedClosing: Int, difference: Int]

BlankSession == [staffId |-> NoOne, openingCash |-> 0, cash |-> NoCash, closed |-> FALSE,
                 closingCash |-> 0, expectedClosing |-> 0, difference |-> 0]

TillIdle == [phase |-> "idle", staffId |-> NoOne, sessionId |-> NoOne, amount |-> 0,
             expected |-> 0]

TillJob == [phase: {"idle", "open", "close"}, staffId: Staff \cup {NoOne},
            sessionId: Sessions \cup {NoOne}, amount: Nat, expected: Int]

CashierTypeOK ==
  /\ opened \subseteq Sessions
  /\ session \in [Sessions -> SessionRow]
  /\ overlapped \subseteq Staff
  /\ till \in [Terminals -> TillJob]

CashierInit ==
  /\ opened = {}
  /\ session = [s \in Sessions |-> BlankSession]
  /\ overlapped = {}
  /\ till = [t \in Terminals |-> TillIdle]

-----------------------------------------------------------------------------
\* getActiveSession
ActiveSessions(p) == {s \in opened : session[s].staffId = p /\ ~ session[s].closed}

NewSession(p, float) ==
  [staffId |-> p, openingCash |-> float, cash |-> NoCash, closed |-> FALSE,
   closingCash |-> 0, expectedClosing |-> 0, difference |-> 0]

\* Mutant: an open drawer is not looked for.
MayAlwaysOpen(p) == TRUE

MayOpen(p) == ActiveSessions(p) = {}

\* The requests that have found no open drawer of a cashier and not yet opened one.
Opening(p) == {t \in Terminals : till[t].staffId = p}

OpenRead(t, p, float) ==
  /\ till[t] = TillIdle
  /\ MayOpen(p)
  /\ till' = [till EXCEPT ![t] = [phase |-> "open", staffId |-> p, sessionId |-> NoOne,
                                  amount |-> float, expected |-> 0]]
  /\ overlapped' = IF Opening(p) = {} THEN overlapped ELSE overlapped \cup {p}
  /\ UNCHANGED <<opened, session>>

OpenCommit(t, s) ==
  /\ till[t].phase = "open"
  /\ s \in Sessions \ opened
  /\ opened' = opened \cup {s}
  /\ session' = [session EXCEPT ![s] = NewSession(till[t].staffId, till[t].amount)]
  /\ till' = [till EXCEPT ![t] = TillIdle]
  /\ UNCHANGED overlapped

Closable(s) == ~ session[s].closed

\* The expected amount follows from the transactions read here.
CloseRead(t, s, counted) ==
  /\ till[t] = TillIdle
  /\ s \in opened
  /\ Closable(s)
  /\ till' = [till EXCEPT ![t] =
                [phase |-> "close", staffId |-> NoOne, sessionId |-> s, amount |-> counted,
                 expected |-> ExpectedClosingCash(session[s].openingCash, session[s].cash)]]
  /\ UNCHANGED <<opened, session, overlapped>>

ClosedWith(row, counted, expected) ==
  [staffId |-> row.staffId, openingCash |-> row.openingCash, cash |-> row.cash,
   closed |-> TRUE, closingCash |-> counted, expectedClosing |-> expected,
   difference |-> counted - expected]

CloseCommit(t) ==
  LET job == till[t] IN
  /\ job.phase = "close"
  /\ session' = [session EXCEPT ![job.sessionId] = ClosedWith(@, job.amount, job.expected)]
  /\ till' = [till EXCEPT ![t] = TillIdle]
  /\ UNCHANGED <<opened, overlapped>>

TillAbort(t) ==
  /\ till[t].phase # "idle"
  /\ till' = [till EXCEPT ![t] = TillIdle]
  /\ UNCHANGED <<opened, session, overlapped>>

CashierNext(t) ==
  \/ \E p \in Staff, f \in Floats : OpenRead(t, p, f)
  \/ \E s \in Sessions : OpenCommit(t, s)
  \/ \E s \in Sessions, n \in Counts : CloseRead(t, s, n)
  \/ CloseCommit(t)
  \/ TillAbort(t)

-----------------------------------------------------------------------------
\* However the requests of the house interleave, a cashier has at most one open drawer, as
\* long as no two requests were opening a drawer of that cashier at the same time: closing a
\* drawer, failing, and whatever is done for other cashiers never makes a second one
\* (cashier.service.ts:26-31, whose check is outside the insert).
OneOpenDrawer ==
  \A p \in Staff \ overlapped : \A r, s \in ActiveSessions(p) : r = s
=============================================================================
