------------------------------- MODULE Access -------------------------------
(***************************************************************************)
(* AuthService and the two guards.  A login copies the role of the user    *)
(* into a token that is trusted until it expires; only a refresh looks at  *)
(* the row again.  A request takes less than a tick of the clock.          *)
(***************************************************************************)
EXTENDS Integers

CONSTANTS Users,       \* ids of users, each with a staff record
          PinUsers,    \* the users with a pinHash
          Roles,       \* role names
          StaffRole,   \* the role of each user's staff record at first
          RoleGates,   \* for every guarded route, the roles it is restricted to; {}: any
          Devices,     \* clients that log in
          Nobody,      \* no user
          AccessLife,  \* ticks an access token is valid
          RefreshLife, \* ticks a refresh token is valid
          MaxTime      \* bound: ticks of the clock

ASSUME AccessAssumption ==
  /\ Nobody \notin Users /\ PinUsers \subseteq Users
  /\ StaffRole \in [Users -> Roles]
  /\ \A gate \in RoleGates : gate \subseteq Roles
  /\ AccessLife \in Nat \ {0} /\ RefreshLife \in Nat \ {0} /\ MaxTime \in Nat

VARIABLES userRow,   \* User rows, with the role of their staff record
          time,      \* the clock
          login,     \* per device, the row its login or refresh has read
          held,      \* per device, the pair of tokens it holds
          passed,    \* history: the last request the guards let through at this time
          inForce    \* history: when a user was last active with a role

accessVars == <<userRow, time, login, held, passed, inForce>>

NoTokens == [user |-> Nobody, role |-> "UNKNOWN", issued |-> 0]

Tokens == [user: Users \cup {Nobody}, role: Roles \cup {"UNKNOWN"}, issued: 0 .. MaxTime]

Never == -AccessLife

NoRequest == [user |-> Nobody, gate |-> {}]

AccessTypeOK ==
  /\ userRow \in [Users -> [isActive: BOOLEAN, role: Roles]]
  /\ time \in 0 .. MaxTime
  /\ login \in [Devices -> Tokens] /\ held \in [Devices -> Tokens]
  /\ passed \in [user: Users \cup {Nobody}, gate: RoleGates \cup {{}}]
  /\ inForce \in [Users -> [Roles -> {Never} \cup 0 .. MaxTime]]

\* What the rows say at a time, remembered for the life of an access token.
Remembered(rows, now) ==
  [u \in Users |-> [r \in Roles |->
     IF rows[u].isActive /\ rows[u].role = r THEN now
     ELSE IF inForce[u][r] + AccessLife > now THEN inForce[u][r] ELSE Never]]

\* The seed creates every user active.
AccessInit ==
  /\ userRow = [u \in Users |-> [isActive |-> TRUE, role |-> StaffRole[u]]]
  /\ time = 0
  /\ login = [d \in Devices |-> NoTokens]
  /\ held = [d \in Devices |-> NoTokens]
  /\ passed = NoRequest
  /\ inForce = [u \in Users |-> [r \in Roles |-> IF userRow[u].role = r THEN 0 ELSE Never]]

-----------------------------------------------------------------------------
\* Outside the code: an owner changes a row in the database, and time passes.

ChangeUser(u, active, role) ==
  /\ userRow' = [userRow EXCEPT ![u] = [isActive |-> active, role |-> role]]
  /\ inForce' = Remembered(userRow', time)
  /\ UNCHANGED <<time, login, held, passed>>

Tick ==
  /\ time < MaxTime
  /\ \A d \in Devices : login[d] = NoTokens
  /\ time' = time + 1
  /\ passed' = NoRequest
  /\ inForce' = Remembered(userRow, time + 1)
  /\ UNCHANGED <<userRow, login, held>>

-----------------------------------------------------------------------------

\* The payload of generateTokens, from the row that was read.
Payload(u) == [user |-> u, role |-> userRow[u].role, issued |-> time]

ReadRow(d, u) ==
  /\ login[d] = NoTokens
  /\ login' = [login EXCEPT ![d] = Payload(u)]
  /\ UNCHANGED <<userRow, time, held, passed, inForce>>

\* login: the query finds active users only.
Login(d, u) ==
  /\ userRow[u].isActive
  /\ ReadRow(d, u)

\* pinLogin: by staff id, for users with a PIN.
PinLogin(d, u) ==
  /\ userRow[u].isActive
  /\ u \in PinUsers
  /\ ReadRow(d, u)

\* Mutant: the row is not looked at.
HeldTokens(u) == TRUE

\* refreshToken: a user who was deactivated since gets no further token.
StillActive(u) == userRow[u].isActive

Valid(t, life) == t # NoTokens /\ time < t.issued + life

Refresh(d) ==
  /\ Valid(held[d], RefreshLife)
  /\ StillActive(held[d].user)
  /\ ReadRow(d, held[d].user)

\* generateTokens signs what was read; the row may have changed since.
GenerateTokens(d) ==
  /\ login[d] # NoTokens
  /\ held' = [held EXCEPT ![d] = login[d]]
  /\ login' = [login EXCEPT ![d] = NoTokens]
  /\ UNCHANGED <<userRow, time, passed, inForce>>

\* The request for a token fails: the client holds what it held.
LoginFails(d) ==
  /\ login[d] # NoTokens
  /\ login' = [login EXCEPT ![d] = NoTokens]
  /\ UNCHANGED <<userRow, time, held, passed, inForce>>

\* JwtAuthGuard
CanActivate(t) == Valid(t, AccessLife)

\* RolesGuard
HasRole(t, gate) == gate = {} \/ t.role \in gate

GuardedRequest(d, gate) ==
  /\ CanActivate(held[d])
  /\ HasRole(held[d], gate)
  /\ passed' = [user |-> held[d].user, gate |-> gate]
  /\ UNCHANGED <<userRow, time, login, held, inForce>>

AccessNext ==
  \/ \E u \in Users, active \in BOOLEAN, role \in Roles : ChangeUser(u, active, role)
  \/ Tick
  \/ \E d \in Devices, u \in Users : Login(d, u) \/ PinLogin(d, u)
  \/ \E d \in Devices : Refresh(d) \/ GenerateTokens(d) \/ LoginFails(d)
  \/ \E d \in Devices, gate \in RoleGates : GuardedRequest(d, gate)

-----------------------------------------------------------------------------
\* Whoever passes the guards held the rights the route asks for, as an active user, less
\* than the life of an access token ago: neither a deactivation nor a change of role is
\* outlived by more, however often the tokens are refreshed (auth.service.ts:156).
RightsAreRecent ==
  passed # NoRequest =>
    \E r \in IF passed.gate = {} THEN Roles ELSE passed.gate :
      inForce[passed.user][r] + AccessLife > time
=============================================================================
