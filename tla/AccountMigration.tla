--------------------------- MODULE AccountMigration ---------------------------
(***************************************************************************)
(* The rows of the calendar tables and the Google connections they belong  *)
(* to (multiAccountMigration.ts, attachGoogleAccount).  Rows that Qali     *)
(* wrote when it knew one account have no connection; at each start, and   *)
(* after each change of the accounts, they are swept into a detached       *)
(* connection, and each account is attached, has its rows rewritten with   *)
(* its keys, and is audited.                                               *)
(*                                                                         *)
(* The operators here are the mutations, each one transaction, and the     *)
(* pages of the audit; who calls them, and when, is in AccountSync.  A     *)
(* page is a whole table.                                                  *)
(***************************************************************************)
EXTENDS Naturals, Sequences, FiniteSets

CONSTANTS
  Accounts,   \* the stable ids of Google accounts
  Conns,      \* ids for rows of calendarConnections
  Rows,       \* ids for rows of the calendar tables
  Names,      \* provider ids of calendars
  Stages,     \* the tables of the migration in its order, as a sequence
  None        \* an unset optional field

Tables == {"calendars", "events", "recurringSeries", "calendarOperations"}

ASSUME NoneAssumption  == None \notin Accounts \cup Conns \cup Names
ASSUME NameAssumption  == Names # {}
ASSUME StageAssumption == Stages \in Seq(Tables) /\ Len(Stages) > 0

VARIABLES
  connection,  \* calendarConnections of provider google
  row          \* calendars, events, recurringSeries, calendarOperations

tables == <<connection, row>>

\* Legacy is a connection from before there were several accounts.
Connection == [account : Accounts \cup {None},
               state   : {"absent", "legacy", "detached", "claimed", "complete"}]

NoConnection == [account |-> None, state |-> "absent"]

Row == [table : Tables \cup {"none"},
        name  : Names,
        label : Accounts \cup {None},  \* accountId; none, or not of the stable form
        conn  : Conns \cup {None},     \* connectionId
        key   : Accounts \cup {None}]  \* whose keys calendarId and the snapshots hold

Detached  == {c \in Conns : connection[c].state \in {"legacy", "detached"}}
OfAccount(a) == {c \in Conns : connection[c].account = a}
Fresh     == CHOOSE c \in Conns : connection[c].state = "absent"
HasFresh  == \E c \in Conns : connection[c].state = "absent"

Unscoped(r) == row[r].table # "none" /\ row[r].conn = None /\ row[r].label = None

-----------------------------------------------------------------------------
(* attachGoogleAccount: an account has its connection, claims the one that *)
(* nobody has, or gets a new one.                                          *)

Claim(a, c) == [connection EXCEPT ![c] = [account |-> a, state |-> "claimed"]]
Open(a)     == [connection EXCEPT ![Fresh] = [account |-> a, state |-> "complete"]]

Attached(a) ==
  CASE OfAccount(a) # {}         -> connection
    [] OfAccount(a) = {} /\ Cardinality(Detached) = 1 -> Claim(a, CHOOSE c \in Detached : TRUE)
    [] OTHER                     -> Open(a)

\* initializePosition: the rows that nobody has go to the connection that nobody
\* has, a new one if need be.
SweptTo(c) == [connection EXCEPT ![c] = [account |-> None, state |-> "detached"]]

-----------------------------------------------------------------------------
(* migrateLegacyGoogleData: a position is a mode, a connection and a stage. *)

NoPosition == [mode |-> "none", account |-> None, conn |-> None, stage |-> 0]

Position == [mode    : {"none", "detached", "claimed", "audit"},
             account : Accounts \cup {None},
             conn    : Conns \cup {None},
             stage   : 0..Len(Stages)]

At(mode, a, c) == [mode |-> mode, account |-> a, conn |-> c, stage |-> 1]
LastPage(pos)  == pos.stage = Len(Stages)
NextPage(pos)  == [pos EXCEPT !.stage = @ + 1]

OnPage(r, pos) == row[r].table = Stages[pos.stage]

\* belongsToPosition, with belongsToClaimedLegacy
BelongsTo(r, pos) ==
  \/ row[r].conn = pos.conn
  \/ Unscoped(r) /\ (pos.mode = "detached" \/ connection[pos.conn].state = "claimed")
  \/ pos.mode = "claimed" /\ row[r].conn = None /\ row[r].label = pos.account

Moved(r, pos) ==
  IF pos.mode = "detached"
  THEN [row[r] EXCEPT !.conn = pos.conn]
  ELSE [row[r] EXCEPT !.conn = pos.conn, !.key = pos.account,
                      !.label = IF row[r].table = "recurringSeries" THEN @ ELSE pos.account]

MovedRows(pos) ==
  [r \in Rows |-> IF OnPage(r, pos) /\ BelongsTo(r, pos) THEN Moved(r, pos) ELSE row[r]]

\* GOOGLE_CALENDAR_IDENTITY_CONFLICT
Duplicates(pos) ==
  /\ pos.mode = "claimed" /\ Stages[pos.stage] = "calendars"
  /\ \E r, s \in Rows :
       /\ r # s /\ row[r].name = row[s].name
       /\ OnPage(r, pos) /\ OnPage(s, pos)
       /\ BelongsTo(r, pos) /\ BelongsTo(s, pos)

\* An account that is done with the last page is complete, whatever its
\* connection was before.
Completed(pos) ==
  IF pos.mode = "claimed" /\ LastPage(pos)
  THEN [connection EXCEPT ![pos.conn].state = "complete"]
  ELSE connection

-----------------------------------------------------------------------------
(* auditGoogleAccountMigration.                                            *)

\* The rows the audit of a asks about; a recurring series has no account label.
Concerns(r, a, c) ==
  \/ row[r].conn = c
  \/ Unscoped(r)
  \/ row[r].label = a /\ row[r].table # "none"

Proven(r, a, c) == row[r].conn = c /\ row[r].key = a

Violations(pos) ==
  \/ \E r \in Rows : /\ OnPage(r, pos) /\ Concerns(r, pos.account, pos.conn)
                     /\ ~Proven(r, pos.account, pos.conn)
  \/ LastPage(pos) /\ connection[pos.conn].state # "complete"

-----------------------------------------------------------------------------

TablesOK ==
  /\ connection \in [Conns -> Connection]
  /\ row \in [Rows -> Row]

\* What earlier builds may have left: a connection of the one account they knew
\* with its rows, rows without a connection, and rows of a known account.
NoRow == [table |-> "none", name |-> CHOOSE n \in Names : TRUE,
          label |-> None, conn |-> None, key |-> None]

EarlierRows(conns) ==
  {NoRow} \cup
  {x \in [table : {Stages[i] : i \in DOMAIN Stages}, name : Names, label : Accounts \cup {None},
          conn : conns \cup {None}, key : {None}] :
     x.label # None => x.conn = None /\ x.table # "recurringSeries"}

TablesInit ==
  LET legacy == CHOOSE c \in Conns : TRUE IN
  /\ connection \in {[c \in Conns |-> NoConnection],
                     [c \in Conns |-> IF c = legacy THEN [account |-> None, state |-> "legacy"]
                                       ELSE NoConnection]}
  /\ row \in [Rows -> EarlierRows({c \in Conns : connection[c].state = "legacy"})]

\* An older build finishes a write before it is replaced: a row of the
\* single-account form is there at the next start.
LateRow(r, t) ==
  /\ row[r].table = "none"
  /\ \E n \in Names : row' = [row EXCEPT ![r] = [NoRow EXCEPT !.table = t, !.name = n]]
=============================================================================
