------------------------------ MODULE AccountSync ------------------------------
(***************************************************************************)
(* The Google accounts of the desktop process: the requests of the user    *)
(* that connect, reconnect and disconnect them (router.ts), the            *)
(* reconciliation that proves the rows of each account before its worker   *)
(* may run (index.ts, account-reconciliation.ts), and the supervisor's map *)
(* of workers (sync-supervisor.ts).                                        *)
(*                                                                         *)
(* JavaScript runs to the next await without interruption: a step of a     *)
(* flow, which is a request or the startup, goes from one await to the     *)
(* next, and flows interleave there.  The OAuth broker means to serve one  *)
(* request at a time and lets go of it before the reconciliation, so that  *)
(* reconciliations overlap.                                                *)
(***************************************************************************)
EXTENDS AccountMigration

CONSTANTS
  Flows,        \* handler calls at a time
  Budget        \* requests of the user, calls that fail, starts and stops, in all

ASSUME FlowAssumption == Flows # {} /\ None \notin Flows
ASSUME BudgetAssumption == Budget \in Nat

VARIABLES
  keychain,  \* the accounts with stored credentials
  app,       \* the phase of the program, what the OAuth broker is busy with, the budget
  flow,      \* the flows
  ready,     \* readyGoogleAccountIds
  sup,       \* #refreshGeneration of the supervisor
  worker,    \* #workers, by account
  lapsed     \* history: the accounts with a request that failed since the last
             \* sign-in that succeeded

live == <<app, flow, ready, sup, worker, lapsed>>
vars == <<tables, keychain, live>>

NoFlow == [at |-> "idle", kind |-> "none", account |-> None, ids |-> {}, todo |-> {},
           pos |-> NoPosition, generation |-> 0, rest |-> {}]

Flow == [at         : {"idle", "connecting", "disconnecting", "clearing", "reading", "sweeping",
                       "verifying", "migrating", "auditing", "listed", "removing", "reconciled"},
         kind       : {"none", "startup", "connect", "disconnect"},
         account    : Accounts \cup {None},
         ids        : SUBSET Accounts,    \* the identities read, then those listed
         todo       : SUBSET Accounts,    \* identities still to be verified
         pos        : Position,
         generation : Nat,
         rest       : SUBSET Accounts]    \* workers still to be removed

\* A worker runs from its start, or from a wakeup; asleep is #draining.
Worker == [here   : BOOLEAN,   \* the map has it
           timer  : BOOLEAN,   \* startTimer is set
           runs   : BOOLEAN,
           asleep : BOOLEAN]

NoWorker == [here |-> FALSE, timer |-> FALSE, runs |-> FALSE, asleep |-> FALSE]

TypeOK ==
  /\ TablesOK
  /\ keychain \subseteq Accounts /\ ready \subseteq Accounts /\ lapsed \subseteq Accounts
  /\ app \in [phase : {"off", "starting", "up", "revoked", "stopped"},
              connecting : BOOLEAN, disconnecting : BOOLEAN, spent : 0..Budget]
  /\ flow \in [Flows -> Flow]
  /\ sup \in Nat
  /\ worker \in [Accounts -> Worker]
  /\ app.connecting <=> \E f \in Flows : flow[f].at = "connecting"
  /\ app.disconnecting => \E f \in Flows : flow[f].at \in {"disconnecting", "clearing"}
  /\ \A a \in Accounts : ~worker[a].here => worker[a] = NoWorker

Here      == {a \in Accounts : worker[a].here}
Idle(f)   == flow[f].at = "idle"
Accepting == app.phase = "up"

Lapsed(f) == lapsed' = lapsed \cup ({flow[f].account} \ {None})

-----------------------------------------------------------------------------
(* The handlers of router.ts up to the OAuth broker, which refuses a       *)
(* request while it is busy.                                               *)

Busy == app.connecting \/ app.disconnecting

Taken(kind) == IF kind = "connect" THEN [app EXCEPT !.connecting = TRUE]
                                   ELSE [app EXCEPT !.disconnecting = TRUE]

Requested(f, kind, a, at) ==
  /\ Accepting /\ Idle(f) /\ ~Busy /\ app.spent < Budget
  /\ flow' = [flow EXCEPT ![f] = [NoFlow EXCEPT !.at = at, !.kind = kind, !.account = a]]
  /\ app' = [Taken(kind) EXCEPT !.spent = @ + 1]
  /\ UNCHANGED <<tables, keychain, ready, sup, worker, lapsed>>

\* add and reconnect: an account that is connected signs in again.
RequestsConnect(f, a)    == Requested(f, "connect", a, "connecting")
RequestsDisconnect(f, a) == a \in keychain /\ Requested(f, "disconnect", a, "disconnecting")

\* A disconnect that is refused clears the flag of one that is under way.
RefusesDisconnect ==
  /\ Accepting /\ Busy /\ (\E f \in Flows : Idle(f)) /\ app.spent < Budget
  /\ app' = [app EXCEPT !.disconnecting = FALSE, !.spent = @ + 1]
  /\ UNCHANGED <<tables, keychain, flow, ready, sup, worker, lapsed>>

\* A request that fails leaves it at that; the user may cancel a sign-in, and a
\* startup that fails ends the program.
Refused(f) ==
  /\ flow' = [flow EXCEPT ![f] = NoFlow]
  /\ Lapsed(f)

Goes(f, at) == flow' = [flow EXCEPT ![f].at = at]

Freed(f) == IF flow[f].kind = "connect" THEN [app EXCEPT !.connecting = FALSE]
                                        ELSE [app EXCEPT !.disconnecting = FALSE]

\* The credentials are stored, the broker is free, and the reconciliation begins
\* unless the handlers have been revoked (requireAvailable).
Reconciles(f) ==
  /\ app' = Freed(f)
  /\ IF Accepting THEN Goes(f, "reading") /\ UNCHANGED lapsed ELSE Refused(f)

Connects(f) ==
  /\ flow[f].at = "connecting"
  /\ keychain' = keychain \cup {flow[f].account}
  /\ Reconciles(f)
  /\ UNCHANGED <<tables, ready, sup, worker>>

\* The sign-in fails or is cancelled, or the user keeps the account: nothing has
\* happened yet.
Declines(f) ==
  /\ flow[f].at \in {"connecting", "disconnecting"}
  /\ app' = Freed(f)
  /\ Refused(f)
  /\ UNCHANGED <<tables, keychain, ready, sup, worker>>

\* supervisor.drain(account): the worker's start is cancelled and it is put to
\* sleep; the disconnect waits for its cycle, which has a bound.
Drained(a) ==
  IF worker[a].here THEN [worker EXCEPT ![a].timer = FALSE, ![a].asleep = TRUE] ELSE worker

Drains(f) ==
  /\ flow[f].at = "disconnecting"
  /\ worker' = Drained(flow[f].account)
  /\ Goes(f, "clearing")
  /\ UNCHANGED <<tables, keychain, app, ready, sup, lapsed>>

Clears(f) ==
  /\ flow[f].at = "clearing"
  /\ keychain' = keychain \ {flow[f].account}
  /\ Reconciles(f)
  /\ UNCHANGED <<tables, ready, sup, worker>>

ClearFails(f) ==
  /\ flow[f].at = "clearing" /\ app.spent < Budget
  /\ app' = [Freed(f) EXCEPT !.spent = @ + 1]
  /\ Refused(f)
  /\ UNCHANGED <<tables, keychain, ready, sup, worker>>

-----------------------------------------------------------------------------
(* reconcileGoogleAccounts: verifyGoogleAccounts proves one identity after *)
(* the other, in the order of the keychain's slots, which may be any.      *)

Off == [app EXCEPT !.phase = "off", !.connecting = FALSE, !.disconnecting = FALSE]

\* A startup that fails ends the program.
Fails(f) ==
  /\ IF flow[f].kind = "startup"
     THEN /\ app' = Off
          /\ flow' = [g \in Flows |-> NoFlow]
          /\ UNCHANGED lapsed
     ELSE /\ Refused(f)
          /\ UNCHANGED app
  /\ UNCHANGED <<tables, keychain, ready, sup, worker>>

Reads(f) ==
  /\ flow[f].at = "reading"
  /\ flow' = [flow EXCEPT ![f].at = "sweeping", ![f].ids = keychain, ![f].todo = keychain]
  /\ UNCHANGED <<tables, keychain, app, ready, sup, worker, lapsed>>

\* The page of pos has been done.
TurnsPage(f, pos, next) ==
  flow' = [flow EXCEPT ![f].at  = IF LastPage(pos) THEN next ELSE @,
                       ![f].pos = IF LastPage(pos) THEN NoPosition ELSE NextPage(pos)]

\* The first call of the sweep finds or makes the connection, and does a page.
SweepBegins(f) ==
  /\ flow[f].at = "sweeping" /\ flow[f].pos = NoPosition
  /\ IF Detached = {} /\ \A r \in Rows : ~Unscoped(r)
     THEN /\ Goes(f, "verifying")
          /\ UNCHANGED tables
     ELSE \E c \in Conns :
          /\ \/ Detached = {c}
             \/ Detached = {} /\ HasFresh /\ c = Fresh
          /\ connection' = SweptTo(c)
          /\ row' = MovedRows(At("detached", None, c))
          /\ TurnsPage(f, At("detached", None, c), "verifying")
  /\ UNCHANGED <<keychain, app, ready, sup, worker, lapsed>>

Sweeps(f) ==
  /\ flow[f].at = "sweeping" /\ flow[f].pos # NoPosition
  /\ row' = MovedRows(flow[f].pos)
  /\ TurnsPage(f, flow[f].pos, "verifying")
  /\ UNCHANGED <<connection, keychain, app, ready, sup, worker, lapsed>>

\* Mutant: an account whose connection is complete is taken as proven.
AttachesTrusting(f, a) ==
  /\ flow[f].at = "verifying" /\ a \in flow[f].todo
  /\ OfAccount(a) = {} /\ Detached = {} => HasFresh
  /\ connection' = Attached(a)
  /\ \E c \in Conns :
       /\ connection'[c].account = a
       /\ flow' = IF connection'[c].state = "complete"
                  THEN [flow EXCEPT ![f].todo = @ \ {a}]
                  ELSE [flow EXCEPT ![f].at = "migrating", ![f].pos = At("claimed", a, c)]
  /\ UNCHANGED <<row, keychain, app, ready, sup, worker, lapsed>>

Attaches(f, a) ==
  /\ flow[f].at = "verifying" /\ a \in flow[f].todo
  /\ OfAccount(a) = {} /\ Detached = {} => HasFresh
  /\ connection' = Attached(a)
  /\ \E c \in Conns :
       /\ connection'[c].account = a
       /\ flow' = [flow EXCEPT ![f].at = "migrating", ![f].pos = At("claimed", a, c)]
  /\ UNCHANGED <<row, keychain, app, ready, sup, worker, lapsed>>

\* Also when the account has been complete before: its rows are looked at again.
Migrates(f) ==
  LET pos == flow[f].pos IN
  /\ flow[f].at = "migrating" /\ ~Duplicates(pos)
  /\ row' = MovedRows(pos)
  /\ connection' = Completed(pos)
  /\ flow' = [flow EXCEPT ![f].at  = IF LastPage(pos) THEN "auditing" ELSE @,
                          ![f].pos = IF LastPage(pos) THEN At("audit", pos.account, pos.conn)
                                     ELSE NextPage(pos)]
  /\ UNCHANGED <<keychain, app, ready, sup, worker, lapsed>>

MigrationFails(f) == flow[f].at = "migrating" /\ Duplicates(flow[f].pos) /\ Fails(f)

Audits(f) ==
  LET pos == flow[f].pos IN
  /\ flow[f].at = "auditing"
  /\ IF Violations(pos)
     THEN Fails(f)
     ELSE /\ flow' = [flow EXCEPT ![f].at   = IF LastPage(pos) THEN "verifying" ELSE @,
                                  ![f].pos  = IF LastPage(pos) THEN NoPosition ELSE NextPage(pos),
                                  ![f].todo = IF LastPage(pos) THEN @ \ {pos.account} ELSE @]
          /\ UNCHANGED <<tables, keychain, app, ready, sup, worker, lapsed>>

\* A call of the keychain or of local Convex fails.
CallFails(f) ==
  /\ flow[f].at \in {"reading", "sweeping", "verifying", "migrating", "auditing"}
  /\ app.spent < Budget
  /\ IF flow[f].kind = "startup"
     THEN /\ app' = [Off EXCEPT !.spent = @ + 1]
          /\ flow' = [g \in Flows |-> NoFlow]
          /\ UNCHANGED lapsed
     ELSE /\ Refused(f)
          /\ app' = [app EXCEPT !.spent = @ + 1]
  /\ UNCHANGED <<tables, keychain, ready, sup, worker>>

\* readyGoogleAccountIds is replaced, and refreshAccounts counts its generation
\* and lists the accounts in the same breath.
Exposes(f) ==
  /\ flow[f].at = "verifying" /\ flow[f].todo = {}
  /\ ready' = flow[f].ids
  /\ sup' = sup + 1
  /\ flow' = [flow EXCEPT ![f].at = "listed", ![f].generation = sup + 1]
  /\ UNCHANGED <<tables, keychain, app, worker, lapsed>>

-----------------------------------------------------------------------------
(* refreshAccounts after the accounts are listed: the workers that are not *)
(* wanted leave the map one by one, each drained and stopped before the    *)
(* next; then the new ones come, the first at once, the others after a     *)
(* delay.  A refresh that has been overtaken stops.                        *)

\* Mutant: an older refresh goes on.
NeverOvertaken(f) == flow[f].generation > sup
Overtaken(f) == flow[f].generation # sup

Started(x) == [here |-> TRUE, timer |-> ~x, runs |-> x, asleep |-> FALSE]

Refreshed(f) ==
  LET added == flow[f].ids \ Here IN
  /\ \E first \in IF added = {} THEN {None} ELSE added :
       worker' = [a \in Accounts |-> IF a \in added THEN Started(a = first) ELSE worker[a]]
  /\ Goes(f, "reconciled")

Removes(f, rest) ==
  \E a \in rest :
    /\ worker' = [worker EXCEPT ![a] = NoWorker]
    /\ flow' = [flow EXCEPT ![f].at = "removing", ![f].rest = rest \ {a}]

Applies(f, rest) ==
  CASE Overtaken(f)                -> Goes(f, "reconciled") /\ UNCHANGED worker
    [] ~Overtaken(f) /\ rest = {}  -> Refreshed(f)
    [] ~Overtaken(f) /\ rest # {}  -> Removes(f, rest)

RefreshAccounts(f) ==
  /\ \/ flow[f].at = "listed" /\ Applies(f, Here \ flow[f].ids)
     \/ flow[f].at = "removing" /\ Applies(f, flow[f].rest \cap Here)
  /\ UNCHANGED <<tables, keychain, app, ready, sup, lapsed>>

StartTimerFires(a) ==
  /\ worker[a].timer
  /\ worker' = [worker EXCEPT ![a].timer = FALSE, ![a].runs = TRUE]
  /\ UNCHANGED <<tables, keychain, app, flow, ready, sup, lapsed>>

\* Mutant: a drain is for good.
WokenAsleep(a) ==
  IF worker[a].here THEN [worker EXCEPT ![a].runs = TRUE] ELSE worker

\* wake("connection") ends a drain.
Woken(a) ==
  IF worker[a].here THEN [worker EXCEPT ![a].runs = TRUE, ![a].asleep = FALSE] ELSE worker

\* The request publishes the accounts, wakes the one it has connected, and ends.
Ends(f) ==
  /\ flow[f].at = "reconciled" /\ flow[f].kind # "startup"
  /\ IF Accepting
     THEN /\ flow' = [flow EXCEPT ![f] = NoFlow]
          /\ IF flow[f].kind = "connect"
             THEN worker' = Woken(flow[f].account) /\ lapsed' = lapsed \ {flow[f].account}
             ELSE UNCHANGED <<worker, lapsed>>
     ELSE Refused(f) /\ UNCHANGED worker
  /\ UNCHANGED <<tables, keychain, app, ready, sup>>

-----------------------------------------------------------------------------
(* The program starts, stops in order (the handlers are revoked and waited *)
(* for, then the supervisor stops), or is killed.                          *)

Boots ==
  /\ app.phase = "off" /\ app.spent < Budget
  /\ app' = [app EXCEPT !.phase = "starting", !.spent = @ + 1]
  /\ \E f \in Flows :
       flow' = [flow EXCEPT ![f] = [NoFlow EXCEPT !.at = "reading", !.kind = "startup"]]
  /\ \/ UNCHANGED row
     \/ \E r \in Rows, i \in DOMAIN Stages : LateRow(r, Stages[i])
  /\ UNCHANGED <<connection, keychain, ready, sup, worker, lapsed>>

Opens(f) ==
  /\ flow[f].at = "reconciled" /\ flow[f].kind = "startup"
  /\ app' = [app EXCEPT !.phase = "up"]
  /\ flow' = [flow EXCEPT ![f] = NoFlow]
  /\ UNCHANGED <<tables, keychain, ready, sup, worker, lapsed>>

Revokes ==
  /\ app.phase = "up" /\ app.spent < Budget
  /\ app' = [app EXCEPT !.phase = "revoked", !.spent = @ + 1]
  /\ UNCHANGED <<tables, keychain, flow, ready, sup, worker, lapsed>>

Disposed == \A f \in Flows : Idle(f)

Stops ==
  /\ app.phase = "revoked" /\ Disposed
  /\ app' = [app EXCEPT !.phase = "stopped"]
  /\ sup' = sup + 1
  /\ worker' = [a \in Accounts |-> NoWorker]
  /\ UNCHANGED <<tables, keychain, flow, ready, lapsed>>

Killed ==
  /\ app.phase # "off"
  /\ app' = Off
  /\ flow' = [f \in Flows |-> NoFlow]
  /\ ready' = {} /\ sup' = 0 /\ lapsed' = {}
  /\ worker' = [a \in Accounts |-> NoWorker]
  /\ UNCHANGED <<tables, keychain>>

-----------------------------------------------------------------------------

Init ==
  /\ TablesInit
  /\ keychain \in SUBSET Accounts
  /\ app = [phase |-> "off", connecting |-> FALSE, disconnecting |-> FALSE, spent |-> 0]
  /\ flow = [f \in Flows |-> NoFlow]
  /\ ready = {} /\ sup = 0 /\ lapsed = {}
  /\ worker = [a \in Accounts |-> NoWorker]

Request(f) ==
  \/ \E a \in Accounts : RequestsConnect(f, a) \/ RequestsDisconnect(f, a)
  \/ Connects(f) \/ Declines(f) \/ Drains(f) \/ Clears(f) \/ ClearFails(f)

Reconcile(f) ==
  \/ Reads(f) \/ SweepBegins(f) \/ Sweeps(f)
  \/ \E a \in Accounts : Attaches(f, a)
  \/ Migrates(f) \/ MigrationFails(f) \/ Audits(f)
  \/ CallFails(f) \/ Exposes(f) \/ RefreshAccounts(f) \/ Ends(f) \/ Opens(f)

Next ==
  \/ \E f \in Flows : Request(f) \/ Reconcile(f)
  \/ RefusesDisconnect
  \/ \E a \in Accounts : StartTimerFires(a)
  \/ Boots \/ Revokes \/ Stops \/ Killed

Spec == Init /\ [][Next]_vars

-----------------------------------------------------------------------------
(* Properties.                                                             *)

Running(f) == flow[f].at \in {"listed", "removing"} /\ ~Overtaken(f)

\* The latest of overlapping refreshes wins: when it is done, exactly the ready
\* accounts have a worker, whatever older refreshes were doing; and once the
\* program has stopped in order nothing is left of any of them.
WorkersFollowReady ==
  /\ app.phase \in {"starting", "up", "revoked"} /\ (\A f \in Flows : ~Running(f)) => Here = ready
  /\ app.phase \in {"off", "stopped"} => Here = {} /\ \A f \in Flows : Idle(f)

\* An account is not exposed before its rows are proven, and stays proven then:
\* its connection is complete, has only rows under its own keys, and has all of
\* them, whatever a kill, a late row or an overlapping reconciliation left half done.
ExposedIsProven ==
  \A a \in ready : \E c \in OfAccount(a) :
    /\ connection[c].state = "complete"
    /\ \A r \in Rows : row[r].conn = c \/ row[r].label = a => Proven(r, a, c)

\* When the user's requests are over and the last identities exposed are those of
\* the keychain, every connected account has a worker that is awake or about to be
\* started, and no other has one; but that the worker of an account with a request
\* that failed, and no sign-in that succeeded since, may be left asleep.
AccountsServed ==
  app.phase = "up" /\ (\A f \in Flows : Idle(f)) /\ ready = keychain =>
    \A a \in Accounts :
      /\ worker[a].here <=> a \in keychain
      /\ worker[a].here /\ a \notin lapsed =>
           ~worker[a].asleep /\ (worker[a].runs \/ worker[a].timer)
=============================================================================
