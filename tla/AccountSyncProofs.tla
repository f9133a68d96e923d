--------------------------- MODULE AccountSyncProofs ---------------------------
(***************************************************************************)
(* Proofs about AccountSync, for any accounts, connections, rows, handler  *)
(* calls and tables of the migration.                                      *)
(***************************************************************************)
EXTENDS AccountSync, FiniteSetTheorems, TLAPS

\* A reconciliation that has not exposed its identities yet.
Working(f) == flow[f].at \in {"reading", "sweeping", "verifying", "migrating", "auditing"}

Refreshing(f) == flow[f].at \in {"listed", "removing"}

\* A sign-in that is stored, but not yet published.
WillWake(f, a) ==
  /\ flow[f].kind = "connect" /\ flow[f].account = a
  /\ flow[f].at \in {"reading", "sweeping", "verifying", "migrating", "auditing",
                     "listed", "removing", "reconciled"}

\* The requests and the startup, and the phases in which there are any.
FlowOK(f) ==
  /\ flow[f].at # "idle" => /\ flow[f].kind # "none"
                            /\ flow[f].kind = "startup" <=> app.phase = "starting"
                            /\ app.phase \notin {"off", "stopped"}
  /\ flow[f].at # "idle" /\ flow[f].kind # "startup" => flow[f].account \in Accounts
  /\ flow[f].at = "connecting" => flow[f].kind = "connect"
  /\ flow[f].at \in {"disconnecting", "clearing"} => flow[f].kind = "disconnect"
  /\ app.phase = "starting" /\ Working(f) => ready = {} /\ Here = {}

PhaseOK ==
  /\ app.phase = "off" => ready = {}
  /\ app.phase \in {"off", "stopped"} => Here = {}
  /\ \A f, g \in Flows : flow[f].at = "connecting" /\ flow[g].at = "connecting" => f = g
  /\ app.phase = "starting" =>
       \A f, g \in Flows : flow[f].at # "idle" /\ flow[g].at # "idle" => f = g

ControlOK == TypeOK /\ PhaseOK /\ \A f \in Flows : FlowOK(f)

\* Of the refreshes under way one at most is the latest; what it has still to remove is all
\* that is in its way.
RefreshOK ==
  /\ \A f \in Flows : Refreshing(f) => flow[f].generation <= sup
  /\ \A f, g \in Flows : Running(f) /\ Running(g) => f = g
  /\ \A f \in Flows : Running(f) => ready = flow[f].ids
  /\ \A f \in Flows : Running(f) /\ flow[f].at = "removing" => Here \ flow[f].ids \subseteq flow[f].rest
  /\ app.phase \in {"starting", "up", "revoked"} /\ (\A f \in Flows : ~Running(f)) => Here = ready

\* A worker that sleeps is woken by a request under way, or its account is on its way out.
Excused(a) ==
  \/ a \in lapsed \/ a \notin keychain
  \/ \E f \in Flows : WillWake(f, a)
  \/ \E f \in Flows : flow[f].at = "clearing" /\ flow[f].account = a

SleepOK(a) ==
  worker[a].here => IF worker[a].asleep THEN Excused(a) ELSE worker[a].runs \/ worker[a].timer

-----------------------------------------------------------------------------
(* The tables. *)

StageTables(n) == {Stages[i] : i \in 1..n}

AllScoped == \A r \in Rows : ~Unscoped(r)

\* The rows of the first n tables of the migration that are under a's connection c, or
\* bear a's label, are proven.
Audited(a, c, n) ==
  \A r \in Rows : row[r].table \in StageTables(n) /\ (row[r].conn = c \/ row[r].label = a)
                  => Proven(r, a, c)

AccountProven(a) ==
  \E c \in Conns : /\ connection[c].account = a /\ connection[c].state = "complete"
                   /\ \A r \in Rows : row[r].conn = c \/ row[r].label = a => Proven(r, a, c)

ConnectionsOK ==
  /\ \A c \in Conns : connection[c].account = None
                        <=> connection[c].state \in {"absent", "legacy", "detached"}
  /\ \A c, d \in Conns : connection[c].account = connection[d].account
                           /\ connection[c].account # None => c = d
  /\ \A c, d \in Detached : c = d

RowOK(r) ==
  /\ row[r].table \in StageTables(Len(Stages)) \cup {"none"}
  /\ row[r].table = "none" => row[r].conn = None /\ row[r].label = None
  /\ row[r].table = "recurringSeries" => row[r].label = None

\* Where a reconciliation stands in its sweep: the rows of the tables it has done have a
\* connection, and it moves no row of an account.
SweptOK(pos) ==
  /\ pos.mode = "detached" /\ pos.conn \in Conns /\ pos.stage \in 1..Len(Stages)
  /\ \A r \in Rows : Unscoped(r) => row[r].table \notin StageTables(pos.stage - 1)
  /\ connection[pos.conn].account # None => AllScoped

\* Where it stands with an account.
PlacedOK(pos) ==
  /\ pos.account \in Accounts /\ pos.conn \in Conns /\ pos.stage \in 1..Len(Stages)
  /\ connection[pos.conn].account = pos.account

PositionOK(f) ==
  LET at  == flow[f].at
      pos == flow[f].pos IN
  /\ at \in {"connecting", "disconnecting", "clearing", "reading"} => pos = NoPosition
  /\ at = "sweeping" => pos = NoPosition \/ SweptOK(pos)
  /\ at = "migrating" => pos.mode = "claimed" /\ PlacedOK(pos)
  /\ at = "auditing" => /\ pos.mode = "audit" /\ PlacedOK(pos)
                        /\ Audited(pos.account, pos.conn, pos.stage - 1)
  /\ at \in {"verifying", "migrating", "auditing"} => AllScoped
  /\ at \in {"sweeping", "verifying", "migrating", "auditing"} =>
       \A a \in flow[f].ids \ flow[f].todo : AccountProven(a)

TablesInv ==
  /\ ConnectionsOK
  /\ \A r \in Rows : RowOK(r)
  /\ \A f \in Flows : PositionOK(f)
  /\ \A a \in ready : AccountProven(a)

ServedOK == \A a \in Accounts : SleepOK(a)

IInv == ControlOK /\ RefreshOK /\ ServedOK /\ TablesInv

-----------------------------------------------------------------------------
(* Type correctness and the phases. *)

AppState == [phase : {"off", "starting", "up", "revoked", "stopped"},
             connecting : BOOLEAN, disconnecting : BOOLEAN, spent : 0..Budget]

WorkerOK(w) == w \in Worker /\ (~w.here => w = NoWorker)

LEMMA NoFlowTyped == NoFlow \in Flow /\ NoFlow.at = "idle" /\ NoFlow.kind = "none"
                     /\ NoFlow.account = None /\ NoPosition \in Position
<1>1. Len(Stages) \in Nat
  BY StageAssumption
<1> QED
  BY <1>1 DEF NoFlow, Flow, NoPosition, Position

\* One flow f takes a step.
LEMMA FlowStep ==
  ASSUME ControlOK, NEW f \in Flows, NEW x \in Flow, flow' = [flow EXCEPT ![f] = x],
         TablesOK', keychain' \subseteq Accounts, ready' \subseteq Accounts,
         lapsed' \subseteq Accounts, sup' \in Nat,
         worker' \in [Accounts -> Worker], \A a \in Accounts : WorkerOK(worker'[a]),
         app' \in AppState, app'.phase = app.phase,
         app'.connecting <=> \E g \in Flows : flow'[g].at = "connecting",
         app'.disconnecting => \E g \in Flows : flow'[g].at \in {"disconnecting", "clearing"},
         x.at = "connecting" => \A g \in Flows \ {f} : flow[g].at # "connecting",
         x.at # "idle" /\ flow[f].at = "idle" => app.phase = "up",
         (ready' = ready /\ Here' = Here) \/ flow[f].at # "idle",
         FlowOK(f)'
  PROVE  ControlOK'
<1>1. flow' \in [Flows -> Flow] /\ flow'[f] = x /\ \A g \in Flows \ {f} : flow'[g] = flow[g]
  BY DEF ControlOK, TypeOK
<1>2. TypeOK'
  BY <1>1 DEF TypeOK, AppState, WorkerOK
<1>3. PhaseOK'
  <2>1. /\ \A g, h \in Flows : flow'[g].at = "connecting" /\ flow'[h].at = "connecting" => g = h
        /\ app'.phase = "starting" =>
             \A g, h \in Flows : flow'[g].at # "idle" /\ flow'[h].at # "idle" => g = h
    BY <1>1 DEF ControlOK, PhaseOK
  <2>2. app.phase \in {"off", "stopped"} => ready' = ready /\ Here' = Here
    BY DEF ControlOK, FlowOK
  <2> QED
    BY <2>1, <2>2 DEF ControlOK, PhaseOK
<1>4. ASSUME NEW g \in Flows, g # f PROVE FlowOK(g)'
  <2>1. flow'[g] = flow[g]
    BY <1>1, <1>4
  <2>2. app.phase = "starting" /\ flow[g].at # "idle" => ready' = ready /\ Here' = Here
    BY <1>4 DEF ControlOK, PhaseOK
  <2> QED
    BY <2>1, <2>2 DEF ControlOK, FlowOK, Working
<1> QED
  BY <1>2, <1>3, <1>4 DEF ControlOK

LEMMA MovedTyped ==
  ASSUME TablesOK, NEW pos \in Position
  PROVE  /\ MovedRows(pos) \in [Rows -> Row]
         /\ \A r \in Rows : MovedRows(pos)[r] = IF OnPage(r, pos) /\ BelongsTo(r, pos)
                                                THEN Moved(r, pos) ELSE row[r]
<1>1. ASSUME NEW r \in Rows PROVE Moved(r, pos) \in Row /\ row[r] \in Row
  BY DEF TablesOK, Moved, Row, Position
<1> QED
  BY <1>1 DEF MovedRows

LEMMA ConnectionTyped ==
  ASSUME TablesOK
  PROVE  /\ \A a \in Accounts : Attached(a) \in [Conns -> Connection]
         /\ \A c \in Conns : SweptTo(c) \in [Conns -> Connection]
         /\ \A pos \in Position : Completed(pos) \in [Conns -> Connection]
<1>1. ASSUME NEW a \in Accounts, NEW c \in Conns PROVE Claim(a, c) \in [Conns -> Connection]
  BY DEF TablesOK, Claim, Connection
<1>2. ASSUME NEW a \in Accounts PROVE Open(a) \in [Conns -> Connection]
  <2>1. ASSUME NEW S, NEW h \in [Conns -> S], NEW x, NEW v \in S
        PROVE  [h EXCEPT ![x] = v] \in [Conns -> S]
    OBVIOUS
  <2>2. [account |-> a, state |-> "complete"] \in Connection
    BY DEF Connection
  <2>3. connection \in [Conns -> Connection]
    BY DEF TablesOK
  <2> QED
    BY <2>1, <2>2, <2>3, Zenon DEF Open
<1>3. ASSUME NEW a \in Accounts PROVE Attached(a) \in [Conns -> Connection]
  <2>1. CASE OfAccount(a) = {} /\ Cardinality(Detached) = 1
    <3>1. Detached # {} /\ Detached \subseteq Conns
      BY <2>1, FS_EmptySet DEF Detached
    <3> QED
      BY <1>1, <2>1, <3>1 DEF Attached
  <2>2. CASE OfAccount(a) # {}
    BY <2>2 DEF Attached, TablesOK
  <2>3. CASE OfAccount(a) = {} /\ Cardinality(Detached) # 1
    BY <1>2, <2>3 DEF Attached
  <2> QED
    BY <2>1, <2>2, <2>3
<1>4. ASSUME NEW c \in Conns PROVE SweptTo(c) \in [Conns -> Connection]
  BY DEF TablesOK, SweptTo, Connection
<1>5. ASSUME NEW pos \in Position PROVE Completed(pos) \in [Conns -> Connection]
  <2> DEFINE c == pos.conn
  <2>1. [connection EXCEPT ![c].state = "complete"] \in [Conns -> Connection]
    <3> HIDE DEF c
    <3> QED
      BY DEF TablesOK, Connection
  <2> QED
    BY <2>1 DEF Completed, TablesOK
<1> QED
  BY <1>3, <1>4, <1>5

LEMMA LateRowTyped ==
  ASSUME TablesOK, NEW r \in Rows, NEW i \in DOMAIN Stages, LateRow(r, Stages[i])
  PROVE  /\ row' \in [Rows -> Row] /\ row[r].table = "none"
         /\ row'[r].table = Stages[i] /\ row'[r].conn = None /\ row'[r].label = None
         /\ \A s \in Rows \ {r} : row'[s] = row[s]
<1>1. (CHOOSE n \in Names : TRUE) \in Names
  BY NameAssumption
<1>2. NoRow \in Row /\ NoRow.conn = None /\ NoRow.label = None
  BY <1>1 DEF NoRow, Row
<1>3. Stages[i] \in Tables
  BY StageAssumption
<1>4. PICK n \in Names :
        row' = [row EXCEPT ![r] = [NoRow EXCEPT !.table = Stages[i], !.name = n]]
  BY Zenon DEF LateRow
<1>5. [NoRow EXCEPT !.table = Stages[i], !.name = n] \in Row
  BY <1>2, <1>3 DEF Row
<1>6. row \in [Rows -> Row] /\ row[r].table = "none"
  BY DEF LateRow, TablesOK
<1>7. row' \in [Rows -> Row] /\ row'[r] = [NoRow EXCEPT !.table = Stages[i], !.name = n]
      /\ \A s \in Rows \ {r} : row'[s] = row[s]
  BY <1>4, <1>5, <1>6
<1>8. /\ [NoRow EXCEPT !.table = Stages[i], !.name = n].table = Stages[i]
      /\ [NoRow EXCEPT !.table = Stages[i], !.name = n].conn = NoRow.conn
      /\ [NoRow EXCEPT !.table = Stages[i], !.name = n].label = NoRow.label
  BY <1>2 DEF Row
<1> QED
  BY <1>2, <1>6, <1>7, <1>8

LEMMA TypedState ==
  ASSUME ControlOK
  PROVE  /\ TablesOK /\ connection \in [Conns -> Connection] /\ row \in [Rows -> Row]
         /\ keychain \subseteq Accounts /\ ready \subseteq Accounts /\ lapsed \subseteq Accounts
         /\ app \in AppState /\ flow \in [Flows -> Flow] /\ sup \in Nat
         /\ worker \in [Accounts -> Worker] /\ \A a \in Accounts : WorkerOK(worker[a])
BY DEF ControlOK, TypeOK, TablesOK, AppState, WorkerOK

\* The program is down.
LEMMA DownStep ==
  ASSUME ControlOK, flow' = [g \in Flows |-> NoFlow],
         app' \in AppState, app'.phase = "off", ~app'.connecting, ~app'.disconnecting,
         ready' = {}, Here' = {}, sup' \in Nat, lapsed' \subseteq Accounts,
         worker' \in [Accounts -> Worker], \A a \in Accounts : WorkerOK(worker'[a]),
         UNCHANGED <<tables, keychain>>
  PROVE  ControlOK'
<1>1. flow' \in [Flows -> Flow] /\ \A g \in Flows : flow'[g].at = "idle"
  BY NoFlowTyped
<1>2. TypeOK'
  BY <1>1 DEF ControlOK, TypeOK, TablesOK, tables, AppState, WorkerOK
<1>3. PhaseOK' /\ \A g \in Flows : FlowOK(g)'
  BY <1>1 DEF PhaseOK, FlowOK, Working
<1> QED
  BY <1>2, <1>3 DEF ControlOK

\* A step of a reconciliation that leaves the program and its workers alone, or the end of one.
LEMMA QuietStep ==
  ASSUME ControlOK, NEW f \in Flows, NEW x \in Flow, flow' = [flow EXCEPT ![f] = x],
         TablesOK', lapsed' \subseteq Accounts,
         app' \in AppState, app'.phase = app.phase,
         app'.connecting = app.connecting, app'.disconnecting = app.disconnecting,
         flow[f].at \notin {"idle", "connecting", "disconnecting", "clearing"},
         x.at \notin {"connecting", "disconnecting", "clearing"},
         x.at # "idle" => x.kind = flow[f].kind /\ x.account = flow[f].account,
         Working(f)' => Working(f),
         UNCHANGED <<keychain, worker, ready, sup>>
  PROVE  ControlOK'
<1>1. flow' \in [Flows -> Flow] /\ flow'[f] = x /\ \A g \in Flows \ {f} : flow'[g] = flow[g]
  BY DEF ControlOK, TypeOK
<1>2. /\ app'.connecting <=> \E g \in Flows : flow'[g].at = "connecting"
      /\ app'.disconnecting => \E g \in Flows : flow'[g].at \in {"disconnecting", "clearing"}
  BY <1>1 DEF ControlOK, TypeOK
<1>3. Here' = Here
  BY DEF Here
<1>4. FlowOK(f)'
  BY <1>1, <1>3 DEF ControlOK, FlowOK
<1> QED
  BY <1>2, <1>3, <1>4, TypedState, FlowStep

\* The end of a flow is a quiet step.
LEMMA RefusedTyped ==
  ASSUME ControlOK, NEW f \in Flows, Lapsed(f)
  PROVE  lapsed' \subseteq Accounts
BY DEF ControlOK, TypeOK, Lapsed, Flow

LEMMA FailsStep ==
  ASSUME ControlOK, NEW f \in Flows, Working(f),
         app' \in AppState,
         UNCHANGED <<tables, keychain, ready, sup, worker>>,
         IF flow[f].kind = "startup"
         THEN /\ app'.phase = "off" /\ ~app'.connecting /\ ~app'.disconnecting
              /\ flow' = [g \in Flows |-> NoFlow] /\ UNCHANGED lapsed
         ELSE /\ app'.phase = app.phase /\ app'.connecting = app.connecting
              /\ app'.disconnecting = app.disconnecting
              /\ Refused(f)
  PROVE  ControlOK'
<1>1. CASE flow[f].kind = "startup"
  <2>1. app.phase = "starting"
    BY <1>1 DEF ControlOK, FlowOK, Working
  <2>2. ready = {} /\ Here = {}
    BY <2>1 DEF ControlOK, FlowOK
  <2>3. ready' = {} /\ Here' = {}
    BY <2>2 DEF Here
  <2> QED
    BY <1>1, <2>3, TypedState, DownStep
<1>2. CASE flow[f].kind # "startup"
  <2>1. flow' = [flow EXCEPT ![f] = NoFlow] /\ lapsed' \subseteq Accounts
    BY <1>2, RefusedTyped DEF Refused
  <2>2. TablesOK'
    BY DEF ControlOK, TypeOK, TablesOK, tables
  <2>3. ~Working(f)'
    BY <2>1, NoFlowTyped, TypedState DEF Working
  <2> QED
    BY <1>2, <2>1, <2>2, <2>3, NoFlowTyped, QuietStep DEF Working
<1> QED
  BY <1>1, <1>2

\* What an action does to its own flow.
LEMMA FieldTyped ==
  ASSUME ControlOK, NEW f \in Flows
  PROVE  /\ flow[f] \in Flow /\ flow[f].pos \in Position
         /\ Len(Stages) \in Nat /\ Len(Stages) > 0
BY StageAssumption DEF ControlOK, TypeOK, Flow

LEMMA PageTyped ==
  ASSUME NEW pos \in Position
  PROVE  ~LastPage(pos) => NextPage(pos) \in Position
BY StageAssumption DEF Position, LastPage, NextPage

LEMMA AtTyped ==
  ASSUME NEW mode \in {"detached", "claimed", "audit"}, NEW a \in Accounts \cup {None},
         NEW c \in Conns
  PROVE  At(mode, a, c) \in Position
BY StageAssumption DEF Position, At

LEMMA SweepControl ==
  ASSUME ControlOK, NEW f \in Flows, Reads(f) \/ SweepBegins(f) \/ Sweeps(f)
  PROVE  ControlOK'
<1>0. flow[f] \in Flow /\ flow[f].pos \in Position /\ TablesOK
  BY FieldTyped, TypedState
<1>a. \A pos \in Position : TurnsPage(f, pos, "verifying") =>
        \E x \in Flow : /\ flow' = [flow EXCEPT ![f] = x]
                        /\ x.at \in {flow[f].at, "verifying"}
                        /\ x.kind = flow[f].kind /\ x.account = flow[f].account
  <2> SUFFICES ASSUME NEW pos \in Position, TurnsPage(f, pos, "verifying")
               PROVE  \E x \in Flow : /\ flow' = [flow EXCEPT ![f] = x]
                                      /\ x.at \in {flow[f].at, "verifying"}
                                      /\ x.kind = flow[f].kind /\ x.account = flow[f].account
    OBVIOUS
  <2> DEFINE x == [flow[f] EXCEPT !.at  = IF LastPage(pos) THEN "verifying" ELSE @,
                                  !.pos = IF LastPage(pos) THEN NoPosition ELSE NextPage(pos)]
  <2>1. flow' = [flow EXCEPT ![f] = x]
    BY DEF TurnsPage
  <2>2. x \in Flow /\ x.kind = flow[f].kind /\ x.account = flow[f].account
          /\ x.at \in {flow[f].at, "verifying"}
    BY <1>0, PageTyped, NoFlowTyped DEF Flow
  <2> QED
    BY <2>1, <2>2
<1>1. CASE Reads(f)
  <2> DEFINE x == [flow[f] EXCEPT !.at = "sweeping", !.ids = keychain, !.todo = keychain]
  <2>1. x \in Flow /\ x.at = "sweeping" /\ x.kind = flow[f].kind /\ x.account = flow[f].account
    BY <1>0, TypedState DEF Flow
  <2>2. flow' = [flow EXCEPT ![f] = x] /\ flow[f].at = "reading"
    BY <1>1 DEF Reads
  <2>3. UNCHANGED <<tables, keychain, app, ready, sup, worker, lapsed>>
    BY <1>1 DEF Reads
  <2>4. TablesOK'
    BY <1>0, <2>3 DEF TablesOK, tables
  <2> HIDE DEF x
  <2> QED
    BY <2>1, <2>2, <2>3, <2>4, TypedState, QuietStep DEF Working
<1>2. CASE SweepBegins(f)
  <2>1. /\ flow[f].at = "sweeping"
        /\ UNCHANGED <<keychain, app, ready, sup, worker, lapsed>>
    BY <1>2 DEF SweepBegins
  <2>2. TablesOK' /\ \E x \in Flow : /\ flow' = [flow EXCEPT ![f] = x]
                                     /\ x.at \in {flow[f].at, "verifying"}
                                     /\ x.kind = flow[f].kind /\ x.account = flow[f].account
    <3>1. CASE Goes(f, "verifying") /\ UNCHANGED tables
      <4>1. [flow[f] EXCEPT !.at = "verifying"] \in Flow
        BY <1>0 DEF Flow
      <4> QED
        BY <1>0, <3>1, <4>1 DEF Goes, TablesOK, tables, Flow
    <3>2. ASSUME NEW c \in Conns, connection' = SweptTo(c),
                 row' = MovedRows(At("detached", None, c)),
                 TurnsPage(f, At("detached", None, c), "verifying")
          PROVE  TablesOK' /\ \E x \in Flow : /\ flow' = [flow EXCEPT ![f] = x]
                                     /\ x.at \in {flow[f].at, "verifying"}
                                     /\ x.kind = flow[f].kind /\ x.account = flow[f].account
      BY <1>0, <1>a, <3>2, AtTyped, MovedTyped, ConnectionTyped DEF TablesOK
    <3> QED
      BY <1>2, <3>1, <3>2, Zenon DEF SweepBegins
  <2> QED
    BY <2>1, <2>2, TypedState, QuietStep DEF Working
<1>3. CASE Sweeps(f)
  <2>1. /\ flow[f].at = "sweeping"
        /\ row' = MovedRows(flow[f].pos) /\ connection' = connection
        /\ TurnsPage(f, flow[f].pos, "verifying")
        /\ UNCHANGED <<keychain, app, ready, sup, worker, lapsed>>
    BY <1>3 DEF Sweeps
  <2>2. TablesOK'
    BY <1>0, <2>1, MovedTyped DEF TablesOK
  <2> QED
    BY <1>0, <1>a, <2>1, <2>2, TypedState, QuietStep DEF Working
<1> QED
  BY <1>1, <1>2, <1>3

LEMMA VerifyControl ==
  ASSUME ControlOK, NEW f \in Flows,
         (\E a \in Accounts : Attaches(f, a)) \/ Migrates(f) \/ MigrationFails(f)
           \/ Audits(f) \/ CallFails(f)
  PROVE  ControlOK'
<1>0. flow[f] \in Flow /\ flow[f].pos \in Position /\ TablesOK /\ app \in AppState
  BY FieldTyped, TypedState
<1>1. ASSUME NEW a \in Accounts, Attaches(f, a) PROVE ControlOK'
  <2>1. PICK c \in Conns :
          flow' = [flow EXCEPT ![f].at = "migrating", ![f].pos = At("claimed", a, c)]
    BY <1>1, Zenon DEF Attaches
  <2> DEFINE x == [flow[f] EXCEPT !.at = "migrating", !.pos = At("claimed", a, c)]
  <2>2. flow' = [flow EXCEPT ![f] = x]
    BY <2>1
  <2>3. x \in Flow /\ x.at = "migrating" /\ x.kind = flow[f].kind /\ x.account = flow[f].account
    BY <1>0, AtTyped DEF Flow
  <2>4. /\ flow[f].at = "verifying" /\ connection' = Attached(a)
        /\ UNCHANGED <<row, keychain, app, ready, sup, worker, lapsed>>
    BY <1>1 DEF Attaches
  <2>5. TablesOK'
    BY <1>0, <2>4, ConnectionTyped DEF TablesOK
  <2> HIDE DEF x
  <2> QED
    BY <2>2, <2>3, <2>4, <2>5, TypedState, QuietStep DEF Working
<1>2. CASE Migrates(f)
  <2> DEFINE pos == flow[f].pos
             x == [flow[f] EXCEPT !.at  = IF LastPage(pos) THEN "auditing" ELSE @,
                                  !.pos = IF LastPage(pos) THEN At("audit", pos.account, pos.conn)
                                          ELSE NextPage(pos)]
  <2>1. /\ flow[f].at = "migrating" /\ flow' = [flow EXCEPT ![f] = x]
        /\ row' = MovedRows(pos) /\ connection' = Completed(pos)
        /\ UNCHANGED <<keychain, app, ready, sup, worker, lapsed>>
    BY <1>2 DEF Migrates
  <2>2. At("audit", pos.account, pos.conn) \in Position
    BY <1>0, StageAssumption DEF Position, At
  <2>3. x \in Flow /\ x.at \in {"migrating", "auditing"} /\ x.kind = flow[f].kind
          /\ x.account = flow[f].account
    BY <1>0, <2>1, <2>2, PageTyped DEF Flow
  <2>4. TablesOK'
    BY <1>0, <2>1, MovedTyped, ConnectionTyped DEF TablesOK
  <2> HIDE DEF x
  <2> QED
    BY <2>1, <2>3, <2>4, TypedState, QuietStep DEF Working
<1>3. ASSUME flow[f].at \in {"migrating", "auditing"}, Fails(f) PROVE ControlOK'
  <2>1. Off \in AppState /\ Off.phase = "off" /\ ~Off.connecting /\ ~Off.disconnecting
    BY <1>0 DEF Off, AppState
  <2> QED
    BY <1>0, <1>3, <2>1, FailsStep DEF Fails, Working
<1>4. CASE MigrationFails(f)
  BY <1>3, <1>4 DEF MigrationFails
<1>5. CASE Audits(f)
  <2> DEFINE pos == flow[f].pos
             x == [flow[f] EXCEPT !.at   = IF LastPage(pos) THEN "verifying" ELSE @,
                                  !.pos  = IF LastPage(pos) THEN NoPosition ELSE NextPage(pos),
                                  !.todo = IF LastPage(pos) THEN @ \ {pos.account} ELSE @]
  <2>1. CASE Violations(pos)
    BY <1>3, <1>5, <2>1 DEF Audits
  <2>2. CASE ~Violations(pos)
    <3>1. /\ flow[f].at = "auditing" /\ flow' = [flow EXCEPT ![f] = x]
          /\ UNCHANGED <<tables, keychain, app, ready, sup, worker, lapsed>>
      BY <1>5, <2>2 DEF Audits
    <3>2. x \in Flow /\ x.at \in {"auditing", "verifying"} /\ x.kind = flow[f].kind
            /\ x.account = flow[f].account
      BY <1>0, <3>1, PageTyped, NoFlowTyped DEF Flow
    <3>3. TablesOK'
      BY <1>0, <3>1 DEF TablesOK, tables
    <3> HIDE DEF x
    <3> QED
      BY <3>1, <3>2, <3>3, TypedState, QuietStep DEF Working
  <2> QED
    BY <2>1, <2>2
<1>6. CASE CallFails(f)
  <2>1. /\ [app EXCEPT !.spent = @ + 1] \in AppState
        /\ [Off EXCEPT !.spent = @ + 1] \in AppState
    <3>1. app.spent + 1 \in 0..Budget
      BY <1>0, <1>6, BudgetAssumption DEF CallFails, AppState
    <3>2. Off \in AppState /\ Off.spent = app.spent
      BY <1>0 DEF Off, AppState
    <3>3. \A x \in AppState, n \in 0..Budget : [x EXCEPT !.spent = n] \in AppState
      BY DEF AppState
    <3> QED
      BY <1>0, <3>1, <3>2, <3>3
  <2>2. /\ [app EXCEPT !.spent = @ + 1].phase = app.phase
        /\ [app EXCEPT !.spent = @ + 1].connecting = app.connecting
        /\ [app EXCEPT !.spent = @ + 1].disconnecting = app.disconnecting
        /\ [Off EXCEPT !.spent = @ + 1].phase = "off"
        /\ ~[Off EXCEPT !.spent = @ + 1].connecting
        /\ ~[Off EXCEPT !.spent = @ + 1].disconnecting
    BY <1>0 DEF Off, AppState
  <2> QED
    BY <1>6, <2>1, <2>2, FailsStep DEF CallFails, Working
<1> QED
  BY <1>1, <1>2, <1>4, <1>5, <1>6

LEMMA RequestControl ==
  ASSUME ControlOK, NEW f \in Flows, NEW a \in Accounts,
         RequestsConnect(f, a) \/ RequestsDisconnect(f, a)
  PROVE  ControlOK'
<1>0. app \in AppState /\ flow \in [Flows -> Flow] /\ NoFlow \in Flow
  BY TypedState, NoFlowTyped
<1>1. ASSUME NEW kind \in {"connect", "disconnect"}, NEW at \in {"connecting", "disconnecting"},
             Requested(f, kind, a, at),
             <<kind, at>> \in {<<"connect", "connecting">>, <<"disconnect", "disconnecting">>}
      PROVE  ControlOK'
  <2> DEFINE x == [NoFlow EXCEPT !.at = at, !.kind = kind, !.account = a]
  <2>1. x \in Flow /\ x.at = at /\ x.kind = kind /\ x.account = a
    BY <1>0, <1>1 DEF Flow
  <2>2. /\ app.phase = "up" /\ flow[f].at = "idle" /\ ~app.connecting /\ ~app.disconnecting
        /\ app.spent < Budget /\ flow' = [flow EXCEPT ![f] = x]
        /\ app' = [Taken(kind) EXCEPT !.spent = @ + 1]
        /\ UNCHANGED <<tables, keychain, ready, sup, worker, lapsed>>
    BY <1>1 DEF Requested, Accepting, Idle, Busy
  <2>3. app.spent + 1 \in 0..Budget
    BY <1>0, <2>2, BudgetAssumption DEF AppState
  <2>4. /\ app' \in AppState /\ app'.phase = app.phase
        /\ app'.connecting <=> at = "connecting"
        /\ app'.disconnecting <=> at = "disconnecting"
    <3>1. /\ Taken(kind) \in AppState /\ Taken(kind).phase = app.phase
          /\ Taken(kind).connecting <=> at = "connecting"
          /\ Taken(kind).disconnecting <=> at = "disconnecting"
      BY <1>0, <1>1, <2>2 DEF Taken, AppState
    <3>2. \A y \in AppState, n \in 0..Budget :
            /\ [y EXCEPT !.spent = n] \in AppState /\ [y EXCEPT !.spent = n].phase = y.phase
            /\ [y EXCEPT !.spent = n].connecting = y.connecting
            /\ [y EXCEPT !.spent = n].disconnecting = y.disconnecting
      BY DEF AppState
    <3>3. Taken(kind).spent = app.spent
      BY <1>0 DEF Taken, AppState
    <3> HIDE DEF x
    <3> QED
      BY <2>2, <2>3, <3>1, <3>2, <3>3
  <2> HIDE DEF x
  <2>5. flow'[f] = x /\ \A g \in Flows \ {f} : flow'[g] = flow[g]
    BY <1>0, <2>2
  <2>6. /\ \A g \in Flows : flow[g].at # "connecting"
        /\ app'.connecting <=> \E g \in Flows : flow'[g].at = "connecting"
        /\ app'.disconnecting => \E g \in Flows : flow'[g].at \in {"disconnecting", "clearing"}
    BY <1>1, <2>1, <2>2, <2>4, <2>5 DEF ControlOK, TypeOK
  <2>7. FlowOK(f)'
    BY <1>1, <2>1, <2>2, <2>4, <2>5 DEF FlowOK, Working
  <2>8. TablesOK' /\ Here' = Here
    BY <2>2, TypedState DEF TablesOK, tables, Here
  <2>9. /\ keychain' \subseteq Accounts /\ ready' \subseteq Accounts /\ lapsed' \subseteq Accounts
        /\ sup' \in Nat /\ worker' \in [Accounts -> Worker] /\ ready' = ready
        /\ \A b \in Accounts : WorkerOK(worker'[b])
    BY <2>2, TypedState
  <2>10. flow' = [flow EXCEPT ![f] = x] /\ app.phase = "up"
    BY <2>2
  <2> QED
    BY <2>1, <2>4, <2>6, <2>7, <2>8, <2>9, <2>10, FlowStep
<1> QED
  BY <1>1 DEF RequestsConnect, RequestsDisconnect

LEMMA FreedTyped ==
  ASSUME ControlOK, NEW f \in Flows, flow[f].at \in {"connecting", "disconnecting", "clearing"}
  PROVE  /\ Freed(f) \in AppState /\ Freed(f).phase = app.phase /\ Freed(f).spent = app.spent
         /\ flow[f].at = "connecting" => ~Freed(f).connecting
                                         /\ Freed(f).disconnecting = app.disconnecting
         /\ flow[f].at # "connecting" => ~Freed(f).disconnecting
                                         /\ Freed(f).connecting = app.connecting
         /\ flow[f].kind # "startup" /\ app.phase # "starting" /\ flow[f].kind # "none"
         /\ app.phase \notin {"off", "stopped"} /\ flow[f].account \in Accounts
BY TypedState DEF ControlOK, FlowOK, Freed, AppState

\* A request lets go of the broker.
LEMMA BrokerStep ==
  ASSUME ControlOK, NEW f \in Flows, flow[f].at \in {"connecting", "disconnecting", "clearing"},
         NEW x \in Flow, flow' = [flow EXCEPT ![f] = x],
         \/ x = NoFlow
         \/ x.at = "reading" /\ x.kind = flow[f].kind /\ x.account = flow[f].account,
         app' \in AppState, app'.phase = app.phase,
         app'.connecting = Freed(f).connecting, app'.disconnecting = Freed(f).disconnecting,
         keychain' \subseteq Accounts, lapsed' \subseteq Accounts,
         UNCHANGED <<tables, ready, sup, worker>>
  PROVE  ControlOK'
<1>1. flow' \in [Flows -> Flow] /\ flow'[f] = x /\ \A g \in Flows \ {f} : flow'[g] = flow[g]
  BY TypedState
<1>2. x.at \in {"idle", "reading"}
  BY NoFlowTyped
<1>3. /\ app'.connecting <=> \E g \in Flows : flow'[g].at = "connecting"
      /\ app'.disconnecting => \E g \in Flows : flow'[g].at \in {"disconnecting", "clearing"}
  <2>1. CASE flow[f].at = "connecting"
    <3>1. \A g \in Flows \ {f} : flow[g].at # "connecting"
      BY <2>1 DEF ControlOK, PhaseOK
    <3> QED
      BY <1>1, <1>2, <2>1, <3>1, FreedTyped DEF ControlOK, TypeOK
  <2>2. CASE flow[f].at # "connecting"
    BY <1>1, <1>2, <2>2, FreedTyped DEF ControlOK, TypeOK
  <2> QED
    BY <2>1, <2>2
<1>4. FlowOK(f)'
  BY <1>1, <1>2, FreedTyped, NoFlowTyped DEF FlowOK, Working
<1>5. TablesOK' /\ Here' = Here
  BY TypedState DEF TablesOK, tables, Here
<1> QED
  BY <1>2, <1>3, <1>4, <1>5, TypedState, FlowStep

LEMMA BrokerControl ==
  ASSUME ControlOK, NEW f \in Flows, Connects(f) \/ Declines(f) \/ Clears(f) \/ ClearFails(f)
  PROVE  ControlOK'
<1>0. flow[f] \in Flow /\ flow[f].at \in {"connecting", "disconnecting", "clearing"}
  BY FieldTyped DEF Connects, Declines, Clears, ClearFails
<1>1. keychain' \subseteq Accounts
  BY <1>0, TypedState, FreedTyped DEF Connects, Declines, Clears, ClearFails
<1>2. UNCHANGED <<tables, ready, sup, worker>>
  BY DEF Connects, Declines, Clears, ClearFails
<1>3. app' \in AppState /\ app'.phase = app.phase
      /\ app'.connecting = Freed(f).connecting /\ app'.disconnecting = Freed(f).disconnecting
  <2>1. CASE app' = Freed(f)
    BY <1>0, <2>1, FreedTyped
  <2>2. CASE ClearFails(f)
    <3>1. Freed(f) \in AppState /\ Freed(f).phase = app.phase /\ Freed(f).spent = app.spent
      BY <1>0, FreedTyped
    <3>2. app.spent + 1 \in 0..Budget
      BY <2>2, TypedState, BudgetAssumption DEF ClearFails, AppState
    <3>3. app' = [Freed(f) EXCEPT !.spent = @ + 1]
      BY <2>2 DEF ClearFails
    <3> QED
      BY <3>1, <3>2, <3>3 DEF AppState
  <2> QED
    BY <2>1, <2>2 DEF Connects, Declines, Clears, Reconciles
<1>4. lapsed' \subseteq Accounts /\ \E x \in Flow :
         /\ flow' = [flow EXCEPT ![f] = x]
         /\ \/ x = NoFlow
            \/ x.at = "reading" /\ x.kind = flow[f].kind /\ x.account = flow[f].account
  <2>1. CASE Refused(f)
    <3>1. flow' = [flow EXCEPT ![f] = NoFlow] /\ lapsed' \subseteq Accounts
      BY <2>1, RefusedTyped DEF Refused
    <3>2. NoFlow \in Flow
      BY NoFlowTyped
    <3> QED
      BY <3>1, <3>2, Zenon
  <2>2. CASE Goes(f, "reading") /\ UNCHANGED lapsed
    <3> DEFINE x == [flow[f] EXCEPT !.at = "reading"]
    <3>1. x \in Flow /\ x.at = "reading" /\ x.kind = flow[f].kind /\ x.account = flow[f].account
      BY <1>0 DEF Flow
    <3>2. flow' = [flow EXCEPT ![f] = x]
      BY <2>2 DEF Goes
    <3> HIDE DEF x
    <3> QED
      BY <2>2, <3>1, <3>2, TypedState
  <2> QED
    BY <2>1, <2>2 DEF Connects, Declines, Clears, ClearFails, Reconciles
<1> QED
  BY <1>0, <1>1, <1>2, <1>3, <1>4, BrokerStep

LEMMA GoesTyped ==
  ASSUME ControlOK, NEW f \in Flows,
         NEW at \in {"clearing", "listed", "removing", "reconciled"}, Goes(f, at)
  PROVE  \E x \in Flow : /\ flow' = [flow EXCEPT ![f] = x]
                         /\ x = [flow[f] EXCEPT !.at = at]
                         /\ x.at = at /\ x.kind = flow[f].kind /\ x.account = flow[f].account
<1> DEFINE x == [flow[f] EXCEPT !.at = at]
<1>1. x \in Flow /\ x.at = at /\ x.kind = flow[f].kind /\ x.account = flow[f].account
  BY FieldTyped DEF Flow
<1>2. flow' = [flow EXCEPT ![f] = x] /\ x = [flow[f] EXCEPT !.at = at]
  BY DEF Goes
<1> QED
  BY <1>1, <1>2

\* The account of a request, and what its steps may do to the worker of an account.
LEMMA WorkerTyped ==
  ASSUME ControlOK
  PROVE  /\ \A a \in Accounts : /\ Drained(a) \in [Accounts -> Worker]
                                /\ \A b \in Accounts : WorkerOK(Drained(a)[b])
                                /\ \A b \in Accounts : Drained(a)[b].here = worker[b].here
         /\ \A a \in Accounts : /\ Woken(a) \in [Accounts -> Worker]
                                /\ \A b \in Accounts : WorkerOK(Woken(a)[b])
                                /\ \A b \in Accounts : Woken(a)[b].here = worker[b].here
         /\ NoWorker \in Worker /\ WorkerOK(NoWorker) /\ ~NoWorker.here
         /\ \A x \in BOOLEAN : /\ Started(x) \in Worker /\ WorkerOK(Started(x))
                               /\ Started(x).here /\ ~Started(x).asleep
                               /\ Started(x).runs \/ Started(x).timer
<1>1. worker \in [Accounts -> Worker] /\ \A a \in Accounts : WorkerOK(worker[a])
  BY TypedState
<1>2. NoWorker \in Worker /\ WorkerOK(NoWorker) /\ ~NoWorker.here
  BY DEF NoWorker, Worker, WorkerOK
<1>3. \A x \in BOOLEAN : /\ Started(x) \in Worker /\ WorkerOK(Started(x))
                         /\ Started(x).here /\ ~Started(x).asleep
                         /\ Started(x).runs \/ Started(x).timer
  BY DEF Started, Worker, WorkerOK
<1>4. ASSUME NEW a \in Accounts
      PROVE  /\ Drained(a) \in [Accounts -> Worker]
             /\ \A b \in Accounts : WorkerOK(Drained(a)[b])
             /\ \A b \in Accounts : Drained(a)[b].here = worker[b].here
  <2>1. CASE worker[a].here
    <3> DEFINE w == [worker[a] EXCEPT !.timer = FALSE, !.asleep = TRUE]
    <3>1. Drained(a) = [worker EXCEPT ![a] = w]
      BY <2>1 DEF Drained
    <3>2. worker[a] \in Worker
      BY <1>1
    <3>3. w \in Worker /\ w.here = worker[a].here
      BY <3>2 DEF Worker
    <3> HIDE DEF w
    <3>4. ASSUME NEW b \in Accounts
          PROVE  LET d == [worker EXCEPT ![a] = w][b]
                 IN  d \in Worker /\ WorkerOK(d) /\ d.here = worker[b].here
      <4>1. CASE b = a
        BY <1>1, <2>1, <3>3, <4>1 DEF WorkerOK
      <4>2. CASE b # a
        BY <1>1, <4>2
      <4> QED
        BY <4>1, <4>2
    <3> QED
      BY <1>1, <3>1, <3>3, <3>4
  <2>2. CASE ~worker[a].here
    BY <1>1, <2>2 DEF Drained
  <2> QED
    BY <2>1, <2>2
<1>5. ASSUME NEW a \in Accounts
      PROVE  /\ Woken(a) \in [Accounts -> Worker]
             /\ \A b \in Accounts : WorkerOK(Woken(a)[b])
             /\ \A b \in Accounts : Woken(a)[b].here = worker[b].here
  <2>1. CASE worker[a].here
    <3> DEFINE w == [worker[a] EXCEPT !.runs = TRUE, !.asleep = FALSE]
    <3>1. Woken(a) = [worker EXCEPT ![a] = w]
      BY <2>1 DEF Woken
    <3>2. worker[a] \in Worker
      BY <1>1
    <3>3. w \in Worker /\ w.here = worker[a].here
      BY <3>2 DEF Worker
    <3> HIDE DEF w
    <3>4. ASSUME NEW b \in Accounts
          PROVE  LET d == [worker EXCEPT ![a] = w][b]
                 IN  d \in Worker /\ WorkerOK(d) /\ d.here = worker[b].here
      <4>1. CASE b = a
        BY <1>1, <2>1, <3>3, <4>1 DEF WorkerOK
      <4>2. CASE b # a
        BY <1>1, <4>2
      <4> QED
        BY <4>1, <4>2
    <3> QED
      BY <1>1, <3>1, <3>3, <3>4
  <2>2. CASE ~worker[a].here
    BY <1>1, <2>2 DEF Woken
  <2> QED
    BY <2>1, <2>2
<1> QED
  BY <1>2, <1>3, <1>4, <1>5

\* A flow goes on and leaves the program and the tables alone.
LEMMA OnStep ==
  ASSUME ControlOK, NEW f \in Flows, NEW x \in Flow, flow' = [flow EXCEPT ![f] = x],
         x.kind = flow[f].kind, x.account = flow[f].account,
         x.at \in {"clearing", "listed", "removing", "reconciled"},
         flow[f].at \in {"disconnecting", "verifying", "listed", "removing"},
         x.at = "clearing" <=> flow[f].at = "disconnecting",
         worker' \in [Accounts -> Worker], \A a \in Accounts : WorkerOK(worker'[a]),
         ready' \subseteq Accounts, sup' \in Nat,
         UNCHANGED <<tables, keychain, app, lapsed>>
  PROVE  ControlOK'
<1>1. flow' \in [Flows -> Flow] /\ flow'[f] = x /\ \A g \in Flows \ {f} : flow'[g] = flow[g]
  BY TypedState
<1>2. /\ app'.connecting <=> \E g \in Flows : flow'[g].at = "connecting"
      /\ app'.disconnecting => \E g \in Flows : flow'[g].at \in {"disconnecting", "clearing"}
  BY <1>1 DEF ControlOK, TypeOK
<1>3. FlowOK(f)'
  BY <1>1 DEF ControlOK, FlowOK, Working
<1>4. TablesOK'
  BY TypedState DEF TablesOK, tables
<1>5. app' \in AppState /\ keychain' \subseteq Accounts /\ lapsed' \subseteq Accounts
      /\ app'.phase = app.phase
  BY TypedState
<1>6. flow[f].at # "idle" /\ x.at # "connecting"
  OBVIOUS
<1> QED
  BY <1>2, <1>3, <1>4, <1>5, <1>6, FlowStep

LEMMA RefreshTyped ==
  ASSUME ControlOK, NEW f \in Flows, NEW rest \in SUBSET Accounts, Applies(f, rest)
  PROVE  /\ worker' \in [Accounts -> Worker] /\ \A a \in Accounts : WorkerOK(worker'[a])
         /\ \E x \in Flow : /\ flow' = [flow EXCEPT ![f] = x]
                            /\ x.at \in {"removing", "reconciled"}
                            /\ x.kind = flow[f].kind /\ x.account = flow[f].account
<1>0. worker \in [Accounts -> Worker] /\ \A a \in Accounts : WorkerOK(worker[a])
  BY TypedState
<1>1. CASE Overtaken(f)
  BY <1>0, <1>1, GoesTyped DEF Applies
<1>2. CASE ~Overtaken(f) /\ rest = {}
  <2>1. Refreshed(f)
    BY <1>2 DEF Applies
  <2>2. PICK first : worker' = [a \in Accounts |-> IF a \in flow[f].ids \ Here
                                                  THEN Started(a = first) ELSE worker[a]]
    BY <2>1, Zenon DEF Refreshed
  <2>3. worker' \in [Accounts -> Worker] /\ \A a \in Accounts : WorkerOK(worker'[a])
    BY <1>0, <2>2, WorkerTyped
  <2> QED
    BY <2>1, <2>3, GoesTyped DEF Refreshed
<1>3. CASE ~Overtaken(f) /\ rest # {}
  <2>1. Removes(f, rest)
    BY <1>3 DEF Applies
  <2>2. PICK a \in rest :
          /\ worker' = [worker EXCEPT ![a] = NoWorker]
          /\ flow' = [flow EXCEPT ![f].at = "removing", ![f].rest = rest \ {a}]
    BY <2>1, Zenon DEF Removes
  <2> DEFINE x == [flow[f] EXCEPT !.at = "removing", !.rest = rest \ {a}]
  <2>3. x \in Flow /\ x.at = "removing" /\ x.kind = flow[f].kind /\ x.account = flow[f].account
    BY FieldTyped DEF Flow
  <2>4. flow' = [flow EXCEPT ![f] = x]
    BY <2>2
  <2> HIDE DEF x
  <2>5. worker' \in [Accounts -> Worker] /\ \A b \in Accounts : WorkerOK(worker'[b])
    BY <1>0, <2>2, WorkerTyped
  <2> QED
    BY <2>3, <2>4, <2>5
<1> QED
  BY <1>1, <1>2, <1>3

LEMMA OnControl ==
  ASSUME ControlOK, NEW f \in Flows, Drains(f) \/ Exposes(f) \/ RefreshAccounts(f)
  PROVE  ControlOK'
<1>0. flow[f] \in Flow
  BY FieldTyped
<1>1. CASE Drains(f)
  <2>1. flow[f].account \in Accounts /\ flow[f].kind = "disconnect"
    BY <1>1 DEF Drains, ControlOK, FlowOK
  <2>2. worker' \in [Accounts -> Worker] /\ \A b \in Accounts : WorkerOK(worker'[b])
    BY <1>1, <2>1, WorkerTyped DEF Drains
  <2>3. Goes(f, "clearing") /\ flow[f].at = "disconnecting"
        /\ UNCHANGED <<tables, keychain, app, lapsed>> /\ ready' \subseteq Accounts /\ sup' \in Nat
    BY <1>1, TypedState DEF Drains
  <2> QED
    BY <2>2, <2>3, GoesTyped, OnStep
<1>2. CASE Exposes(f)
  <2> DEFINE x == [flow[f] EXCEPT !.at = "listed", !.generation = sup + 1]
  <2>1. sup + 1 \in Nat /\ flow[f].ids \subseteq Accounts
    BY <1>0, TypedState DEF Flow
  <2>2. x \in Flow /\ x.at = "listed" /\ x.kind = flow[f].kind /\ x.account = flow[f].account
    BY <1>0, <2>1 DEF Flow
  <2>3. flow[f].at = "verifying" /\ flow' = [flow EXCEPT ![f] = x]
    BY <1>2 DEF Exposes
  <2>4. /\ ready' = flow[f].ids /\ sup' = sup + 1
        /\ UNCHANGED <<tables, keychain, app, worker, lapsed>>
    BY <1>2 DEF Exposes
  <2> HIDE DEF x
  <2>5. worker' \in [Accounts -> Worker] /\ \A b \in Accounts : WorkerOK(worker'[b])
    BY <2>4, TypedState
  <2> QED
    BY <2>1, <2>2, <2>3, <2>4, <2>5, OnStep
<1>3. CASE RefreshAccounts(f)
  <2>1. PICK rest \in SUBSET Accounts : Applies(f, rest)
    BY <1>0, <1>3 DEF RefreshAccounts, Here, Flow
  <2>2. flow[f].at \in {"listed", "removing"} /\ UNCHANGED <<tables, keychain, app, lapsed>>
        /\ ready' \subseteq Accounts /\ sup' \in Nat
    BY <1>3, TypedState DEF RefreshAccounts
  <2> QED
    BY <2>1, <2>2, RefreshTyped, OnStep
<1> QED
  BY <1>1, <1>2, <1>3

LEMMA EndsControl ==
  ASSUME ControlOK, NEW f \in Flows, Ends(f)
  PROVE  ControlOK' /\ Here' = Here
<1>1. /\ flow[f].at = "reconciled" /\ flow[f].account \in Accounts
      /\ UNCHANGED <<tables, keychain, app, ready, sup>>
  BY DEF Ends, ControlOK, FlowOK
<1>2. flow' = [flow EXCEPT ![f] = NoFlow] /\ lapsed' \subseteq Accounts
  <2>1. CASE Accepting
    BY <2>1, TypedState DEF Ends
  <2>2. CASE ~Accepting
    BY <2>2, RefusedTyped DEF Ends, Refused
  <2> QED
    BY <2>1, <2>2
<1>3. worker' = worker \/ worker' = Woken(flow[f].account)
  BY DEF Ends
<1>4. /\ worker' \in [Accounts -> Worker] /\ \A a \in Accounts : WorkerOK(worker'[a])
      /\ Here' = Here
  <2>1. CASE worker' = worker
    BY <2>1, TypedState DEF Here
  <2>2. CASE worker' = Woken(flow[f].account)
    BY <1>1, <2>2, WorkerTyped DEF Here
  <2> QED
    BY <1>3, <2>1, <2>2
<1>5. flow'[f] = NoFlow /\ \A g \in Flows \ {f} : flow'[g] = flow[g]
  BY <1>2, TypedState
<1>6. /\ app'.connecting <=> \E g \in Flows : flow'[g].at = "connecting"
      /\ app'.disconnecting => \E g \in Flows : flow'[g].at \in {"disconnecting", "clearing"}
  BY <1>1, <1>5, NoFlowTyped DEF ControlOK, TypeOK
<1>7. FlowOK(f)'
  BY <1>5, NoFlowTyped DEF FlowOK, Working
<1>8. TablesOK'
  BY <1>1, TypedState DEF TablesOK, tables
<1>9. /\ app' \in AppState /\ app'.phase = app.phase /\ keychain' \subseteq Accounts
      /\ ready' \subseteq Accounts /\ sup' \in Nat
  BY <1>1, TypedState
<1> QED
  BY <1>1, <1>2, <1>4, <1>6, <1>7, <1>8, <1>9, NoFlowTyped, FlowStep

LEMMA OpensControl ==
  ASSUME ControlOK, NEW f \in Flows, Opens(f)
  PROVE  /\ ControlOK' /\ Here' = Here /\ app.phase = "starting" /\ app'.phase = "up"
         /\ \A g \in Flows : flow'[g].at = "idle"
<1>1. app.phase = "starting" /\ \A g \in Flows \ {f} : flow[g].at = "idle"
  BY DEF Opens, ControlOK, PhaseOK, FlowOK
<1>2. flow' \in [Flows -> Flow] /\ flow'[f] = NoFlow /\ \A g \in Flows \ {f} : flow'[g].at = "idle"
  BY <1>1, TypedState, NoFlowTyped DEF Opens
<1>3. \A g \in Flows : flow'[g].at = "idle"
  BY <1>2, NoFlowTyped
<1>4. /\ app' \in AppState /\ app'.phase = "up" /\ app'.connecting = app.connecting
      /\ app'.disconnecting = app.disconnecting
  BY TypedState DEF Opens, AppState
<1>5. ~app.connecting /\ ~app.disconnecting
  <2>1. \A g \in Flows : flow[g].at \notin {"connecting", "disconnecting", "clearing"}
    BY <1>1 DEF Opens
  <2> QED
    BY <2>1 DEF ControlOK, TypeOK
<1>6. TablesOK' /\ Here' = Here /\ UNCHANGED <<keychain, ready, sup, worker, lapsed>>
  BY TypedState DEF Opens, TablesOK, tables, Here
<1>7. TypeOK'
  BY <1>2, <1>3, <1>4, <1>5, <1>6, TypedState DEF TypeOK, AppState, WorkerOK
<1>8. PhaseOK' /\ \A g \in Flows : FlowOK(g)'
  BY <1>3, <1>4 DEF PhaseOK, FlowOK, Working
<1> QED
  BY <1>1, <1>3, <1>4, <1>6, <1>7, <1>8 DEF ControlOK

LEMMA BootsControl ==
  ASSUME ControlOK, Boots
  PROVE  /\ ControlOK' /\ Here' = Here /\ Here = {} /\ ready' = {} /\ app.phase = "off"
         /\ app'.phase = "starting"
         /\ \A g \in Flows : flow[g].at = "idle"
         /\ \E f \in Flows : /\ flow' = [flow EXCEPT ![f] = [NoFlow EXCEPT !.at = "reading",
                                                                     !.kind = "startup"]]
                             /\ flow'[f].at = "reading" /\ flow'[f].kind = "startup"
                             /\ \A g \in Flows \ {f} : flow'[g] = flow[g]
<1>1. /\ app.phase = "off" /\ ready = {} /\ Here = {} /\ \A g \in Flows : flow[g].at = "idle"
      /\ UNCHANGED <<connection, keychain, ready, sup, worker, lapsed>>
  BY DEF Boots, ControlOK, PhaseOK, FlowOK
<1>2. /\ app' \in AppState /\ app'.phase = "starting" /\ app'.connecting = app.connecting
      /\ app'.disconnecting = app.disconnecting
  <2>1. app.spent + 1 \in 0..Budget
    BY TypedState, BudgetAssumption DEF Boots, AppState
  <2> QED
    BY <2>1, TypedState DEF Boots, AppState
<1>3. ~app.connecting /\ ~app.disconnecting
  BY <1>1 DEF ControlOK, TypeOK
<1>4. TablesOK' /\ Here' = Here
  <2>1. row' \in [Rows -> Row]
    <3>1. CASE UNCHANGED row
      BY <3>1, TypedState
    <3>2. CASE \E r \in Rows, i \in DOMAIN Stages : LateRow(r, Stages[i])
      BY <3>2, TypedState, LateRowTyped
    <3> QED
      BY <3>1, <3>2 DEF Boots
  <2> QED
    BY <1>1, <2>1, TypedState DEF TablesOK, Here
<1>5. PICK f \in Flows :
        flow' = [flow EXCEPT ![f] = [NoFlow EXCEPT !.at = "reading", !.kind = "startup"]]
  BY Zenon DEF Boots
<1> DEFINE x == [NoFlow EXCEPT !.at = "reading", !.kind = "startup"]
<1>6. x \in Flow /\ x.at = "reading" /\ x.kind = "startup" /\ flow' = [flow EXCEPT ![f] = x]
  BY <1>5, NoFlowTyped DEF Flow
<1> HIDE DEF x
<1>7. flow' \in [Flows -> Flow] /\ flow'[f] = x /\ \A g \in Flows \ {f} : flow'[g] = flow[g]
  BY <1>6, TypedState
<1>8. \A g \in Flows : flow'[g].at \in {"idle", "reading"}
  BY <1>1, <1>6, <1>7
<1>9. TypeOK'
  BY <1>1, <1>2, <1>3, <1>4, <1>7, <1>8, TypedState DEF TypeOK, AppState, WorkerOK
<1>10. PhaseOK' /\ \A g \in Flows : FlowOK(g)'
  <2>1. \A g \in Flows : FlowOK(g)'
    BY <1>1, <1>2, <1>4, <1>6, <1>7 DEF FlowOK, Working
  <2>2. \A g \in Flows : flow'[g].at # "connecting" /\ (flow'[g].at # "idle" => g = f)
    BY <1>1, <1>7, <1>8
  <2> QED
    BY <1>2, <2>1, <2>2 DEF PhaseOK
<1> QED
  BY <1>1, <1>2, <1>4, <1>5, <1>6, <1>7, <1>9, <1>10 DEF ControlOK

\* The program goes from one phase to the next, and no flow moves.
LEMMA PhaseStep ==
  ASSUME ControlOK, app' \in AppState, UNCHANGED <<tables, keychain, flow, ready, lapsed>>,
         sup' \in Nat, worker' \in [Accounts -> Worker], \A a \in Accounts : WorkerOK(worker'[a]),
         app'.connecting = app.connecting,
         app'.disconnecting \in {FALSE, app.disconnecting},
         \/ app'.phase = app.phase /\ Here' = Here
         \/ app.phase = "up" /\ app'.phase = "revoked"
         \/ app'.phase = "stopped" /\ Here' = {} /\ \A g \in Flows : flow[g].at = "idle"
  PROVE  ControlOK'
<1>1. TypeOK'
  BY DEF ControlOK, TypeOK, TablesOK, tables, AppState, WorkerOK
<1>2. PhaseOK' /\ \A g \in Flows : FlowOK(g)'
  BY DEF ControlOK, PhaseOK, FlowOK, Working
<1> QED
  BY <1>1, <1>2 DEF ControlOK

LEMMA ProgramControl ==
  ASSUME ControlOK,
         \/ RefusesDisconnect \/ Revokes \/ Stops \/ Killed
         \/ \E a \in Accounts : StartTimerFires(a)
  PROVE  ControlOK'
<1>0. app \in AppState /\ worker \in [Accounts -> Worker]
      /\ \A a \in Accounts : WorkerOK(worker[a])
  BY TypedState
<1>a. app.spent < Budget => app.spent + 1 \in 0..Budget
  BY <1>0, BudgetAssumption DEF AppState
<1>1. CASE RefusesDisconnect
  <2>1. /\ app' \in AppState /\ app'.connecting = app.connecting /\ app'.phase = app.phase
        /\ app'.disconnecting = FALSE
    BY <1>0, <1>1, <1>a DEF RefusesDisconnect, AppState
  <2>2. UNCHANGED <<tables, keychain, flow, ready, sup, worker, lapsed>> /\ Here' = Here
    BY <1>1 DEF RefusesDisconnect, Here
  <2> QED
    BY <2>1, <2>2, TypedState, PhaseStep
<1>2. CASE Revokes
  <2>1. /\ app' \in AppState /\ app'.connecting = app.connecting /\ app'.phase = "revoked"
        /\ app'.disconnecting = app.disconnecting /\ app.phase = "up"
    BY <1>0, <1>2, <1>a DEF Revokes, AppState
  <2>2. UNCHANGED <<tables, keychain, flow, ready, sup, worker, lapsed>>
    BY <1>2 DEF Revokes
  <2> QED
    BY <2>1, <2>2, TypedState, PhaseStep
<1>3. CASE Stops
  <2>1. /\ app' \in AppState /\ app'.connecting = app.connecting /\ app'.phase = "stopped"
        /\ app'.disconnecting = app.disconnecting
    BY <1>0, <1>3 DEF Stops, AppState
  <2>2. /\ worker' \in [Accounts -> Worker] /\ \A a \in Accounts : WorkerOK(worker'[a])
        /\ Here' = {}
    BY <1>3, WorkerTyped DEF Stops, Here
  <2>3. /\ UNCHANGED <<tables, keychain, flow, ready, lapsed>> /\ sup' \in Nat
        /\ \A g \in Flows : flow[g].at = "idle"
    BY <1>3, TypedState DEF Stops, Disposed, Idle
  <2> QED
    BY <2>1, <2>2, <2>3, PhaseStep
<1>4. CASE Killed
  <2>1. app' \in AppState /\ app'.phase = "off" /\ ~app'.connecting /\ ~app'.disconnecting
    BY <1>0, <1>4 DEF Killed, Off, AppState
  <2>2. /\ worker' \in [Accounts -> Worker] /\ \A a \in Accounts : WorkerOK(worker'[a])
        /\ Here' = {}
    BY <1>4, WorkerTyped DEF Killed, Here
  <2>3. /\ flow' = [g \in Flows |-> NoFlow] /\ ready' = {} /\ lapsed' \subseteq Accounts
        /\ sup' \in Nat /\ UNCHANGED <<tables, keychain>>
    BY <1>4 DEF Killed
  <2> QED
    BY <2>1, <2>2, <2>3, DownStep
<1>5. ASSUME NEW a \in Accounts, StartTimerFires(a) PROVE ControlOK'
  <2> DEFINE w == [worker[a] EXCEPT !.timer = FALSE, !.runs = TRUE]
  <2>1. w \in Worker /\ w.here = worker[a].here
    BY <1>0 DEF Worker
  <2>2. worker' = [worker EXCEPT ![a] = w]
    BY <1>5 DEF StartTimerFires
  <2>3. worker[a].here
    BY <1>0, <1>5 DEF StartTimerFires, WorkerOK, NoWorker
  <2> HIDE DEF w
  <2>4. \A b \in Accounts : worker'[b] = IF b = a THEN w ELSE worker[b]
    BY <1>0, <2>2
  <2>5. worker' \in [Accounts -> Worker] /\ \A b \in Accounts : worker'[b].here = worker[b].here
    BY <1>0, <2>1, <2>2, <2>4
  <2>6. Here' = Here /\ \A b \in Accounts : WorkerOK(worker'[b])
    BY <1>0, <2>1, <2>3, <2>4, <2>5 DEF Here, WorkerOK
  <2>7. UNCHANGED <<tables, keychain, app, flow, ready, sup, lapsed>>
    BY <1>5 DEF StartTimerFires
  <2> QED
    BY <2>5, <2>6, <2>7, TypedState, PhaseStep
<1> QED
  BY <1>1, <1>2, <1>3, <1>4, <1>5

LEMMA InitTyped ==
  ASSUME Init
  PROVE  /\ ControlOK /\ \A f \in Flows : flow[f] = NoFlow
         /\ \A r \in Rows : row[r] \in EarlierRows({c \in Conns : connection[c].state = "legacy"})
         /\ \/ \A c \in Conns : connection[c] = NoConnection
            \/ \E d \in Conns : /\ connection[d] = [account |-> None, state |-> "legacy"]
                                /\ \A c \in Conns \ {d} : connection[c] = NoConnection
         /\ \A r \in Rows : row[r].conn \in {c \in Conns : connection[c].state = "legacy"} \cup {None}
<1>1. NoConnection \in Connection /\ [account |-> None, state |-> "legacy"] \in Connection
  BY DEF NoConnection, Connection
<1>2. /\ connection \in [Conns -> Connection]
      /\ \/ \A c \in Conns : connection[c] = NoConnection
         \/ \E d \in Conns : /\ connection[d] = [account |-> None, state |-> "legacy"]
                             /\ \A c \in Conns \ {d} : connection[c] = NoConnection
  <2>1. CASE connection = [c \in Conns |-> NoConnection]
    BY <1>1, <2>1
  <2>2. CASE connection # [c \in Conns |-> NoConnection]
    <3> DEFINE d == CHOOSE c \in Conns : TRUE
    <3>1. connection = [c \in Conns |-> IF c = d THEN [account |-> None, state |-> "legacy"]
                                                 ELSE NoConnection]
      BY <2>2 DEF Init, TablesInit
    <3>2. Conns # {} => d \in Conns
      OBVIOUS
    <3> HIDE DEF d
    <3>3. connection \in [Conns -> Connection]
      BY <1>1, <3>1
    <3>4. CASE Conns = {}
      BY <3>3, <3>4
    <3>5. CASE Conns # {}
      BY <3>1, <3>2, <3>3, <3>5
    <3> QED
      BY <3>4, <3>5
  <2> QED
    BY <2>1, <2>2
<1> DEFINE legacies == {c \in Conns : connection[c].state = "legacy"}
<1>3. (CHOOSE n \in Names : TRUE) \in Names
  BY NameAssumption
<1>4. NoRow \in Row /\ NoRow.conn = None
  BY <1>3 DEF NoRow, Row
<1>5. \A x \in EarlierRows(legacies) : x \in Row /\ x.conn \in legacies \cup {None}
  <2>1. \A i \in DOMAIN Stages : Stages[i] \in Tables
    BY StageAssumption
  <2> QED
    BY <1>4, <2>1 DEF EarlierRows, Row
<1>6. row \in [Rows -> EarlierRows(legacies)]
  BY DEF Init, TablesInit
<1>7. /\ row \in [Rows -> Row] /\ \A r \in Rows : row[r] \in EarlierRows(legacies)
      /\ \A r \in Rows : row[r].conn \in legacies \cup {None}
  BY <1>5, <1>6
<1>8. /\ flow \in [Flows -> Flow] /\ \A f \in Flows : flow[f] = NoFlow /\ flow[f].at = "idle"
      /\ worker \in [Accounts -> Worker] /\ \A a \in Accounts : WorkerOK(worker[a])
      /\ Here = {}
  BY NoFlowTyped DEF Init, NoWorker, Worker, WorkerOK, Here
<1>9. app \in AppState /\ app.phase = "off" /\ ~app.connecting /\ ~app.disconnecting /\ ready = {}
  BY BudgetAssumption DEF Init, AppState
<1>10. keychain \subseteq Accounts /\ lapsed = {} /\ sup = 0
  BY DEF Init
<1> HIDE DEF legacies
<1>11. TypeOK
  BY <1>2, <1>7, <1>8, <1>9, <1>10 DEF TypeOK, TablesOK, AppState, WorkerOK
<1>12. PhaseOK /\ \A f \in Flows : FlowOK(f)
  BY <1>8, <1>9 DEF PhaseOK, FlowOK, Working
<1> QED
  BY <1>2, <1>7, <1>8, <1>11, <1>12 DEF ControlOK, legacies

LEMMA StepControl ==
  ASSUME ControlOK, [Next]_vars
  PROVE  ControlOK'
<1>1. CASE UNCHANGED vars
  BY <1>1 DEF vars, live, tables, ControlOK, TypeOK, TablesOK, PhaseOK, FlowOK, Working, Here
<1>2. ASSUME NEW f \in Flows, Request(f) PROVE ControlOK'
  BY <1>2, RequestControl, BrokerControl, OnControl DEF Request
<1>3. ASSUME NEW f \in Flows, Reconcile(f) PROVE ControlOK'
  BY <1>3, SweepControl, VerifyControl, OnControl, EndsControl, OpensControl DEF Reconcile
<1> QED
  BY <1>1, <1>2, <1>3, BootsControl, ProgramControl DEF Next

\* The tables, the requests, the reconciliations and the workers are always of their types,
\* and the broker is busy exactly while a sign-in is under way.
THEOREM AccountsTyped == Spec => []TypeOK
<1>1. Init => ControlOK
  BY InitTyped
<1>2. ControlOK /\ [Next]_vars => ControlOK'
  BY StepControl
<1>3. ControlOK => TypeOK
  BY DEF ControlOK
<1> QED
  BY <1>1, <1>2, <1>3, PTL DEF Spec

-----------------------------------------------------------------------------
(* What a step of a flow leaves alone. *)

Others(f) == \A g \in Flows \ {f} : flow'[g] = flow[g]

Asking == {"idle", "connecting", "disconnecting", "clearing"}

LEMMA GoesAlone ==
  ASSUME ControlOK, NEW f \in Flows, NEW at \in {"reading", "clearing", "verifying", "reconciled"},
         Goes(f, at)
  PROVE  /\ Others(f) /\ flow'[f].at = at
         /\ flow'[f].kind = flow[f].kind /\ flow'[f].account = flow[f].account
BY TypedState DEF Goes, Others, Flow

LEMMA RequestAlone ==
  ASSUME ControlOK, NEW f \in Flows, Request(f)
  PROVE  /\ Others(f) /\ flow[f].at \in Asking
         /\ flow'[f].at \in Asking \cup {"reading"}
         /\ ready' = ready /\ sup' = sup /\ Here' = Here /\ app'.phase = app.phase
         /\ UNCHANGED tables
<1>0. flow \in [Flows -> Flow] /\ NoFlow \in Flow /\ NoFlow.at = "idle" /\ flow[f] \in Flow
  BY TypedState, NoFlowTyped
<1>1. ASSUME NEW a \in Accounts, NEW kind, NEW at \in {"connecting", "disconnecting"},
             Requested(f, kind, a, at)
      PROVE  /\ Others(f) /\ flow[f].at = "idle" /\ flow'[f].at = at
             /\ UNCHANGED <<tables, ready, sup, worker>> /\ app'.phase = app.phase
  <2> DEFINE x == [NoFlow EXCEPT !.at = at, !.kind = kind, !.account = a]
  <2>1. flow' = [flow EXCEPT ![f] = x] /\ flow[f].at = "idle"
    BY <1>1 DEF Requested, Idle
  <2>2. x.at = at
    BY DEF NoFlow
  <2>3. app'.phase = app.phase
    BY <1>1, TypedState DEF Requested, Taken, AppState
  <2>4. UNCHANGED <<tables, ready, sup, worker>>
    BY <1>1 DEF Requested
  <2> HIDE DEF x
  <2> QED
    BY <1>0, <2>1, <2>2, <2>3, <2>4 DEF Others
<1>2. ASSUME NEW a \in Accounts, RequestsConnect(f, a) \/ RequestsDisconnect(f, a)
      PROVE  /\ Others(f) /\ flow[f].at \in Asking /\ flow'[f].at \in Asking
             /\ UNCHANGED <<tables, ready, sup, worker>> /\ app'.phase = app.phase
  BY <1>1, <1>2 DEF RequestsConnect, RequestsDisconnect, Asking
<1>3. CASE Connects(f) \/ Declines(f) \/ Clears(f) \/ ClearFails(f)
  <2>1. flow[f].at \in {"connecting", "disconnecting", "clearing"}
    BY <1>3 DEF Connects, Declines, Clears, ClearFails
  <2>2. Goes(f, "reading") \/ Refused(f)
    BY <1>3 DEF Connects, Declines, Clears, ClearFails, Reconciles
  <2>3. app'.phase = app.phase
    BY <1>3, TypedState DEF Connects, Declines, Clears, ClearFails, Reconciles, Freed, AppState
  <2>4. UNCHANGED <<tables, ready, sup, worker>>
    BY <1>3 DEF Connects, Declines, Clears, ClearFails
  <2>5. Others(f) /\ flow'[f].at \in {"idle", "reading"}
    <3>1. CASE Goes(f, "reading")
      BY <3>1, GoesAlone
    <3>2. CASE Refused(f)
      BY <1>0, <3>2 DEF Refused, Others
    <3> QED
      BY <2>2, <3>1, <3>2
  <2> QED
    BY <2>1, <2>3, <2>4, <2>5 DEF Asking, Here
<1>4. CASE Drains(f)
  <2>1. flow[f].account \in Accounts /\ flow[f].at = "disconnecting"
    BY <1>4 DEF Drains, ControlOK, FlowOK
  <2>2. Here' = Here
    BY <1>4, <2>1, WorkerTyped DEF Drains, Here
  <2>3. Others(f) /\ flow'[f].at = "clearing"
    <3>1. Goes(f, "clearing")
      BY <1>4 DEF Drains
    <3> QED
      BY <3>1, GoesAlone
  <2> QED
    BY <1>4, <2>1, <2>2, <2>3 DEF Drains, Asking
<1> QED
  BY <1>2, <1>3, <1>4 DEF Request, Here

\* The steps of a reconciliation up to its end, or to its failure.
Proceeds(f) ==
  \/ Reads(f) \/ SweepBegins(f) \/ Sweeps(f) \/ \E a \in Accounts : Attaches(f, a)
  \/ Migrates(f) \/ (Audits(f) /\ ~Violations(flow[f].pos))

FailsHere(f) ==
  \/ MigrationFails(f) \/ CallFails(f) \/ (Audits(f) /\ Violations(flow[f].pos))

LEMMA ProceedsAlone ==
  ASSUME ControlOK, NEW f \in Flows, Proceeds(f)
  PROVE  /\ Others(f) /\ Working(f) /\ Working(f)'
         /\ flow'[f].kind = flow[f].kind /\ flow'[f].account = flow[f].account
         /\ UNCHANGED <<keychain, app, ready, sup, worker, lapsed>> /\ Here' = Here
<1>0. flow \in [Flows -> Flow] /\ flow[f] \in Flow
  BY TypedState
<1>1. UNCHANGED <<keychain, app, ready, sup, worker, lapsed>> /\ Here' = Here
  BY DEF Proceeds, Reads, SweepBegins, Sweeps, Attaches, Migrates, Audits, Here
<1>2. Working(f)
  BY DEF Proceeds, Reads, SweepBegins, Sweeps, Attaches, Migrates, Audits, Working
<1>3. ASSUME NEW pos, TurnsPage(f, pos, "verifying"), flow[f].at = "sweeping"
      PROVE  /\ Others(f) /\ flow'[f].at \in {"sweeping", "verifying"}
             /\ flow'[f].kind = flow[f].kind /\ flow'[f].account = flow[f].account
  BY <1>0, <1>3 DEF TurnsPage, Others, Flow
<1>4. CASE Reads(f)
  BY <1>0, <1>1, <1>2, <1>4 DEF Reads, Others, Working, Flow
<1>5. CASE SweepBegins(f)
  <2>1. CASE Goes(f, "verifying")
    <3>1. /\ Others(f) /\ flow'[f].at = "verifying"
          /\ flow'[f].kind = flow[f].kind /\ flow'[f].account = flow[f].account
      BY <2>1, GoesAlone
    <3> QED
      BY <1>1, <1>2, <3>1 DEF Working
  <2>2. ASSUME NEW c \in Conns, TurnsPage(f, At("detached", None, c), "verifying")
        PROVE  /\ Others(f) /\ flow'[f].at \in {"sweeping", "verifying"}
               /\ flow'[f].kind = flow[f].kind /\ flow'[f].account = flow[f].account
    BY <1>3, <1>5, <2>2 DEF SweepBegins
  <2> QED
    BY <1>1, <1>2, <1>5, <2>1, <2>2 DEF SweepBegins, Working
<1>6. CASE Sweeps(f)
  BY <1>1, <1>2, <1>3, <1>6 DEF Sweeps, Working
<1>7. ASSUME NEW a \in Accounts, Attaches(f, a)
      PROVE  /\ Others(f) /\ Working(f)'
             /\ flow'[f].kind = flow[f].kind /\ flow'[f].account = flow[f].account
  <2>1. PICK c \in Conns :
          flow' = [flow EXCEPT ![f].at = "migrating", ![f].pos = At("claimed", a, c)]
    BY <1>7, Zenon DEF Attaches
  <2> QED
    BY <1>0, <2>1 DEF Others, Working, Flow
<1>8. CASE Migrates(f)
  BY <1>0, <1>1, <1>2, <1>8 DEF Migrates, Others, Working, Flow
<1>9. CASE Audits(f) /\ ~Violations(flow[f].pos)
  BY <1>0, <1>1, <1>2, <1>9 DEF Audits, Others, Working, Flow
<1> QED
  BY <1>1, <1>2, <1>4, <1>5, <1>6, <1>7, <1>8, <1>9 DEF Proceeds

LEMMA FailsAlone ==
  ASSUME ControlOK, NEW f \in Flows, FailsHere(f)
  PROVE  /\ Working(f) /\ UNCHANGED <<tables, keychain, ready, sup, worker>> /\ Here' = Here
         /\ \/ /\ flow[f].kind = "startup" /\ app.phase = "starting" /\ app'.phase = "off"
               /\ \A g \in Flows : flow'[g] = NoFlow
               /\ UNCHANGED lapsed
            \/ /\ flow[f].kind # "startup" /\ app'.phase = app.phase
               /\ Others(f) /\ flow'[f] = NoFlow /\ Lapsed(f)
<1>0. flow \in [Flows -> Flow] /\ flow[f] \in Flow /\ app \in AppState
  BY TypedState
<1>1. Working(f) /\ UNCHANGED <<tables, keychain, ready, sup, worker>> /\ Here' = Here
  BY DEF FailsHere, MigrationFails, CallFails, Audits, Fails, Working, Here
<1>2. CASE flow[f].kind = "startup"
  <2>1. app.phase = "starting"
    BY <1>1, <1>2 DEF ControlOK, FlowOK, Working
  <2>2. app'.phase = "off"
    BY <1>0, <1>2 DEF FailsHere, MigrationFails, CallFails, Audits, Fails, Off, AppState
  <2>3. flow' = [g \in Flows |-> NoFlow] /\ UNCHANGED lapsed
    BY <1>2 DEF FailsHere, MigrationFails, CallFails, Audits, Fails
  <2> QED
    BY <1>1, <1>2, <2>1, <2>2, <2>3
<1>3. CASE flow[f].kind # "startup"
  <2>1. Refused(f)
    BY <1>3 DEF FailsHere, MigrationFails, CallFails, Audits, Fails
  <2>2. app'.phase = app.phase
    BY <1>0, <1>3 DEF FailsHere, MigrationFails, CallFails, Audits, Fails, AppState
  <2> QED
    BY <1>0, <1>1, <1>3, <2>1, <2>2 DEF Refused, Others
<1> QED
  BY <1>2, <1>3

-----------------------------------------------------------------------------
(* The refreshes of the supervisor. *)

Alive(phase) == phase \in {"starting", "up", "revoked"}

\* Nothing of a refresh that is under way changes, but that one that was overtaken may end.
LEMMA QuietRefresh ==
  ASSUME RefreshOK, ready' = ready, sup' = sup, Here' = Here,
         Alive(app'.phase) => Alive(app.phase),
         \A g \in Flows : Refreshing(g)' \/ Running(g) => flow'[g] = flow[g]
  PROVE  RefreshOK'
<1>1. \A g \in Flows : /\ Running(g)' => Running(g) /\ flow'[g] = flow[g]
                       /\ Running(g) => Running(g)'
                       /\ Refreshing(g)' => Refreshing(g) /\ flow'[g] = flow[g]
  BY DEF Running, Refreshing, Overtaken
<1> QED
  BY <1>1 DEF RefreshOK, Alive

LEMMA NoRefresh ==
  ASSUME \A g \in Flows : ~Refreshing(g)', Alive(app'.phase) => Here' = ready'
  PROVE  RefreshOK'
BY DEF RefreshOK, Refreshing, Running, Alive

LEMMA ExposesRefresh ==
  ASSUME ControlOK, RefreshOK, NEW f \in Flows, Exposes(f)
  PROVE  RefreshOK'
<1>0. sup \in Nat /\ flow[f] \in Flow
  BY TypedState
<1>1. /\ Others(f) /\ flow'[f].at = "listed" /\ flow'[f].ids = flow[f].ids
      /\ flow'[f].generation = sup + 1 /\ ready' = flow[f].ids /\ sup' = sup + 1
  BY <1>0, TypedState DEF Exposes, Others, Flow
<1>2. Running(f)' /\ \A g \in Flows \ {f} : ~Running(g)'
  BY <1>0, <1>1 DEF Running, Overtaken, RefreshOK, Refreshing, Others
<1>3. \A g \in Flows : Refreshing(g)' => flow'[g].generation <= sup'
  <2>1. ASSUME NEW g \in Flows \ {f}, Refreshing(g)' PROVE flow'[g].generation <= sup'
    <3>1. flow'[g] = flow[g] /\ Refreshing(g) /\ flow[g].generation \in Nat
      BY <1>1, <2>1, TypedState DEF Refreshing, Others, Flow
    <3> QED
      BY <1>0, <1>1, <3>1 DEF RefreshOK
  <2> QED
    BY <1>0, <1>1, <2>1
<1> QED
  BY <1>1, <1>2, <1>3 DEF RefreshOK

\* What a refresh that has not been overtaken does after an await.
LEMMA AppliesRefresh ==
  ASSUME ControlOK, RefreshOK, NEW f \in Flows, Refreshing(f),
         NEW rest \in SUBSET Here, Applies(f, rest), Here \ flow[f].ids \subseteq rest,
         UNCHANGED <<app, ready, sup>>
  PROVE  RefreshOK'
<1>0. /\ flow \in [Flows -> Flow] /\ flow[f] \in Flow /\ worker \in [Accounts -> Worker]
      /\ Here \subseteq Accounts
  BY TypedState DEF Here
<1>1. CASE Overtaken(f)
  <2>1. Goes(f, "reconciled") /\ UNCHANGED worker
    BY <1>1 DEF Applies
  <2>2. Others(f) /\ flow'[f].at = "reconciled"
    BY <2>1, GoesAlone
  <2>3. \A g \in Flows : Refreshing(g)' \/ Running(g) => flow'[g] = flow[g]
    BY <1>1, <2>2 DEF Refreshing, Running, Others
  <2> QED
    BY <2>1, <2>3, QuietRefresh DEF Here
<1>2. CASE ~Overtaken(f)
  <2>1. Running(f) /\ (\A g \in Flows \ {f} : ~Running(g)) /\ ready = flow[f].ids
    BY <1>2 DEF Running, Refreshing, RefreshOK
  <2>2. CASE rest = {}
    <3>1. Refreshed(f) /\ Here \subseteq flow[f].ids
      BY <1>2, <2>2 DEF Applies
    <3>2. PICK first : worker' = [a \in Accounts |-> IF a \in flow[f].ids \ Here
                                                    THEN Started(a = first) ELSE worker[a]]
      BY <3>1, Zenon DEF Refreshed
    <3>3. Others(f) /\ flow'[f].at = "reconciled"
      BY <3>1, GoesAlone DEF Refreshed
    <3>4. \A a \in Accounts : worker'[a].here <=> a \in flow[f].ids
      BY <1>0, <3>1, <3>2, WorkerTyped DEF Here
    <3>5. Here' = flow[f].ids
      BY <1>0, <3>4 DEF Here, Flow
    <3>6. \A g \in Flows : ~Running(g)' /\ (Refreshing(g)' => flow'[g] = flow[g] /\ Refreshing(g))
      BY <2>1, <3>3 DEF Refreshing, Running, Overtaken, Others
    <3> QED
      BY <2>1, <3>5, <3>6 DEF RefreshOK
  <2>3. CASE rest # {}
    <3>1. Removes(f, rest)
      BY <1>2, <2>3 DEF Applies
    <3>2. PICK a \in rest :
            /\ worker' = [worker EXCEPT ![a] = NoWorker]
            /\ flow' = [flow EXCEPT ![f].at = "removing", ![f].rest = rest \ {a}]
      BY <3>1, Zenon DEF Removes
    <3>3. /\ Others(f) /\ flow'[f].at = "removing" /\ flow'[f].rest = rest \ {a}
          /\ flow'[f].ids = flow[f].ids /\ flow'[f].generation = flow[f].generation
      BY <1>0, <3>2 DEF Others, Flow
    <3>4. Here' = Here \ {a}
      <4>1. \A b \in Accounts : worker'[b].here <=> b # a /\ worker[b].here
        BY <1>0, <3>2, WorkerTyped
      <4> QED
        BY <4>1 DEF Here
    <3>5. Running(f)' /\ \A g \in Flows \ {f} : ~Running(g)'
      BY <1>2, <2>1, <3>3 DEF Running, Overtaken, Others
    <3>6. \A g \in Flows : Refreshing(g)' => Refreshing(g) /\ flow'[g].generation = flow[g].generation
      BY <3>3 DEF Refreshing, Others
    <3> QED
      BY <2>1, <3>3, <3>4, <3>5, <3>6 DEF RefreshOK
  <2> QED
    BY <2>2, <2>3
<1> QED
  BY <1>1, <1>2

LEMMA RefreshesRefresh ==
  ASSUME ControlOK, RefreshOK, NEW f \in Flows, RefreshAccounts(f)
  PROVE  RefreshOK'
<1>1. UNCHANGED <<app, ready, sup>>
  BY DEF RefreshAccounts
<1>2. CASE flow[f].at = "listed" /\ Applies(f, Here \ flow[f].ids)
  BY <1>1, <1>2, AppliesRefresh DEF Refreshing
<1>3. CASE flow[f].at = "removing" /\ Applies(f, flow[f].rest \cap Here)
  <2>1. CASE Overtaken(f)
    <3>1. Goes(f, "reconciled") /\ UNCHANGED worker
      BY <1>3, <2>1 DEF Applies
    <3>2. Others(f) /\ flow'[f].at = "reconciled"
      BY <3>1, GoesAlone
    <3>3. \A g \in Flows : Refreshing(g)' \/ Running(g) => flow'[g] = flow[g]
      BY <2>1, <3>2 DEF Refreshing, Running, Others
    <3> QED
      BY <1>1, <3>1, <3>3, QuietRefresh DEF Here
  <2>2. CASE ~Overtaken(f)
    <3>1. Here \ flow[f].ids \subseteq flow[f].rest \cap Here
      BY <1>3, <2>2 DEF RefreshOK, Running
    <3> QED
      BY <1>1, <1>3, <3>1, AppliesRefresh DEF Refreshing
  <2> QED
    BY <2>1, <2>2
<1> QED
  BY <1>2, <1>3 DEF RefreshAccounts

LEMMA StepRefresh ==
  ASSUME ControlOK, RefreshOK, [Next]_vars
  PROVE  RefreshOK'
<1>0. NoFlow.at = "idle"
  BY NoFlowTyped
<1>1. CASE UNCHANGED vars
  BY <1>1, QuietRefresh DEF vars, live, Here
<1>2. ASSUME NEW f \in Flows, Request(f) PROVE RefreshOK'
  <2>1. \A g \in Flows : Refreshing(g)' \/ Running(g) => flow'[g] = flow[g]
    BY <1>2, RequestAlone DEF Refreshing, Running, Others, Asking
  <2> QED
    BY <1>2, <2>1, RequestAlone, QuietRefresh
<1>3. ASSUME NEW f \in Flows, Proceeds(f) PROVE RefreshOK'
  <2>1. \A g \in Flows : Refreshing(g)' \/ Running(g) => flow'[g] = flow[g]
    BY <1>3, ProceedsAlone DEF Refreshing, Running, Others, Working
  <2> QED
    BY <1>3, <2>1, ProceedsAlone, QuietRefresh
<1>4. ASSUME NEW f \in Flows, FailsHere(f) PROVE RefreshOK'
  <2>1. CASE app'.phase = "off" /\ \A g \in Flows : flow'[g] = NoFlow
    BY <1>0, <2>1, NoRefresh DEF Refreshing, Alive
  <2>2. CASE app'.phase = app.phase /\ Others(f) /\ flow'[f] = NoFlow
    <3>1. \A g \in Flows : Refreshing(g)' \/ Running(g) => flow'[g] = flow[g]
      BY <1>0, <1>4, <2>2, FailsAlone DEF Refreshing, Running, Others, Working
    <3> QED
      BY <1>4, <2>2, <3>1, FailsAlone, QuietRefresh
  <2> QED
    BY <1>4, <2>1, <2>2, FailsAlone
<1>5. ASSUME NEW f \in Flows, Ends(f) PROVE RefreshOK'
  <2>1. flow' = [flow EXCEPT ![f] = NoFlow] /\ flow[f].at = "reconciled"
        /\ UNCHANGED <<app, ready, sup>>
    BY <1>5 DEF Ends, Refused
  <2>2. \A g \in Flows : Refreshing(g)' \/ Running(g) => flow'[g] = flow[g]
    BY <1>0, <2>1, TypedState DEF Refreshing, Running
  <2> QED
    BY <1>5, <2>1, <2>2, EndsControl, QuietRefresh
<1>6. ASSUME NEW f \in Flows, Opens(f) PROVE RefreshOK'
  <2>1. /\ \A g \in Flows : flow'[g].at = "idle"
        /\ Here' = Here /\ ready' = ready /\ app.phase = "starting"
    BY <1>6, OpensControl DEF Opens
  <2>2. \A g \in Flows : ~Running(g)
    BY <1>6, <2>1 DEF Opens, Running, ControlOK, PhaseOK
  <2> QED
    BY <2>1, <2>2, NoRefresh DEF RefreshOK, Refreshing
<1>7. CASE Boots
  <2>1. \A g \in Flows : flow'[g].at \in {"idle", "reading"}
    BY <1>7, BootsControl
  <2> QED
    BY <1>7, <2>1, BootsControl, NoRefresh DEF Refreshing
<1>8. CASE RefusesDisconnect \/ Revokes
  <2>1. UNCHANGED <<flow, ready, sup>> /\ Here' = Here
    BY <1>8 DEF RefusesDisconnect, Revokes, Here
  <2>2. Alive(app'.phase) => Alive(app.phase)
    BY <1>8, TypedState DEF RefusesDisconnect, Revokes, Alive, AppState
  <2> QED
    BY <2>1, <2>2, QuietRefresh
<1>9. CASE Stops
  BY <1>9, TypedState, NoRefresh DEF Stops, Disposed, Idle, Refreshing, Alive, AppState
<1>10. CASE Killed
  BY <1>0, <1>10, TypedState, NoRefresh DEF Killed, Off, Refreshing, Alive, AppState
<1>11. ASSUME NEW a \in Accounts, StartTimerFires(a) PROVE RefreshOK'
  <2>1. worker' = [worker EXCEPT ![a].timer = FALSE, ![a].runs = TRUE]
        /\ UNCHANGED <<app, flow, ready, sup>>
    BY <1>11 DEF StartTimerFires
  <2>2. \A b \in Accounts : worker'[b].here = worker[b].here
    BY <2>1, TypedState DEF Worker
  <2> QED
    BY <2>1, <2>2, QuietRefresh DEF Here
<1>12. ASSUME NEW f \in Flows, Reconcile(f) PROVE RefreshOK'
  BY <1>3, <1>4, <1>5, <1>6, <1>12, ExposesRefresh, RefreshesRefresh
     DEF Reconcile, Proceeds, FailsHere
<1> QED
  BY <1>1, <1>2, <1>7, <1>8, <1>9, <1>10, <1>11, <1>12 DEF Next

LEMMA InitRefresh ==
  ASSUME Init
  PROVE  RefreshOK
<1>1. \A f \in Flows : flow[f].at = "idle"
  BY InitTyped, NoFlowTyped
<1>2. app.phase = "off"
  BY DEF Init
<1> QED
  BY <1>1, <1>2 DEF RefreshOK, Refreshing, Running

\* The latest of overlapping refreshes decides which workers there are: when none that has not
\* been overtaken is under way, exactly the ready accounts have one, and after an orderly stop
\* nothing is left of any of them (sync-supervisor.ts: refreshAccounts, stop).
THEOREM LatestRefreshWins == Spec => []WorkersFollowReady
<1>1. Init => ControlOK /\ RefreshOK
  BY InitTyped, InitRefresh
<1>2. ControlOK /\ RefreshOK /\ [Next]_vars => (ControlOK /\ RefreshOK)'
  BY StepControl, StepRefresh
<1>3. ControlOK /\ RefreshOK => WorkersFollowReady
  BY DEF ControlOK, PhaseOK, FlowOK, RefreshOK, WorkersFollowReady, Idle
<1> QED
  BY <1>1, <1>2, <1>3, PTL DEF Spec

-----------------------------------------------------------------------------
(* The sleep of a worker. *)

\* Step f is the only one, and what excuses a worker's sleep by f goes on to excuse it.
LEMMA ExcusedStep ==
  ASSUME NEW f \in Flows, NEW a \in Accounts, Others(f), Excused(a),
         a \in lapsed => a \in lapsed', a \notin keychain => a \notin keychain' \/ Excused(a)',
         WillWake(f, a) => Excused(a)',
         flow[f].at = "clearing" /\ flow[f].account = a => Excused(a)'
  PROVE  Excused(a)'
BY DEF Excused, WillWake, Others

LEMMA QuietServed ==
  ASSUME ServedOK, worker' = worker, \A a \in Accounts : Excused(a) => Excused(a)'
  PROVE  ServedOK'
BY DEF ServedOK, SleepOK

\* The broker's requests.
LEMMA RefusedExcused ==
  ASSUME ControlOK, NEW f \in Flows, NEW a \in Accounts, flow'[f] = NoFlow, Others(f), Lapsed(f),
         a \notin keychain => a \notin keychain' \/ a = flow[f].account, Excused(a)
  PROVE  Excused(a)'
<1>1. lapsed' = lapsed \cup ({flow[f].account} \ {None}) /\ a # None
  BY NoneAssumption DEF Lapsed
<1>2. a = flow[f].account => a \in lapsed'
  BY <1>1
<1>3. a = flow[f].account => Excused(a)'
  BY <1>2 DEF Excused
<1> QED
  BY <1>1, <1>3, ExcusedStep DEF WillWake

LEMMA RequestServed ==
  ASSUME ControlOK, ServedOK, NEW f \in Flows, Request(f)
  PROVE  ServedOK'
<1>0. /\ worker \in [Accounts -> Worker] /\ \A a \in Accounts : WorkerOK(worker[a])
      /\ Others(f) /\ flow[f] \in Flow
  BY RequestAlone, TypedState
<1>a. flow[f].at \in {"connecting", "disconnecting", "clearing"} => flow[f].account \in Accounts
  BY FreedTyped
<1>1. ASSUME NEW a \in Accounts, RequestsConnect(f, a) \/ RequestsDisconnect(f, a)
      PROVE  ServedOK'
  <2>1. flow[f].at = "idle" /\ UNCHANGED <<keychain, worker, lapsed>>
    BY <1>1 DEF RequestsConnect, RequestsDisconnect, Requested, Idle
  <2>2. \A b \in Accounts : Excused(b) => Excused(b)'
    BY <1>0, <2>1, ExcusedStep DEF WillWake
  <2> QED
    BY <2>1, <2>2, QuietServed
<1>2. CASE Connects(f)
  <2>0. PICK c \in Accounts : c = flow[f].account
    BY <1>2, <1>a DEF Connects
  <2>1. /\ flow[f].at = "connecting" /\ flow[f].kind = "connect"
        /\ keychain' = keychain \cup {c} /\ worker' = worker /\ Reconciles(f)
    BY <1>2, <2>0 DEF Connects, ControlOK, FlowOK
  <2>2. CASE Refused(f)
    <3>1. flow'[f] = NoFlow /\ Lapsed(f)
      BY <2>2, TypedState DEF Refused
    <3>2. \A a \in Accounts : Excused(a) => Excused(a)'
      BY <1>0, <2>0, <2>1, <3>1, RefusedExcused
    <3> QED
      BY <2>1, <3>2, QuietServed
  <2>3. CASE Goes(f, "reading") /\ UNCHANGED lapsed
    <3>1. flow'[f].at = "reading" /\ flow'[f].kind = "connect" /\ flow'[f].account = c
      BY <2>0, <2>1, <2>3, GoesAlone
    <3>2. WillWake(f, c)'
      BY <3>1 DEF WillWake
    <3>3. Excused(c)'
      BY <3>2 DEF Excused
    <3>4. ASSUME NEW a \in Accounts, Excused(a) PROVE Excused(a)'
      <4>1. CASE a = c
        BY <3>3, <4>1
      <4>2. CASE a # c
        <5>1. a \notin keychain => a \notin keychain'
          BY <2>1, <4>2
        <5> QED
          BY <1>0, <2>1, <2>3, <3>4, <5>1, ExcusedStep DEF WillWake
      <4> QED
        BY <4>1, <4>2
    <3> QED
      BY <2>1, <3>4, QuietServed
  <2> QED
    BY <2>1, <2>2, <2>3 DEF Reconciles
<1>3. CASE Declines(f)
  <2>1. flow'[f] = NoFlow /\ Lapsed(f) /\ UNCHANGED <<keychain, worker>>
    BY <1>3, TypedState DEF Declines, Refused
  <2>2. \A a \in Accounts : Excused(a) => Excused(a)'
    BY <1>0, <2>1, RefusedExcused
  <2> QED
    BY <2>1, <2>2, QuietServed
<1>4. CASE Drains(f)
  <2>0. PICK c \in Accounts : c = flow[f].account
    BY <1>4, <1>a DEF Drains
  <2>1. /\ flow[f].at = "disconnecting" /\ worker' = Drained(c)
        /\ Goes(f, "clearing") /\ UNCHANGED <<keychain, lapsed>>
    BY <1>4, <2>0 DEF Drains
  <2>2. flow'[f].at = "clearing" /\ flow'[f].account = c
    BY <2>0, <2>1, GoesAlone
  <2>3. Excused(c)'
    BY <2>2 DEF Excused
  <2>4. \A a \in Accounts : Excused(a) => Excused(a)'
    BY <1>0, <2>1, <2>3, ExcusedStep DEF WillWake
  <2>5. \A a \in Accounts \ {c} : worker'[a] = worker[a]
    BY <1>0, <2>1 DEF Drained
  <2>6. worker[c].here => worker'[c].asleep
    <3>1. CASE worker[c].here
      <4> DEFINE w == [worker[c] EXCEPT !.timer = FALSE, !.asleep = TRUE]
      <4>1. worker' = [worker EXCEPT ![c] = w]
        BY <2>1, <3>1 DEF Drained
      <4>2. w.asleep
        BY <1>0, <2>1 DEF Worker
      <4> HIDE DEF w
      <4> QED
        BY <1>0, <2>1, <4>1, <4>2
    <3> QED
      BY <3>1
  <2>7. ASSUME NEW a \in Accounts PROVE SleepOK(a)'
    <3>1. CASE a = c
      <4>1. worker'[c].here = worker[c].here
        BY <2>1, WorkerTyped
      <4> QED
        BY <2>3, <2>6, <3>1, <4>1 DEF SleepOK
    <3>2. CASE a # c
      BY <2>4, <2>5, <3>2 DEF ServedOK, SleepOK
    <3> QED
      BY <3>1, <3>2
  <2> QED
    BY <2>7 DEF ServedOK
<1>5. CASE Clears(f)
  <2>0. PICK c \in Accounts : c = flow[f].account
    BY <1>5, <1>a DEF Clears
  <2>1. /\ flow[f].at = "clearing" /\ keychain' = keychain \ {c} /\ worker' = worker
        /\ \A a \in Accounts : a \in lapsed => a \in lapsed'
    BY <1>5, <2>0 DEF Clears, Reconciles, Refused, Lapsed
  <2>2. Excused(c)'
    BY <2>1 DEF Excused
  <2>3. \A a \in Accounts : Excused(a) => Excused(a)'
    BY <1>0, <2>0, <2>1, <2>2, ExcusedStep DEF WillWake
  <2> QED
    BY <2>1, <2>3, QuietServed
<1>6. CASE ClearFails(f)
  <2>1. flow'[f] = NoFlow /\ Lapsed(f) /\ UNCHANGED <<keychain, worker>>
    BY <1>6, TypedState DEF ClearFails, Refused
  <2>2. \A a \in Accounts : Excused(a) => Excused(a)'
    BY <1>0, <2>1, RefusedExcused
  <2> QED
    BY <2>1, <2>2, QuietServed
<1> QED
  BY <1>1, <1>2, <1>3, <1>4, <1>5, <1>6 DEF Request

LEMMA RefreshServed ==
  ASSUME ControlOK, ServedOK, NEW f \in Flows, NEW rest, Applies(f, rest), Refreshing(f),
         rest \subseteq Accounts, UNCHANGED <<keychain, lapsed>>
  PROVE  ServedOK'
<1>0. worker \in [Accounts -> Worker] /\ flow[f] \in Flow /\ flow \in [Flows -> Flow]
  BY TypedState
<1>1. CASE Overtaken(f) \/ rest = {}
  <2>1. Goes(f, "reconciled")
    BY <1>1 DEF Applies, Refreshed
  <2>2. /\ Others(f) /\ flow'[f].at = "reconciled"
        /\ flow'[f].kind = flow[f].kind /\ flow'[f].account = flow[f].account
    BY <2>1, GoesAlone
  <2>3. \A a \in Accounts : WillWake(f, a) => Excused(a)'
    BY <2>2 DEF WillWake, Excused
  <2>4. \A a \in Accounts : Excused(a) => Excused(a)'
    BY <2>2, <2>3, ExcusedStep DEF Refreshing
  <2>5. CASE Overtaken(f)
    BY <2>4, <2>5, QuietServed DEF Applies
  <2>6. CASE ~Overtaken(f)
    <3>1. PICK first : worker' = [a \in Accounts |-> IF a \in flow[f].ids \ Here
                                                    THEN Started(a = first) ELSE worker[a]]
      BY <1>1, <2>6, Zenon DEF Applies, Refreshed
    <3>2. ASSUME NEW a \in Accounts PROVE SleepOK(a)'
      <4>1. CASE worker'[a] = worker[a]
        BY <2>4, <4>1 DEF ServedOK, SleepOK
      <4>2. CASE worker'[a] # worker[a]
        <5>1. worker'[a] = Started(a = first)
          BY <3>1, <4>2
        <5> QED
          BY <5>1, WorkerTyped DEF SleepOK
      <4> QED
        BY <4>1, <4>2
    <3> QED
      BY <3>2 DEF ServedOK
  <2> QED
    BY <2>5, <2>6
<1>2. CASE ~Overtaken(f) /\ rest # {}
  <2>1. PICK c \in rest :
          /\ worker' = [worker EXCEPT ![c] = NoWorker]
          /\ flow' = [flow EXCEPT ![f].at = "removing", ![f].rest = rest \ {c}]
    BY <1>2, Zenon DEF Applies, Removes
  <2>2. /\ Others(f) /\ flow'[f].at = "removing"
        /\ flow'[f].kind = flow[f].kind /\ flow'[f].account = flow[f].account
    BY <1>0, <2>1 DEF Others, Flow
  <2>3. \A a \in Accounts : WillWake(f, a) => Excused(a)'
    BY <2>2 DEF WillWake, Excused
  <2>4. \A a \in Accounts : Excused(a) => Excused(a)'
    BY <2>2, <2>3, ExcusedStep DEF Refreshing
  <2>5. ~worker'[c].here /\ \A a \in Accounts \ {c} : worker'[a] = worker[a]
    BY <1>0, <2>1, WorkerTyped
  <2> QED
    BY <2>4, <2>5 DEF ServedOK, SleepOK
<1> QED
  BY <1>1, <1>2

LEMMA EndsServed ==
  ASSUME ControlOK, ServedOK, NEW f \in Flows, Ends(f)
  PROVE  ServedOK'
<1>0. /\ worker \in [Accounts -> Worker] /\ flow \in [Flows -> Flow]
      /\ flow[f].at = "reconciled" /\ UNCHANGED keychain
  BY TypedState DEF Ends
<1>1. PICK c \in Accounts : c = flow[f].account
  BY DEF Ends, ControlOK, FlowOK
<1>2. flow' = [flow EXCEPT ![f] = NoFlow]
  BY DEF Ends, Refused
<1>3. Others(f) /\ flow'[f] = NoFlow
  BY <1>0, <1>2 DEF Others
<1>4. CASE ~Accepting
  <2>1. Lapsed(f) /\ worker' = worker
    BY <1>4 DEF Ends, Refused
  <2>2. \A a \in Accounts : Excused(a) => Excused(a)'
    BY <1>0, <1>3, <2>1, RefusedExcused
  <2> QED
    BY <2>1, <2>2, QuietServed
<1>5. CASE Accepting /\ flow[f].kind = "connect"
  <2>1. worker' = Woken(c) /\ lapsed' = lapsed \ {c}
    BY <1>1, <1>5 DEF Ends
  <2>2. ASSUME NEW a \in Accounts, a # c PROVE SleepOK(a)'
    <3>1. Excused(a) => Excused(a)'
      BY <1>0, <1>1, <1>3, <2>1, <2>2, ExcusedStep DEF WillWake
    <3>2. worker'[a] = worker[a]
      BY <1>0, <2>1, <2>2 DEF Woken
    <3> QED
      BY <3>1, <3>2 DEF ServedOK, SleepOK
  <2>3. SleepOK(c)'
    <3>1. CASE worker[c].here
      <4> DEFINE w == [worker[c] EXCEPT !.runs = TRUE, !.asleep = FALSE]
      <4>1. worker' = [worker EXCEPT ![c] = w]
        BY <2>1, <3>1 DEF Woken
      <4>2. w.runs /\ ~w.asleep
        BY <1>0 DEF Worker
      <4> HIDE DEF w
      <4> QED
        BY <1>0, <4>1, <4>2 DEF SleepOK
    <3>2. CASE ~worker[c].here
      BY <2>1, <3>2 DEF Woken, SleepOK
    <3> QED
      BY <3>1, <3>2
  <2> QED
    BY <2>2, <2>3 DEF ServedOK
<1>6. CASE Accepting /\ flow[f].kind # "connect"
  <2>1. UNCHANGED <<worker, lapsed>>
    BY <1>6 DEF Ends
  <2>2. \A a \in Accounts : Excused(a) => Excused(a)'
    BY <1>0, <1>3, <1>6, <2>1, ExcusedStep DEF WillWake
  <2> QED
    BY <2>1, <2>2, QuietServed
<1> QED
  BY <1>4, <1>5, <1>6

LEMMA StepServed ==
  ASSUME ControlOK, ServedOK, [Next]_vars
  PROVE  ServedOK'
<1>0. worker \in [Accounts -> Worker] /\ flow \in [Flows -> Flow] /\ app \in AppState
  BY TypedState
<1>1. CASE UNCHANGED vars
  BY <1>1, QuietServed DEF vars, live, Excused, WillWake
<1>2. ASSUME NEW f \in Flows, Proceeds(f) PROVE ServedOK'
  <2>1. \A a \in Accounts : WillWake(f, a) => Excused(a)'
    BY <1>2, ProceedsAlone DEF WillWake, Excused, Working
  <2>2. \A a \in Accounts : Excused(a) => Excused(a)'
    BY <1>2, <2>1, ProceedsAlone, ExcusedStep DEF Working
  <2> QED
    BY <1>2, <2>2, ProceedsAlone, QuietServed
<1>3. ASSUME NEW f \in Flows, FailsHere(f) PROVE ServedOK'
  <2>1. Working(f) /\ UNCHANGED <<keychain, worker>>
    BY <1>3, FailsAlone
  <2>2. CASE Others(f) /\ flow'[f] = NoFlow /\ Lapsed(f)
    <3>1. \A a \in Accounts : Excused(a) => Excused(a)'
      BY <2>1, <2>2, RefusedExcused
    <3> QED
      BY <2>1, <3>1, QuietServed
  <2>3. CASE flow[f].kind = "startup" /\ app.phase = "starting" /\ UNCHANGED lapsed
    <3>1. \A g \in Flows \ {f} : flow[g].at = "idle"
      BY <2>1, <2>3 DEF ControlOK, PhaseOK, Working
    <3>2. \A a \in Accounts : Excused(a) => Excused(a)'
      BY <2>1, <2>3, <3>1 DEF Excused, WillWake, Working
    <3> QED
      BY <2>1, <3>2, QuietServed
  <2> QED
    BY <1>3, <2>2, <2>3, FailsAlone
<1>4. ASSUME NEW f \in Flows, Exposes(f) PROVE ServedOK'
  <2>1. /\ Others(f) /\ flow[f].at = "verifying" /\ flow'[f].at = "listed"
        /\ flow'[f].kind = flow[f].kind /\ flow'[f].account = flow[f].account
        /\ UNCHANGED <<keychain, worker, lapsed>>
    BY <1>0, <1>4 DEF Exposes, Others, Flow
  <2>2. \A a \in Accounts : WillWake(f, a) => Excused(a)'
    BY <2>1 DEF WillWake, Excused
  <2>3. \A a \in Accounts : Excused(a) => Excused(a)'
    BY <2>1, <2>2, ExcusedStep
  <2> QED
    BY <2>1, <2>3, QuietServed
<1>5. ASSUME NEW f \in Flows, RefreshAccounts(f) PROVE ServedOK'
  <2>1. Refreshing(f) /\ UNCHANGED <<keychain, lapsed>>
    BY <1>5 DEF RefreshAccounts, Refreshing
  <2>2. Here \ flow[f].ids \subseteq Accounts /\ flow[f].rest \cap Here \subseteq Accounts
    BY DEF Here
  <2> QED
    BY <1>5, <2>1, <2>2, RefreshServed DEF RefreshAccounts
<1>6. ASSUME NEW f \in Flows, Opens(f) PROVE ServedOK'
  <2>1. /\ flow[f].kind = "startup" /\ flow[f].at = "reconciled" /\ app.phase = "starting"
        /\ UNCHANGED <<keychain, worker, lapsed>>
    BY <1>6, OpensControl DEF Opens
  <2>2. \A g \in Flows \ {f} : flow[g].at = "idle"
    BY <2>1 DEF ControlOK, PhaseOK
  <2>3. \A a \in Accounts : Excused(a) => Excused(a)'
    BY <2>1, <2>2 DEF Excused, WillWake
  <2> QED
    BY <2>1, <2>3, QuietServed
<1>7. CASE Boots
  BY <1>7, BootsControl DEF ServedOK, SleepOK, Here
<1>8. CASE RefusesDisconnect \/ Revokes
  BY <1>8, QuietServed DEF RefusesDisconnect, Revokes, Excused, WillWake
<1>9. CASE Stops \/ Killed
  <2>1. worker' = [a \in Accounts |-> NoWorker]
    BY <1>9 DEF Stops, Killed
  <2> QED
    BY <2>1, WorkerTyped DEF ServedOK, SleepOK
<1>10. ASSUME NEW a \in Accounts, StartTimerFires(a) PROVE ServedOK'
  <2>1. UNCHANGED <<keychain, lapsed, flow>>
    BY <1>10 DEF StartTimerFires
  <2>2. \A b \in Accounts : Excused(b) => Excused(b)'
    BY <2>1 DEF Excused, WillWake
  <2> DEFINE w == [worker[a] EXCEPT !.timer = FALSE, !.runs = TRUE]
  <2>3. worker' = [worker EXCEPT ![a] = w]
    BY <1>10 DEF StartTimerFires
  <2>4. w.here = worker[a].here /\ w.asleep = worker[a].asleep /\ w.runs
    BY <1>0 DEF Worker
  <2> HIDE DEF w
  <2> QED
    BY <1>0, <2>2, <2>3, <2>4 DEF ServedOK, SleepOK
<1>11. ASSUME NEW f \in Flows, Reconcile(f) PROVE ServedOK'
  BY <1>2, <1>3, <1>4, <1>5, <1>6, <1>11, EndsServed DEF Reconcile, Proceeds, FailsHere
<1> QED
  BY <1>1, <1>7, <1>8, <1>9, <1>10, <1>11, RequestServed DEF Next

\* When the user's requests are over and the identities exposed are those of the keychain, every
\* connected account has a worker, and one that is awake or about to start unless the last
\* request for it failed (router.ts: handlers, sync-supervisor.ts: drain, wake).
THEOREM ConnectedAccountsServed == Spec => []AccountsServed
<1>1. Init => ControlOK /\ RefreshOK /\ ServedOK
  <2>1. Init => \A a \in Accounts : ~worker[a].here
    BY WorkerTyped, InitTyped DEF Init
  <2> QED
    BY <2>1, InitTyped, InitRefresh DEF ServedOK, SleepOK
<1>2. ControlOK /\ RefreshOK /\ ServedOK /\ [Next]_vars => (ControlOK /\ RefreshOK /\ ServedOK)'
  BY StepControl, StepRefresh, StepServed
<1>3. ControlOK /\ RefreshOK /\ ServedOK => AccountsServed
  <2> SUFFICES ASSUME ControlOK, RefreshOK, ServedOK,
                      app.phase = "up", \A f \in Flows : Idle(f), ready = keychain,
                      NEW a \in Accounts
               PROVE  /\ worker[a].here <=> a \in keychain
                      /\ worker[a].here /\ a \notin lapsed =>
                           ~worker[a].asleep /\ (worker[a].runs \/ worker[a].timer)
    BY DEF AccountsServed
  <2>1. Here = ready
    BY DEF RefreshOK, Running, Idle
  <2>2. \A f \in Flows : ~WillWake(f, a) /\ flow[f].at # "clearing"
    BY DEF WillWake, Idle
  <2> QED
    BY <2>1, <2>2 DEF Here, ServedOK, SleepOK, Excused
<1> QED
  BY <1>1, <1>2, <1>3, PTL DEF Spec

-----------------------------------------------------------------------------
(* The rows of the tables.  What any step of a reconciliation keeps: rows get *)
(* under a connection and stay there, an account keeps its connection and     *)
(* gets one only after the sweep, and what is proven stays proven.            *)

ProvenAs(r, a, c) == row[r].conn = c \/ row[r].label = a => Proven(r, a, c)

Onward ==
  /\ \A r \in Rows : row'[r].table = row[r].table /\ (Unscoped(r)' => Unscoped(r))
  /\ \A c \in Conns : connection[c].account # None =>
       /\ connection'[c].account = connection[c].account
       /\ connection[c].state = "complete" => connection'[c].state = "complete"
  /\ \A c \in Conns : connection'[c].account # None /\ connection[c].account = None => AllScoped
  /\ \A a \in Accounts, c \in Conns, r \in Rows :
       connection[c].account = a /\ ProvenAs(r, a, c) => ProvenAs(r, a, c)'

LEMMA OnwardKeeps ==
  ASSUME Onward
  PROVE  /\ AllScoped => AllScoped'
         /\ \A a \in Accounts : AccountProven(a) => AccountProven(a)'
<1>1. AllScoped => AllScoped'
  BY DEF Onward, AllScoped
<1>2. ASSUME NEW a \in Accounts, AccountProven(a) PROVE AccountProven(a)'
  <2>1. PICK c \in Conns : /\ connection[c].account = a /\ connection[c].state = "complete"
                           /\ \A r \in Rows : ProvenAs(r, a, c)
    BY <1>2 DEF AccountProven, ProvenAs
  <2>2. connection'[c].account = a /\ connection'[c].state = "complete"
    BY <2>1, NoneAssumption DEF Onward
  <2>3. \A r \in Rows : ProvenAs(r, a, c)'
    BY <2>1 DEF Onward
  <2> QED
    BY <2>2, <2>3 DEF AccountProven, ProvenAs
<1> QED
  BY <1>1, <1>2

LEMMA OnwardAudited ==
  ASSUME Onward, NEW a \in Accounts, NEW c \in Conns, NEW n, connection[c].account = a,
         Audited(a, c, n)
  PROVE  Audited(a, c, n)'
<1>1. \A r \in Rows : row[r].table \in StageTables(n) => ProvenAs(r, a, c)
  BY DEF Audited, ProvenAs
<1>2. \A r \in Rows : row'[r].table \in StageTables(n) => ProvenAs(r, a, c)'
  BY <1>1 DEF Onward
<1> QED
  BY <1>2 DEF Audited, ProvenAs, StageTables

\* Another reconciliation stands where it stood.
LEMMA OnwardPosition ==
  ASSUME ControlOK, Onward, NEW g \in Flows, flow'[g] = flow[g], PositionOK(g)
  PROVE  PositionOK(g)'
<1> DEFINE at == flow[g].at
           pos == flow[g].pos
<1>0. flow[g] \in Flow /\ flow[g].ids \subseteq Accounts
  BY TypedState DEF Flow
<1>1. AllScoped => AllScoped'
  BY OnwardKeeps
<1>2. \A a \in Accounts : AccountProven(a) => AccountProven(a)'
  BY OnwardKeeps
<1>3. ASSUME NEW p, SweptOK(p) PROVE SweptOK(p)'
  <2>1. p.conn \in Conns /\ (connection[p.conn].account # None => AllScoped)
    BY <1>3 DEF SweptOK
  <2>2. connection'[p.conn].account # None => AllScoped
    BY <2>1 DEF Onward
  <2>3. \A r \in Rows : Unscoped(r)' => row'[r].table \notin StageTables(p.stage - 1)
    BY <1>3 DEF SweptOK, Onward
  <2> QED
    BY <1>1, <1>3, <2>2, <2>3 DEF SweptOK, StageTables
<1>4. ASSUME NEW p, PlacedOK(p) PROVE PlacedOK(p)'
  BY <1>4, NoneAssumption DEF PlacedOK, Onward
<1>5. ASSUME NEW p, PlacedOK(p), Audited(p.account, p.conn, p.stage - 1)
      PROVE  Audited(p.account, p.conn, p.stage - 1)'
  BY <1>5, OnwardAudited DEF PlacedOK
<1> QED
  BY <1>0, <1>1, <1>2, <1>3, <1>4, <1>5 DEF PositionOK

LEMMA OnwardStep ==
  ASSUME ControlOK, TablesInv, Onward, ConnectionsOK', \A r \in Rows : RowOK(r)',
         NEW f \in Flows, Others(f), PositionOK(f)', ready' = ready
  PROVE  TablesInv'
<1>1. \A g \in Flows : PositionOK(g)'
  BY OnwardPosition DEF TablesInv, Others
<1>2. \A a \in ready' : AccountProven(a)'
  BY OnwardKeeps, TypedState DEF TablesInv
<1> QED
  BY <1>1, <1>2 DEF TablesInv

LEMMA Still ==
  ASSUME ControlOK, TablesInv, UNCHANGED tables
  PROVE  /\ Onward /\ ConnectionsOK' /\ \A r \in Rows : RowOK(r)'
         /\ \A a \in Accounts : AccountProven(a)' <=> AccountProven(a)
         /\ AllScoped' <=> AllScoped
BY DEF tables, Onward, TablesInv, ConnectionsOK, Detached, RowOK, ProvenAs, Proven, Unscoped,
       AccountProven, AllScoped

LEMMA StageOfRow ==
  ASSUME NEW n \in 1..Len(Stages)
  PROVE  /\ StageTables(n) = StageTables(n - 1) \cup {Stages[n]}
         /\ Stages[n] \in Tables /\ Stages[n] # "none"
         /\ StageTables(n) \subseteq StageTables(Len(Stages))
         /\ StageTables(0) = {}
<1>1. Len(Stages) \in Nat
  BY StageAssumption
<1>2. 1..n = 1..(n - 1) \cup {n} /\ 1..n \subseteq 1..Len(Stages)
  BY <1>1
<1>3. Stages[n] \in Tables /\ "none" \notin Tables
  BY StageAssumption DEF Tables
<1>4. 1..0 = {}
  OBVIOUS
<1> QED
  BY <1>2, <1>3, <1>4 DEF StageTables

\* A page of the sweep moves only rows that nobody has.
LEMMA SweepMoves ==
  ASSUME ControlOK, TablesInv, NEW pos \in Position,
         pos.mode = "detached", pos.conn \in Conns, pos.stage \in 1..Len(Stages),
         row' = MovedRows(pos), connection[pos.conn].account # None => AllScoped,
         \/ connection' = connection
         \/ /\ connection' = SweptTo(pos.conn) /\ connection[pos.conn].account = None
            /\ Detached \subseteq {pos.conn}
  PROVE  /\ Onward /\ ConnectionsOK' /\ \A r \in Rows : RowOK(r)'
         /\ connection' # connection => connection'[pos.conn].account = None
         /\ \A r \in Rows : Unscoped(r)' => Unscoped(r) /\ row[r].table # Stages[pos.stage]
<1> DEFINE c == pos.conn
<1>0. row \in [Rows -> Row] /\ connection \in [Conns -> Connection] /\ c \in Conns /\ c # None
  BY TypedState, NoneAssumption
<1>1. ASSUME NEW r \in Rows
      PROVE  /\ row'[r].table = row[r].table /\ row'[r].label = row[r].label
             /\ row'[r].key = row[r].key
             /\ \/ row'[r].conn = row[r].conn
                \/ Unscoped(r) /\ row'[r].conn = c
             /\ Unscoped(r) /\ row[r].table = Stages[pos.stage] => row'[r].conn = c
  <2>1. row[r] \in Row
    BY <1>0
  <2>2. row'[r] = IF OnPage(r, pos) /\ BelongsTo(r, pos) THEN Moved(r, pos) ELSE row[r]
    BY MovedTyped, TypedState
  <2>3. Moved(r, pos) = [row[r] EXCEPT !.conn = c]
    BY DEF Moved
  <2>4. BelongsTo(r, pos) <=> row[r].conn = c \/ Unscoped(r)
    BY DEF BelongsTo
  <2> QED
    BY <2>1, <2>2, <2>3, <2>4 DEF OnPage, Row
<1>2. \A r \in Rows : Unscoped(r)' => Unscoped(r) /\ row[r].table # Stages[pos.stage]
  BY <1>0, <1>1 DEF Unscoped
<1>3. /\ \A d \in Conns \ {c} : connection'[d] = connection[d]
      /\ connection' = connection
           \/ (connection'[c] = [account |-> None, state |-> "detached"]
               /\ connection[c].account = None /\ Detached \subseteq {c})
  BY <1>0 DEF SweptTo
<1>4. Onward
  <2>1. \A d \in Conns : connection'[d].account = connection[d].account
    BY <1>3
  <2>2. \A d \in Conns : connection[d].account # None => connection'[d] = connection[d]
    BY <1>3
  <2>3. ASSUME NEW a \in Accounts, NEW d \in Conns, NEW r \in Rows,
               connection[d].account = a, ProvenAs(r, a, d)
        PROVE  ProvenAs(r, a, d)'
    <3>1. CASE row'[r].conn = row[r].conn
      BY <1>1, <2>3, <3>1 DEF ProvenAs, Proven
    <3>2. CASE Unscoped(r) /\ row'[r].conn = c
      <4>1. a # None
        BY NoneAssumption
      <4>2. c # d
        BY <2>3, <3>2, <4>1 DEF AllScoped
      <4>3. row'[r].label = None
        BY <1>1, <3>2 DEF Unscoped
      <4> QED
        BY <3>2, <4>1, <4>2, <4>3 DEF ProvenAs
    <3> QED
      BY <1>1, <3>1, <3>2
  <2> QED
    BY <1>1, <1>2, <2>1, <2>2, <2>3 DEF Onward
<1>5. ConnectionsOK'
  <2>1. CASE connection' = connection
    BY <2>1 DEF TablesInv, ConnectionsOK, Detached
  <2>2. CASE connection' # connection
    <3>1. Detached' \subseteq {c}
      BY <1>3, <2>2 DEF Detached
    <3>2. \A d \in Conns : connection'[d].account = connection[d].account
      BY <1>3
    <3>3. \A d \in Conns : connection'[d].account = None
                             <=> connection'[d].state \in {"absent", "legacy", "detached"}
      BY <1>3, <2>2 DEF TablesInv, ConnectionsOK
    <3> QED
      BY <3>1, <3>2, <3>3 DEF TablesInv, ConnectionsOK
  <2> QED
    BY <2>1, <2>2
<1>6. \A r \in Rows : RowOK(r)'
  BY <1>1 DEF TablesInv, RowOK, Unscoped, StageTables
<1>7. connection' # connection => connection'[c].account = None
  BY <1>3
<1> QED
  BY <1>2, <1>4, <1>5, <1>6, <1>7

\* A page of the migration of an account moves rows under its connection and its keys.
LEMMA MigrationMoves ==
  ASSUME ControlOK, TablesInv, NEW pos \in Position, pos.mode = "claimed", PlacedOK(pos),
         AllScoped, row' = MovedRows(pos), connection' = Completed(pos)
  PROVE  /\ Onward /\ ConnectionsOK' /\ \A r \in Rows : RowOK(r)'
         /\ connection'[pos.conn].account = pos.account
<1> DEFINE b == pos.account
           c == pos.conn
<1>0. /\ row \in [Rows -> Row] /\ connection \in [Conns -> Connection]
      /\ b \in Accounts /\ c \in Conns /\ pos.stage \in 1..Len(Stages)
      /\ connection[c].account = b /\ c # None /\ b # None
  BY TypedState, NoneAssumption DEF PlacedOK
<1>1. ASSUME NEW r \in Rows, row'[r] # row[r]
      PROVE  /\ row'[r].table = row[r].table /\ row'[r].conn = c /\ row'[r].key = b
             /\ IF row[r].table = "recurringSeries" THEN row'[r].label = row[r].label
                                                    ELSE row'[r].label = b
             /\ row[r].table # "none"
  <2>1. row[r] \in Row /\ Stages[pos.stage] # "none"
    BY <1>0, StageOfRow
  <2>2. row'[r] = Moved(r, pos) /\ OnPage(r, pos)
    BY <1>1, MovedTyped, TypedState
  <2>3. Moved(r, pos) = [row[r] EXCEPT !.conn = c, !.key = b,
                                       !.label = IF row[r].table = "recurringSeries" THEN @ ELSE b]
    BY DEF Moved
  <2> QED
    BY <2>1, <2>2, <2>3 DEF OnPage, Row
<1>2. /\ \A d \in Conns \ {c} : connection'[d] = connection[d]
      /\ connection'[c].account = b
      /\ connection'[c].state \in {connection[c].state, "complete"}
  BY <1>0 DEF Completed, Connection
<1>3. \A r \in Rows : row'[r].table = row[r].table /\ (Unscoped(r)' => Unscoped(r))
  BY <1>0, <1>1 DEF Unscoped
<1>4. Onward
  <2>1. ASSUME NEW a \in Accounts, NEW d \in Conns, NEW r \in Rows,
               connection[d].account = a, ProvenAs(r, a, d)
        PROVE  ProvenAs(r, a, d)'
    <3>1. CASE row'[r] = row[r]
      BY <2>1, <3>1 DEF ProvenAs, Proven
    <3>2. CASE row'[r] # row[r] /\ a = b
      <4>1. d = c
        BY <1>0, <2>1, <3>2 DEF TablesInv, ConnectionsOK
      <4> QED
        BY <1>1, <3>2, <4>1 DEF ProvenAs, Proven
    <3>3. CASE row'[r] # row[r] /\ a # b
      <4>1. d # c
        BY <1>0, <2>1, <3>3
      <4>2. row'[r].label \in {b, None}
        BY <1>1, <3>3 DEF TablesInv, RowOK
      <4>3. a # None
        BY NoneAssumption
      <4> QED
        BY <1>1, <3>3, <4>1, <4>2, <4>3 DEF ProvenAs
    <3> QED
      BY <3>1, <3>2, <3>3
  <2>2. \A d \in Conns : /\ connection'[d].account = connection[d].account
                         /\ connection[d].state = "complete" => connection'[d].state = "complete"
    BY <1>0, <1>2
  <2> QED
    BY <1>3, <2>1, <2>2 DEF Onward
<1>5. ConnectionsOK'
  <2>1. connection[c].state \notin {"absent", "legacy", "detached"}
    BY <1>0 DEF TablesInv, ConnectionsOK
  <2>2. Detached' = Detached
    BY <1>2, <2>1 DEF Detached
  <2>3. \A d \in Conns : connection'[d].account = connection[d].account
    BY <1>0, <1>2
  <2>4. \A d \in Conns : connection'[d].account = None
                           <=> connection'[d].state \in {"absent", "legacy", "detached"}
    BY <1>0, <1>2, <2>1 DEF TablesInv, ConnectionsOK
  <2> QED
    BY <2>2, <2>3, <2>4 DEF TablesInv, ConnectionsOK
<1>6. \A r \in Rows : RowOK(r)'
  BY <1>1, <1>3 DEF TablesInv, RowOK, StageTables
<1> QED
  BY <1>2, <1>4, <1>5, <1>6

\* An account gets the connection that nobody has, or a new one, once it has none.
LEMMA AttachedMoves ==
  ASSUME ControlOK, TablesInv, NEW a \in Accounts, connection' = Attached(a), row' = row,
         AllScoped, OfAccount(a) = {} /\ Detached = {} => HasFresh
  PROVE  Onward /\ ConnectionsOK' /\ \A r \in Rows : RowOK(r)'
<1>0. connection \in [Conns -> Connection] /\ a # None
  BY TypedState, NoneAssumption
<1>1. CASE OfAccount(a) # {}
  <2>1. connection' = connection
    BY <1>1 DEF Attached
  <2> QED
    BY <2>1, Still DEF tables
<1>2. CASE OfAccount(a) = {}
  <2>1. PICK c \in Conns, st \in {"claimed", "complete"} :
          /\ connection[c].state \in {"absent", "legacy", "detached"}
          /\ connection' = [connection EXCEPT ![c] = [account |-> a, state |-> st]]
    <3>1. CASE Detached # {}
      <4>1. PICK d \in Conns : Detached = {d}
        BY <3>1 DEF TablesInv, ConnectionsOK, Detached
      <4>2. Cardinality(Detached) = 1 /\ (CHOOSE x \in Detached : TRUE) = d
        BY <4>1, FS_Singleton
      <4>3. connection' = Claim(a, d)
        BY <1>2, <4>2 DEF Attached
      <4>4. connection[d].state \in {"legacy", "detached"}
        BY <4>1 DEF Detached
      <4> QED
        BY <4>3, <4>4 DEF Claim
    <3>2. CASE Detached = {}
      <4>1. Cardinality(Detached) # 1
        BY <3>2, FS_EmptySet
      <4>2. connection' = Open(a)
        BY <1>2, <4>1 DEF Attached
      <4>3. Fresh \in Conns /\ connection[Fresh].state = "absent"
        BY <1>2, <3>2 DEF HasFresh, Fresh
      <4> QED
        BY <4>2, <4>3, Zenon DEF Open
    <3> QED
      BY <3>1, <3>2
  <2>2. connection'[c].account = a /\ connection'[c].state = st
        /\ \A d \in Conns \ {c} : connection'[d] = connection[d]
    BY <1>0, <2>1
  <2>3. connection[c].account = None /\ \A d \in Conns : connection[d].account # a
    BY <1>2, <2>1 DEF TablesInv, ConnectionsOK, OfAccount
  <2>4. Detached' \subseteq Detached
    BY <2>2 DEF Detached
  <2>5. ConnectionsOK'
    <3>1. \A d \in Conns : connection'[d].account = None
                             <=> connection'[d].state \in {"absent", "legacy", "detached"}
      BY <1>0, <2>2 DEF TablesInv, ConnectionsOK
    <3>2. \A d, e \in Conns : connection'[d].account = connection'[e].account
                                /\ connection'[d].account # None => d = e
      BY <2>2, <2>3 DEF TablesInv, ConnectionsOK
    <3> QED
      BY <2>4, <3>1, <3>2 DEF TablesInv, ConnectionsOK
  <2>6. Onward
    <3>1. \A d \in Conns : connection[d].account # None => connection'[d] = connection[d]
      BY <2>2, <2>3
    <3> QED
      BY <3>1 DEF Onward, Unscoped, ProvenAs, Proven
  <2>7. \A r \in Rows : RowOK(r)'
    BY DEF TablesInv, RowOK
  <2> QED
    BY <2>5, <2>6, <2>7
<1> QED
  BY <1>1, <1>2

\* The end of a sweep: no row is left that nobody has.
LEMMA SweepEnds ==
  ASSUME ControlOK, NEW n \in 1..Len(Stages), \A r \in Rows : RowOK(r)',
         \A r \in Rows : Unscoped(r)' => row'[r].table \notin StageTables(n)
  PROVE  n = Len(Stages) => AllScoped'
BY DEF AllScoped, RowOK, Unscoped, StageTables

\* A page of the sweep takes a reconciliation to the next page, or past the sweep.
LEMMA PageTables ==
  ASSUME ControlOK, TablesInv, NEW f \in Flows, flow[f].at = "sweeping",
         NEW pos \in Position,
         pos.mode = "detached", pos.conn \in Conns, pos.stage \in 1..Len(Stages),
         \A r \in Rows : Unscoped(r) => row[r].table \notin StageTables(pos.stage - 1),
         row' = MovedRows(pos), connection[pos.conn].account # None => AllScoped,
         \/ connection' = connection
         \/ /\ connection' = SweptTo(pos.conn) /\ connection[pos.conn].account = None
            /\ Detached \subseteq {pos.conn},
         TurnsPage(f, pos, "verifying"), ready' = ready
  PROVE  TablesInv'
<1>0. flow \in [Flows -> Flow] /\ flow[f] \in Flow /\ Len(Stages) \in Nat
  BY TypedState, FieldTyped
<1>1. /\ Onward /\ ConnectionsOK' /\ \A r \in Rows : RowOK(r)'
      /\ connection' # connection => connection'[pos.conn].account = None
      /\ \A r \in Rows : Unscoped(r)' => Unscoped(r) /\ row[r].table # Stages[pos.stage]
  BY SweepMoves
<1>2. \A r \in Rows : Unscoped(r)' => row'[r].table \notin StageTables(pos.stage)
  BY <1>1, StageOfRow DEF Onward
<1>3. /\ Others(f) /\ flow'[f].ids = flow[f].ids /\ flow'[f].todo = flow[f].todo
      /\ flow'[f].at  = IF LastPage(pos) THEN "verifying" ELSE "sweeping"
      /\ flow'[f].pos = IF LastPage(pos) THEN NoPosition ELSE NextPage(pos)
  BY <1>0 DEF TurnsPage, Others, Flow
<1>4. \A a \in flow'[f].ids \ flow'[f].todo : AccountProven(a)'
  <2>1. \A a \in flow[f].ids \ flow[f].todo : AccountProven(a) /\ a \in Accounts
    BY <1>0 DEF TablesInv, PositionOK, Flow
  <2> QED
    BY <1>1, <1>3, <2>1, OnwardKeeps
<1>5. CASE LastPage(pos)
  <2>1. AllScoped'
    BY <1>1, <1>2, <1>5, SweepEnds DEF LastPage
  <2>2. PositionOK(f)'
    BY <1>3, <1>4, <1>5, <2>1 DEF PositionOK
  <2> QED
    BY <1>1, <1>3, <2>2, OnwardStep
<1>6. CASE ~LastPage(pos)
  <2> DEFINE p == NextPage(pos)
  <2>1. p.mode = "detached" /\ p.conn = pos.conn /\ p.stage = pos.stage + 1
        /\ p.stage \in 1..Len(Stages) /\ p.stage - 1 = pos.stage
    BY <1>0, <1>6 DEF NextPage, LastPage, Position
  <2>2. connection'[pos.conn].account # None => AllScoped'
    BY <1>1, OnwardKeeps
  <2>3. flow'[f].pos = p /\ flow'[f].at = "sweeping"
    BY <1>3, <1>6
  <2> HIDE DEF p
  <2>4. SweptOK(flow[f].pos)'
    BY <1>2, <2>1, <2>2, <2>3 DEF SweptOK
  <2>5. PositionOK(f)'
    BY <1>4, <2>3, <2>4 DEF PositionOK
  <2> QED
    BY <1>1, <1>3, <2>5, OnwardStep
<1> QED
  BY <1>5, <1>6

LEMMA SweepTables ==
  ASSUME ControlOK, TablesInv, NEW f \in Flows, Reads(f) \/ SweepBegins(f) \/ Sweeps(f)
  PROVE  TablesInv'
<1>0. flow \in [Flows -> Flow] /\ flow[f] \in Flow /\ flow[f].pos \in Position
      /\ Len(Stages) \in Nat /\ Len(Stages) > 0
  BY TypedState, FieldTyped
<1>1. CASE Reads(f)
  <2>1. UNCHANGED tables /\ ready' = ready /\ flow[f].at = "reading"
    BY <1>1 DEF Reads
  <2>2. /\ Others(f) /\ flow'[f].at = "sweeping" /\ flow'[f].pos = flow[f].pos
        /\ flow'[f].ids = flow'[f].todo
    BY <1>0, <1>1 DEF Reads, Others, Flow
  <2>3. flow[f].pos = NoPosition
    BY <2>1 DEF TablesInv, PositionOK
  <2>4. PositionOK(f)'
    BY <2>2, <2>3 DEF PositionOK
  <2> QED
    BY <2>1, <2>2, <2>4, Still, OnwardStep
<1>2. CASE SweepBegins(f)
  <2>0. flow[f].at = "sweeping" /\ ready' = ready
    BY <1>2 DEF SweepBegins
  <2>1. CASE Detached = {} /\ \A r \in Rows : ~Unscoped(r)
    <3>1. Goes(f, "verifying") /\ UNCHANGED tables /\ AllScoped
      BY <1>2, <2>1 DEF SweepBegins, AllScoped
    <3>2. /\ Others(f) /\ flow'[f].at = "verifying"
          /\ flow'[f].ids = flow[f].ids /\ flow'[f].todo = flow[f].todo
      BY <1>0, <3>1 DEF Goes, Others, Flow
    <3>3. \A a \in flow'[f].ids \ flow'[f].todo : AccountProven(a)'
      <4>1. \A a \in flow[f].ids \ flow[f].todo : AccountProven(a) /\ a \in Accounts
        BY <1>0, <2>0 DEF TablesInv, PositionOK, Flow
      <4> QED
        BY <3>1, <3>2, <4>1, Still
    <3>4. PositionOK(f)'
      BY <3>1, <3>2, <3>3, Still DEF PositionOK
    <3> QED
      BY <2>0, <3>1, <3>2, <3>4, Still, OnwardStep
  <2>2. CASE ~(Detached = {} /\ \A r \in Rows : ~Unscoped(r))
    <3>1. PICK c \in Conns :
            /\ \/ Detached = {c}
               \/ Detached = {} /\ HasFresh /\ c = Fresh
            /\ connection' = SweptTo(c)
            /\ row' = MovedRows(At("detached", None, c))
            /\ TurnsPage(f, At("detached", None, c), "verifying")
      BY <1>2, <2>2, Zenon DEF SweepBegins
    <3> DEFINE pos == At("detached", None, c)
    <3>2. /\ pos \in Position /\ pos.mode = "detached" /\ pos.conn = c /\ pos.stage = 1
          /\ pos.stage \in 1..Len(Stages)
      BY <1>0, AtTyped DEF At
    <3>3. connection[c].account = None
      <4>1. connection[c].state \in {"absent", "legacy", "detached"}
        BY <3>1 DEF HasFresh, Fresh, Detached
      <4> QED
        BY <4>1 DEF TablesInv, ConnectionsOK
    <3>4. \A r \in Rows : row[r].table \notin StageTables(0)
      BY <1>0, StageOfRow
    <3> HIDE DEF pos
    <3>5. \A r \in Rows : Unscoped(r) => row[r].table \notin StageTables(pos.stage - 1)
      BY <3>2, <3>4
    <3>6. /\ connection' = SweptTo(pos.conn) /\ connection[pos.conn].account = None
          /\ Detached \subseteq {pos.conn} /\ pos.conn \in Conns
      BY <3>1, <3>2, <3>3
    <3>7. row' = MovedRows(pos) /\ TurnsPage(f, pos, "verifying")
      BY <3>1 DEF pos
    <3> QED
      BY <2>0, <3>2, <3>5, <3>6, <3>7, PageTables
  <2> QED
    BY <2>1, <2>2
<1>3. CASE Sweeps(f)
  <2> DEFINE pos == flow[f].pos
  <2>1. /\ flow[f].at = "sweeping" /\ pos # NoPosition /\ row' = MovedRows(pos)
        /\ TurnsPage(f, pos, "verifying") /\ connection' = connection /\ ready' = ready
    BY <1>3 DEF Sweeps
  <2>2. SweptOK(pos)
    BY <2>1 DEF TablesInv, PositionOK
  <2>3. PICK p \in Position : p = pos
    BY <1>0
  <2> HIDE DEF pos
  <2> QED
    BY <2>1, <2>2, <2>3, PageTables DEF SweptOK
<1> QED
  BY <1>1, <1>2, <1>3

LEMMA AttachesTables ==
  ASSUME ControlOK, TablesInv, NEW f \in Flows, NEW a \in Accounts, Attaches(f, a)
  PROVE  TablesInv'
<1>0. flow \in [Flows -> Flow] /\ flow[f] \in Flow /\ Len(Stages) \in Nat /\ Len(Stages) > 0
  BY TypedState, FieldTyped
<1>1. /\ flow[f].at = "verifying" /\ connection' = Attached(a) /\ row' = row /\ ready' = ready
      /\ OfAccount(a) = {} /\ Detached = {} => HasFresh
  BY DEF Attaches
<1>2. AllScoped /\ \A b \in flow[f].ids \ flow[f].todo : AccountProven(b) /\ b \in Accounts
  BY <1>0, <1>1 DEF TablesInv, PositionOK, Flow
<1>3. Onward /\ ConnectionsOK' /\ \A r \in Rows : RowOK(r)'
  BY <1>1, <1>2, AttachedMoves
<1>4. PICK c \in Conns :
        /\ connection'[c].account = a
        /\ flow' = [flow EXCEPT ![f].at = "migrating", ![f].pos = At("claimed", a, c)]
  BY Zenon DEF Attaches
<1>5. /\ Others(f) /\ flow'[f].at = "migrating" /\ flow'[f].pos = At("claimed", a, c)
      /\ flow'[f].ids = flow[f].ids /\ flow'[f].todo = flow[f].todo
  BY <1>0, <1>4 DEF Others, Flow
<1> DEFINE pos == At("claimed", a, c)
<1>6. pos.mode = "claimed" /\ pos.account = a /\ pos.conn = c /\ pos.stage \in 1..Len(Stages)
  BY <1>0 DEF At
<1>7. flow'[f].pos = pos
  BY <1>5
<1> HIDE DEF pos
<1>8. PlacedOK(flow[f].pos)'
  BY <1>4, <1>6, <1>7 DEF PlacedOK
<1>9. PositionOK(f)'
  BY <1>2, <1>3, <1>5, <1>6, <1>7, <1>8, OnwardKeeps DEF PositionOK
<1> QED
  BY <1>1, <1>3, <1>5, <1>9, OnwardStep

LEMMA MigratesTables ==
  ASSUME ControlOK, TablesInv, NEW f \in Flows, Migrates(f)
  PROVE  TablesInv'
<1>0. flow \in [Flows -> Flow] /\ flow[f] \in Flow /\ Len(Stages) \in Nat /\ Len(Stages) > 0
  BY TypedState, FieldTyped
<1>1. PICK pos \in Position : pos = flow[f].pos
  BY FieldTyped
<1>2. /\ flow[f].at = "migrating" /\ row' = MovedRows(pos) /\ connection' = Completed(pos)
      /\ ready' = ready
      /\ flow' = [flow EXCEPT ![f].at  = IF LastPage(pos) THEN "auditing" ELSE @,
                              ![f].pos = IF LastPage(pos) THEN At("audit", pos.account, pos.conn)
                                         ELSE NextPage(pos)]
  BY <1>1 DEF Migrates
<1>3. /\ pos.mode = "claimed" /\ PlacedOK(pos) /\ AllScoped
      /\ \A b \in flow[f].ids \ flow[f].todo : AccountProven(b) /\ b \in Accounts
  BY <1>0, <1>1, <1>2 DEF TablesInv, PositionOK, Flow
<1>4. /\ Onward /\ ConnectionsOK' /\ \A r \in Rows : RowOK(r)'
      /\ connection'[pos.conn].account = pos.account
  BY <1>2, <1>3, MigrationMoves
<1>5. /\ Others(f) /\ flow'[f].ids = flow[f].ids /\ flow'[f].todo = flow[f].todo
      /\ flow'[f].at  = IF LastPage(pos) THEN "auditing" ELSE "migrating"
      /\ flow'[f].pos = IF LastPage(pos) THEN At("audit", pos.account, pos.conn) ELSE NextPage(pos)
  BY <1>0, <1>2 DEF Others, Flow
<1>6. AllScoped' /\ \A b \in flow'[f].ids \ flow'[f].todo : AccountProven(b)'
  BY <1>3, <1>4, <1>5, OnwardKeeps
<1>7. CASE LastPage(pos)
  <2> DEFINE p == At("audit", pos.account, pos.conn)
  <2>1. /\ p.mode = "audit" /\ p.account = pos.account /\ p.conn = pos.conn
        /\ p.stage \in 1..Len(Stages) /\ p.stage - 1 = 0
    BY <1>0 DEF At
  <2>2. flow'[f].at = "auditing" /\ flow'[f].pos = p
    BY <1>5, <1>7
  <2> HIDE DEF p
  <2>3. PlacedOK(flow[f].pos)'
    BY <1>3, <1>4, <2>1, <2>2 DEF PlacedOK
  <2>4. Audited(p.account, p.conn, p.stage - 1)'
    BY <1>0, <2>1, StageOfRow DEF Audited
  <2>5. PositionOK(f)'
    BY <1>6, <2>1, <2>2, <2>3, <2>4 DEF PositionOK
  <2> QED
    BY <1>2, <1>4, <1>5, <2>5, OnwardStep
<1>8. CASE ~LastPage(pos)
  <2> DEFINE p == NextPage(pos)
  <2>1. /\ p.mode = "claimed" /\ p.account = pos.account /\ p.conn = pos.conn
        /\ p.stage \in 1..Len(Stages)
    BY <1>0, <1>3, <1>8 DEF NextPage, LastPage, PlacedOK, Position
  <2>2. flow'[f].at = "migrating" /\ flow'[f].pos = p
    BY <1>5, <1>8
  <2> HIDE DEF p
  <2>3. PlacedOK(flow[f].pos)'
    BY <1>3, <1>4, <2>1, <2>2 DEF PlacedOK
  <2>4. PositionOK(f)'
    BY <1>6, <2>1, <2>2, <2>3 DEF PositionOK
  <2> QED
    BY <1>2, <1>4, <1>5, <2>4, OnwardStep
<1> QED
  BY <1>7, <1>8

\* The audit of the last page proves the account.
LEMMA AuditProves ==
  ASSUME ControlOK, TablesInv, NEW pos \in Position, PlacedOK(pos), ~Violations(pos),
         Audited(pos.account, pos.conn, pos.stage - 1)
  PROVE  /\ Audited(pos.account, pos.conn, pos.stage)
         /\ LastPage(pos) => AccountProven(pos.account)
<1> DEFINE a == pos.account
           c == pos.conn
<1>0. a \in Accounts /\ c \in Conns /\ connection[c].account = a /\ a # None /\ c # None
      /\ pos.stage \in 1..Len(Stages)
  BY NoneAssumption DEF PlacedOK
<1>1. ASSUME NEW r \in Rows, row[r].table \in StageTables(pos.stage),
             row[r].conn = c \/ row[r].label = a
      PROVE  Proven(r, a, c)
  <2>1. CASE row[r].table \in StageTables(pos.stage - 1)
    BY <1>1, <2>1 DEF Audited
  <2>2. CASE row[r].table = Stages[pos.stage]
    <3>1. OnPage(r, pos) /\ row[r].table # "none"
      BY <1>0, <2>2, StageOfRow DEF OnPage
    <3>2. Concerns(r, a, c)
      BY <1>1, <3>1 DEF Concerns
    <3> QED
      BY <3>1, <3>2 DEF Violations
  <2> QED
    BY <1>0, <1>1, <2>1, <2>2, StageOfRow
<1>2. Audited(a, c, pos.stage)
  BY <1>1 DEF Audited
<1>3. ASSUME LastPage(pos) PROVE AccountProven(a)
  <2>1. connection[c].state = "complete"
    BY <1>3 DEF Violations
  <2>2. ASSUME NEW r \in Rows, row[r].conn = c \/ row[r].label = a PROVE Proven(r, a, c)
    <3>1. row[r].table \in StageTables(Len(Stages))
      BY <1>0, <2>2 DEF TablesInv, RowOK
    <3> QED
      BY <1>1, <1>3, <2>2, <3>1 DEF LastPage
  <2> HIDE DEF a, c
  <2> QED
    BY <1>0, <2>1, <2>2 DEF AccountProven
<1> QED
  BY <1>2, <1>3

LEMMA AuditsTables ==
  ASSUME ControlOK, TablesInv, NEW f \in Flows, Audits(f), ~Violations(flow[f].pos)
  PROVE  TablesInv'
<1>0. flow \in [Flows -> Flow] /\ flow[f] \in Flow /\ Len(Stages) \in Nat /\ Len(Stages) > 0
  BY TypedState, FieldTyped
<1>1. PICK pos \in Position : pos = flow[f].pos
  BY FieldTyped
<1>2. /\ flow[f].at = "auditing" /\ UNCHANGED tables /\ ready' = ready /\ ~Violations(pos)
      /\ flow' = [flow EXCEPT ![f].at   = IF LastPage(pos) THEN "verifying" ELSE @,
                              ![f].pos  = IF LastPage(pos) THEN NoPosition ELSE NextPage(pos),
                              ![f].todo = IF LastPage(pos) THEN @ \ {pos.account} ELSE @]
  BY <1>1 DEF Audits
<1>3. /\ pos.mode = "audit" /\ PlacedOK(pos) /\ AllScoped
      /\ Audited(pos.account, pos.conn, pos.stage - 1)
      /\ \A b \in flow[f].ids \ flow[f].todo : AccountProven(b) /\ b \in Accounts
  BY <1>0, <1>1, <1>2 DEF TablesInv, PositionOK, Flow
<1>4. /\ Others(f) /\ flow'[f].ids = flow[f].ids
      /\ flow'[f].at   = IF LastPage(pos) THEN "verifying" ELSE "auditing"
      /\ flow'[f].pos  = IF LastPage(pos) THEN NoPosition ELSE NextPage(pos)
      /\ flow'[f].todo = IF LastPage(pos) THEN flow[f].todo \ {pos.account} ELSE flow[f].todo
  BY <1>0, <1>2 DEF Others, Flow
<1>5. /\ Audited(pos.account, pos.conn, pos.stage)
      /\ LastPage(pos) => AccountProven(pos.account)
  BY <1>2, <1>3, AuditProves
<1>6. AllScoped' /\ \A b \in flow'[f].ids \ flow'[f].todo : AccountProven(b)'
  <2>1. \A b \in flow'[f].ids \ flow'[f].todo : AccountProven(b) /\ b \in Accounts
    BY <1>3, <1>4, <1>5 DEF PlacedOK
  <2> QED
    BY <1>2, <1>3, <2>1, Still
<1>7. CASE LastPage(pos)
  <2>1. PositionOK(f)'
    BY <1>4, <1>6, <1>7 DEF PositionOK
  <2> QED
    BY <1>2, <1>4, <2>1, Still, OnwardStep
<1>8. CASE ~LastPage(pos)
  <2> DEFINE p == NextPage(pos)
  <2>1. /\ p.mode = "audit" /\ p.account = pos.account /\ p.conn = pos.conn
        /\ p.stage \in 1..Len(Stages) /\ p.stage - 1 = pos.stage
    BY <1>0, <1>3, <1>8 DEF NextPage, LastPage, PlacedOK, Position
  <2>2. flow'[f].at = "auditing" /\ flow'[f].pos = p
    BY <1>4, <1>8
  <2> HIDE DEF p
  <2>3. connection' = connection /\ row' = row
    BY <1>2 DEF tables
  <2>4. PlacedOK(flow[f].pos)'
    BY <1>3, <2>1, <2>2, <2>3 DEF PlacedOK
  <2>5. Audited(p.account, p.conn, p.stage - 1)'
    BY <1>5, <2>1, <2>3 DEF Audited, Proven
  <2>6. PositionOK(f)'
    BY <1>6, <2>1, <2>2, <2>4, <2>5 DEF PositionOK
  <2> QED
    BY <1>2, <1>4, <2>6, Still, OnwardStep
<1> QED
  BY <1>7, <1>8

\* Where a flow is that has no account in hand, and no page.
LEMMA RestingPosition ==
  ASSUME NEW f \in Flows, flow'[f].at \in {"idle", "listed", "removing", "reconciled"}
  PROVE  PositionOK(f)'
BY DEF PositionOK

LEMMA AllResting ==
  ASSUME ControlOK, TablesInv, UNCHANGED tables,
         \A g \in Flows : flow'[g] = flow[g] \/ flow'[g].at = "idle", ready' \subseteq ready
  PROVE  TablesInv'
<1>1. Onward /\ ConnectionsOK' /\ \A r \in Rows : RowOK(r)'
  BY Still
<1>2. \A g \in Flows : PositionOK(g)'
  BY <1>1, RestingPosition, OnwardPosition DEF TablesInv
<1>3. \A a \in ready' : AccountProven(a)'
  BY Still, TypedState DEF TablesInv
<1> QED
  BY <1>1, <1>2, <1>3 DEF TablesInv

LEMMA RequestTables ==
  ASSUME ControlOK, TablesInv, NEW f \in Flows, Request(f)
  PROVE  TablesInv'
<1>0. flow \in [Flows -> Flow] /\ flow[f] \in Flow
  BY TypedState
<1>1. /\ Others(f) /\ flow[f].at \in Asking /\ ready' = ready /\ UNCHANGED tables
      /\ flow'[f].at \in Asking \cup {"reading"}
  BY RequestAlone
<1>2. flow[f].at # "idle" => flow[f].pos = NoPosition
  BY <1>1 DEF TablesInv, PositionOK, Asking
<1>3. flow'[f].at # "idle" => flow'[f].pos = NoPosition
  <2>1. ASSUME NEW a \in Accounts, NEW kind, NEW at, Requested(f, kind, a, at)
        PROVE  flow'[f].pos = NoPosition
    <3> DEFINE x == [NoFlow EXCEPT !.at = at, !.kind = kind, !.account = a]
    <3>1. flow' = [flow EXCEPT ![f] = x]
      BY <2>1 DEF Requested
    <3>2. x.pos = NoPosition
      BY DEF NoFlow
    <3> HIDE DEF x
    <3> QED
      BY <1>0, <3>1, <3>2
  <2>2. ASSUME NEW at, Goes(f, at), flow[f].at # "idle" PROVE flow'[f].pos = NoPosition
    BY <1>0, <1>2, <2>2 DEF Goes, Flow
  <2>3. Refused(f) => flow'[f].at = "idle"
    BY <1>0, NoFlowTyped DEF Refused
  <2>4. ASSUME NEW a \in Accounts, RequestsConnect(f, a) \/ RequestsDisconnect(f, a)
        PROVE  flow'[f].pos = NoPosition
    BY <2>1, <2>4 DEF RequestsConnect, RequestsDisconnect
  <2> QED
    BY <2>2, <2>3, <2>4 DEF Request, Connects, Declines, Drains, Clears, ClearFails, Reconciles
<1>4. PositionOK(f)'
  BY <1>1, <1>3 DEF PositionOK, Asking
<1> QED
  BY <1>1, <1>4, Still, OnwardStep

LEMMA BootsTables ==
  ASSUME ControlOK, TablesInv, Boots
  PROVE  TablesInv'
<1>0. /\ connection' = connection /\ ready' = {}
      /\ \A g \in Flows : flow'[g].at = "idle"
                          \/ (flow'[g].at = "reading" /\ flow'[g].pos = NoPosition)
  <2>1. PICK f \in Flows :
          /\ flow' = [flow EXCEPT ![f] = [NoFlow EXCEPT !.at = "reading", !.kind = "startup"]]
          /\ flow'[f].at = "reading"
          /\ \A g \in Flows \ {f} : flow'[g] = flow[g]
    BY BootsControl
  <2>2. flow'[f].pos = NoPosition
    BY <2>1, TypedState DEF NoFlow
  <2>3. ready' = {} /\ \A g \in Flows : flow[g].at = "idle"
    BY BootsControl
  <2>4. connection' = connection
    BY DEF Boots
  <2> QED
    BY <2>1, <2>2, <2>3, <2>4
<1>1. ConnectionsOK'
  BY <1>0 DEF TablesInv, ConnectionsOK, Detached
<1>2. \A r \in Rows : RowOK(r)'
  <2>1. CASE UNCHANGED row
    BY <2>1 DEF TablesInv, RowOK
  <2>2. ASSUME NEW r \in Rows, NEW i \in DOMAIN Stages, LateRow(r, Stages[i])
        PROVE  \A s \in Rows : RowOK(s)'
    <3>1. /\ row'[r].table = Stages[i] /\ row'[r].conn = None /\ row'[r].label = None
          /\ \A s \in Rows \ {r} : row'[s] = row[s]
      BY <2>2, LateRowTyped, TypedState
    <3>2. Stages[i] \in StageTables(Len(Stages))
      BY StageAssumption DEF StageTables
    <3>3. StageTables(Len(Stages))' = StageTables(Len(Stages))
      BY DEF StageTables
    <3> QED
      BY <3>1, <3>2, <3>3 DEF TablesInv, RowOK
  <2> QED
    BY <2>1, <2>2 DEF Boots
<1>3. \A g \in Flows : PositionOK(g)'
  BY <1>0 DEF PositionOK
<1> QED
  BY <1>0, <1>1, <1>2, <1>3 DEF TablesInv

LEMMA StepTables ==
  ASSUME ControlOK, TablesInv, [Next]_vars
  PROVE  TablesInv'
<1>0. flow \in [Flows -> Flow] /\ NoFlow.at = "idle"
  BY TypedState, NoFlowTyped
<1>1. CASE UNCHANGED vars
  BY <1>1, AllResting DEF vars, live
<1>2. ASSUME NEW f \in Flows, FailsHere(f) PROVE TablesInv'
  <2>1. UNCHANGED tables /\ ready' = ready
    BY <1>2, FailsAlone
  <2>2. \A g \in Flows : flow'[g] = flow[g] \/ flow'[g].at = "idle"
    BY <1>0, <1>2, FailsAlone DEF Others
  <2> QED
    BY <2>1, <2>2, AllResting
<1>3. ASSUME NEW f \in Flows, Exposes(f) PROVE TablesInv'
  <2>1. /\ flow[f].at = "verifying" /\ flow[f].todo = {} /\ ready' = flow[f].ids
        /\ UNCHANGED tables
    BY <1>3 DEF Exposes
  <2>2. Others(f) /\ flow'[f].at = "listed"
    BY <1>0, <1>3, TypedState DEF Exposes, Others, Flow
  <2>3. Onward /\ ConnectionsOK' /\ \A r \in Rows : RowOK(r)'
    BY <2>1, Still
  <2>4. \A g \in Flows : PositionOK(g)'
    BY <2>2, <2>3, RestingPosition, OnwardPosition DEF TablesInv, Others
  <2>5. \A a \in flow[f].ids : AccountProven(a) /\ a \in Accounts
    BY <2>1, TypedState DEF TablesInv, PositionOK, Flow
  <2>6. \A a \in ready' : AccountProven(a)'
    BY <2>1, <2>5, Still
  <2> QED
    BY <2>3, <2>4, <2>6 DEF TablesInv
<1>4. ASSUME NEW f \in Flows, RefreshAccounts(f) PROVE TablesInv'
  <2>1. UNCHANGED tables /\ ready' = ready
    BY <1>4 DEF RefreshAccounts
  <2>2. PICK rest \in SUBSET Accounts : Applies(f, rest)
    BY <1>4, TypedState DEF RefreshAccounts, Here, Flow
  <2>3. PICK x \in Flow : flow' = [flow EXCEPT ![f] = x] /\ x.at \in {"removing", "reconciled"}
    BY <2>2, RefreshTyped
  <2>4. Others(f) /\ PositionOK(f)'
    BY <1>0, <2>3, RestingPosition DEF Others
  <2> QED
    BY <2>1, <2>4, Still, OnwardStep
<1>5. ASSUME NEW f \in Flows, Ends(f) \/ Opens(f) PROVE TablesInv'
  <2>1. flow' = [flow EXCEPT ![f] = NoFlow] /\ UNCHANGED tables /\ ready' = ready
    BY <1>5 DEF Ends, Refused, Opens
  <2> QED
    BY <1>0, <2>1, AllResting
<1>6. CASE RefusesDisconnect \/ Revokes \/ Stops \/ Killed
  <2>1. /\ UNCHANGED tables /\ ready' \subseteq ready
        /\ UNCHANGED flow \/ flow' = [g \in Flows |-> NoFlow]
    BY <1>6 DEF RefusesDisconnect, Revokes, Stops, Killed
  <2> QED
    BY <1>0, <2>1, AllResting
<1>7. ASSUME NEW a \in Accounts, StartTimerFires(a) PROVE TablesInv'
  BY <1>7, AllResting DEF StartTimerFires
<1>8. ASSUME NEW f \in Flows, Reconcile(f) PROVE TablesInv'
  BY <1>2, <1>3, <1>4, <1>5, <1>8, SweepTables, AttachesTables, MigratesTables, AuditsTables
     DEF Reconcile, FailsHere
<1> QED
  BY <1>1, <1>6, <1>7, <1>8, RequestTables, BootsTables DEF Next

LEMMA InitTables ==
  ASSUME Init
  PROVE  TablesInv
<1>1. ConnectionsOK
  BY InitTyped DEF ConnectionsOK, Detached, NoConnection
<1>2. \A r \in Rows : RowOK(r)
  <2> DEFINE legacies == {c \in Conns : connection[c].state = "legacy"}
  <2>1. ASSUME NEW x \in EarlierRows(legacies)
        PROVE  /\ x.table \in StageTables(Len(Stages)) \cup {"none"}
               /\ x.table = "none" => x.conn = None /\ x.label = None
               /\ x.table = "recurringSeries" => x.label = None
    <3>1. CASE x = NoRow
      BY <3>1 DEF NoRow
    <3>2. CASE x # NoRow
      <4>1. /\ x.table \in {Stages[i] : i \in DOMAIN Stages}
            /\ x.label # None => x.conn = None /\ x.table # "recurringSeries"
        BY <3>2 DEF EarlierRows
      <4>2. x.table \in Tables /\ x.table \in StageTables(Len(Stages))
        BY <4>1, StageAssumption DEF StageTables
      <4> QED
        BY <4>1, <4>2 DEF Tables
    <3> QED
      BY <3>1, <3>2
  <2> HIDE DEF legacies
  <2> QED
    BY <2>1, InitTyped DEF RowOK, legacies
<1>3. \A f \in Flows : PositionOK(f)
  BY InitTyped, NoFlowTyped DEF PositionOK
<1> QED
  BY <1>1, <1>2, <1>3 DEF TablesInv, Init

\* No account is exposed before its rows are proven, and whatever kills, late rows and other
\* reconciliations leave half done, it stays proven then (account-reconciliation.ts,
\* multiAccountMigration.ts).
THEOREM ExposedAccountsProven == Spec => []ExposedIsProven
<1>1. Init => IInv
  <2>1. Init => \A a \in Accounts : ~worker[a].here
    BY WorkerTyped, InitTyped DEF Init
  <2> QED
    BY <2>1, InitTyped, InitRefresh, InitTables DEF IInv, ServedOK, SleepOK
<1>2. IInv /\ [Next]_vars => IInv'
  BY StepControl, StepRefresh, StepServed, StepTables DEF IInv
<1>3. IInv => ExposedIsProven
  BY TypedState DEF IInv, TablesInv, ExposedIsProven, AccountProven, OfAccount
<1> QED
  BY <1>1, <1>2, <1>3, PTL DEF Spec
==============================================================================
