----------------------------- MODULE ConvexService -----------------------------
(***************************************************************************)
(* The local Convex service: the supervisor that starts, restarts, migrates *)
(* and stops the backend process, the receipt by which a later run of the  *)
(* program finds a backend that an earlier one left behind, and the build  *)
(* marker that says how far the database is migrated.                      *)
(*                                                                         *)
(* A step goes from one await to the next.  Around the supervisor stand    *)
(* the startup, a restore and the quit of index.ts, which call it at the   *)
(* same time; backends exit and the program is killed whenever they like.  *)
(***************************************************************************)
EXTENDS Naturals

CONSTANTS
  Pids,          \* the process ids a backend may get; they are used again
  MaxRestarts,   \* #maxRestarts
  MaxRuns,       \* how often the program is launched
  MaxRestores,   \* how often the user restores or resets the data
  None

ASSUME PidsAssumption == None \notin Pids
ASSUME BoundsAssumption == MaxRestarts \in Nat /\ MaxRuns \in Nat /\ MaxRestores \in Nat

VARIABLES
  process,     \* the backends by pid
  receipt,     \* convex-backend-owner.json
  schema,      \* the schema deployed in the database
  committed,   \* is the marker on disk that of this build?
  sup,         \* the supervisor's fields
  life,        \* the start or restart that runs, or the last one
  migration,   \* completeMigration
  stop,        \* the calls of stop, by caller
  app          \* startup, restore and quit

vars == <<process, receipt, schema, committed, sup, life, migration, stop, app>>
disk == <<receipt, schema, committed>>

Callers == {"main", "quit"}

\* "trace" says how a later run could find a backend: by the ports while the receipt is the intent it
\* was forked under, by the pid the receipt has held, or, once another intent was written over
\* the first, no longer.
Gone       == [state |-> "gone", ours |-> FALSE, trace |-> "lost"]
NoReceipt  == [phase |-> "none", pid |-> None]
NoLife     == [pc |-> "done", kind |-> "start", live |-> FALSE, fresh |-> FALSE, pid |-> None]
NoMigrate  == [pc |-> "done", live |-> FALSE, pid |-> None]
NoStop     == [pc |-> "idle", pid |-> None]
NewSup     == [state |-> "stopped", stopping |-> FALSE, current |-> None, restarts |-> 0]

TypeOK ==
  /\ process \in [Pids -> [state : {"gone", "booting", "serving"}, ours : BOOLEAN,
                           trace : {"intent", "named", "lost"}]]
  /\ receipt \in [phase : {"none", "intent", "spawned", "owned"}, pid : Pids \cup {None}]
  /\ receipt.pid = None <=> receipt.phase \in {"none", "intent"}
  /\ schema \in {"prior", "expanded", "contracted"} /\ committed \in BOOLEAN
  /\ sup \in [state : {"stopped", "starting", "healthy", "migrating", "degraded", "draining",
                       "blocked"},
              stopping : BOOLEAN, current : Pids \cup {None}, restarts : 0..MaxRestarts]
  /\ life \in [pc : {"done", "resolving", "backing-up", "reclaiming", "clearing", "forking",
                     "naming", "capturing", "owning", "killing", "probing", "deploying",
                     "authenticating", "undoing"},
               kind : {"start", "restart"}, live : BOOLEAN, fresh : BOOLEAN,
               pid : Pids \cup {None}]
  /\ migration \in [pc : {"done", "contracting", "committing"}, live : BOOLEAN,
                    pid : Pids \cup {None}]
  /\ stop \in [Callers -> [pc : {"idle", "first", "waiting", "second"}, pid : Pids \cup {None}]]
  /\ app \in [main : {"off", "starting", "reconciling", "migrating", "finishing", "up", "closing",
                      "stopping", "swapping", "down", "failed"},
              restore : {"no", "before", "verifying", "over"}, quit : {"no", "asked", "stopping"},
              runs : 0..MaxRuns, restores : 0..MaxRestores,
              lost : BOOLEAN]   \* history: a backend was lost, and may have answered for another
  /\ \A p \in Pids : process[p].state = "gone" => process[p] = Gone
  /\ sup.state = "healthy" => ~sup.stopping
  /\ life.pc # "done" => migration.pc = "done"

Alive(p) == process[p].state # "gone"
IsGone(p) == p # None => ~Alive(p)
Serving  == \E p \in Pids : process[p].state = "serving"

-----------------------------------------------------------------------------
(* The supervisor.  A generation is only ever compared with the present     *)
(* one, so that "live" says whether the two are still the same.            *)

Active(l) == l.live /\ ~sup.stopping

\* Mutant: a process that exited meanwhile is not missed.
CapturedAnyone(l) == Active(l)

Captured(l) == Active(l) /\ sup.current = l.pid

\* A stop that takes the current process and waits for it to be gone, from its first step on.
Takes(c) ==
  /\ stop' = [stop EXCEPT ![c] = [pc |-> "first", pid |-> sup.current]]
  /\ life' = [life EXCEPT !.live = FALSE] /\ migration' = [migration EXCEPT !.live = FALSE]
  /\ sup' = [sup EXCEPT !.stopping = TRUE, !.current = None,
                        !.state = IF @ = "stopped" THEN @ ELSE "draining"]

\* start() on a supervisor s.
Started(s) ==
  /\ sup' = [s EXCEPT !.stopping = FALSE, !.state = "starting"]
  /\ life' = [NoLife EXCEPT !.pc = "resolving", !.live = TRUE]

\* Mutant: the budget is looked at and never used.
RetriesUncounted ==
  IF sup.restarts < MaxRestarts
  THEN /\ sup' = [sup EXCEPT !.current = None, !.state = "degraded"]
       /\ life' = [NoLife EXCEPT !.pc = "resolving", !.kind = "restart", !.live = TRUE]
  ELSE /\ sup' = [sup EXCEPT !.current = None, !.state = "blocked"]
       /\ life' = [life EXCEPT !.pc = "done"]

\* The head of the loop of #restartAfterUnexpectedExit, with no current process.
Retries ==
  IF sup.restarts < MaxRestarts
  THEN /\ sup' = [sup EXCEPT !.current = None, !.state = "degraded", !.restarts = @ + 1]
       /\ life' = [NoLife EXCEPT !.pc = "resolving", !.kind = "restart", !.live = TRUE]
  ELSE /\ sup' = [sup EXCEPT !.current = None, !.state = "blocked"]
       /\ life' = [life EXCEPT !.pc = "done"]

-----------------------------------------------------------------------------
(* Processes.                                                              *)

\* Whom somebody waits to see gone, having sent the signals.
Signalled == {stop[c].pid : c \in Callers}
             \cup (IF life.pc \in {"clearing", "killing", "undoing"} THEN {life.pid} ELSE {})

\* A backend listens on its ports; if another does, it exits.
Serves(p) ==
  /\ process[p].state = "booting" /\ ~Serving
  /\ process' = [process EXCEPT ![p].state = "serving"]
  /\ UNCHANGED <<disk, sup, life, migration, stop, app>>

Restarting == Active(life) /\ sup.state = "healthy" /\ life.pc = "done"

\* A backend exits, by itself or by a signal; the supervisor hears of its current one.
Exits(p) ==
  /\ Alive(p)
  /\ process' = [process EXCEPT ![p] = Gone]
  /\ \/ /\ sup.current = p /\ Restarting
        /\ Retries
     \/ /\ sup.current = p /\ ~Restarting
        /\ sup' = [sup EXCEPT !.current = None] /\ UNCHANGED life
     \/ sup.current # p /\ UNCHANGED <<sup, life>>
  /\ UNCHANGED <<disk, migration, stop, app>>

-----------------------------------------------------------------------------
(* A start or restart, up to the backend it has launched.                  *)

Steps(pc) == life' = [life EXCEPT !.pc = pc]

\* With p in hand, or nobody.
StepsWith(pc, p) == life' = [life EXCEPT !.pc = pc, !.pid = p]

\* The catch: the current process is stopped before anything else is done.
Undoes == /\ StepsWith("undoing", sup.current)
          /\ sup' = [sup EXCEPT !.current = None]

Fails == Undoes /\ UNCHANGED <<process, disk, migration, stop, app>>

Resolves ==
  /\ life.pc = "resolving"
  /\ \/ /\ Active(life)
        /\ life' = [life EXCEPT !.fresh = committed,
                                !.pc = IF life.kind = "start" THEN "backing-up" ELSE "reclaiming"]
        /\ UNCHANGED <<process, disk, sup, migration, stop, app>>
     \/ Fails

BacksUp ==
  /\ life.pc = "backing-up"
  /\ \/ Active(life) /\ Steps("reclaiming") /\ UNCHANGED <<process, disk, sup, migration, stop, app>>
     \/ Fails

\* The process the receipt leads to.
Orphan ==
  {p \in Pids : /\ Alive(p) /\ ~process[p].ours
                /\ \/ receipt.pid = p
                   \/ /\ receipt.phase = "intent"
                      /\ process[p].trace = "intent" /\ process[p].state = "serving"}

\* The intent is written: an orphan that the one before stood for can be found no more.
Intends == /\ receipt' = [phase |-> "intent", pid |-> None]
           /\ process' = [p \in Pids |-> IF Alive(p) /\ process[p].trace = "intent"
                                         THEN [process[p] EXCEPT !.trace = "lost"]
                                         ELSE process[p]]
           /\ app' = [app EXCEPT !.lost = @ \/ \E p \in Pids : Alive(p) /\ process[p].trace = "intent"]

Reclaims ==
  /\ life.pc = "reclaiming"
  /\ \/ \E p \in Orphan : StepsWith("clearing", p) /\ UNCHANGED <<process, receipt, app>>
     \/ Orphan = {} /\ Intends /\ Steps("forking")
  /\ UNCHANGED <<schema, committed, sup, migration, stop>>

Cleared ==
  /\ life.pc = "clearing" /\ IsGone(life.pid)
  /\ Intends /\ StepsWith("forking", None)
  /\ UNCHANGED <<schema, committed, sup, migration, stop>>

Child == [state |-> "booting", ours |-> TRUE, trace |-> "intent"]

\* The child is there; its pid is not yet on disk.
Forks ==
  /\ life.pc = "forking"
  /\ \/ \E p \in Pids :
          /\ ~Alive(p)
          /\ process' = [process EXCEPT ![p] = Child] /\ StepsWith("naming", p)
          /\ UNCHANGED <<disk, sup, migration, stop, app>>
     \/ /\ receipt' = NoReceipt /\ Undoes
        /\ UNCHANGED <<process, schema, committed, migration, stop, app>>

Names ==
  /\ life.pc = "naming"
  /\ \/ /\ receipt' = [phase |-> "spawned", pid |-> life.pid]
        /\ process' = [process EXCEPT ![life.pid].trace = IF Alive(life.pid) THEN "named" ELSE @]
        /\ Steps("capturing")
     \/ Steps("killing") /\ UNCHANGED <<process, receipt>>
  /\ UNCHANGED <<schema, committed, sup, migration, stop, app>>

\* Its identity is looked up, which takes a live process, and written.
Captures ==
  /\ \/ life.pc = "capturing" /\ Alive(life.pid) /\ Steps("owning") /\ UNCHANGED <<receipt, sup>>
     \/ /\ life.pc = "owning"
        /\ receipt' = [phase |-> "owned", pid |-> life.pid]
        /\ IF Active(life)
           THEN sup' = [sup EXCEPT !.current = life.pid] /\ Steps("probing")
           ELSE Steps("undoing") /\ UNCHANGED sup
     \/ life.pc \in {"capturing", "owning"} /\ Steps("killing") /\ UNCHANGED <<receipt, sup>>
  /\ UNCHANGED <<process, schema, committed, migration, stop, app>>

\* spawnBackend failed: its child is gone, then the receipt, then the catch.
Killed ==
  /\ life.pc = "killing" /\ IsGone(life.pid)
  /\ receipt' = NoReceipt /\ Undoes
  /\ UNCHANGED <<process, schema, committed, migration, stop, app>>

Goes(pc) == Captured(life) /\ Steps(pc) /\ UNCHANGED sup

\* Whoever serves on the port answers the probe.
Probes ==
  /\ life.pc = "probing"
  /\ (Serving /\ Goes("deploying")) \/ Undoes
  /\ UNCHANGED <<process, disk, migration, stop, app>>

UpToDate == life.fresh

\* With this build's marker there is nothing to deploy.  A deployment that fails may be done.
Deploys ==
  /\ life.pc = "deploying"
  /\ \/ UpToDate /\ Goes("authenticating") /\ UNCHANGED schema
     \/ ~UpToDate /\ Serving /\ schema' = "expanded" /\ (Goes("authenticating") \/ Undoes)
     \/ Undoes /\ UNCHANGED schema
  /\ UNCHANGED <<process, receipt, committed, migration, stop, app>>

Authenticates ==
  /\ life.pc = "authenticating"
  /\ \/ /\ Serving /\ Captured(life)
        /\ life' = [life EXCEPT !.pc = "done"]
        /\ sup' = [sup EXCEPT !.state = "healthy",
                              !.restarts = IF life.kind = "start" THEN 0 ELSE @]
        /\ app' = [app EXCEPT !.main = IF life.kind = "start" THEN "reconciling" ELSE @]
     \/ Undoes /\ UNCHANGED app
  /\ UNCHANGED <<process, disk, migration, stop>>

\* What a stopped process leaves of its receipt.
Removes(p) == receipt' = IF p = None THEN receipt ELSE NoReceipt

\* The catch is over: a start throws, a restart tries again unless it was stopped.
Undone ==
  /\ life.pc = "undoing" /\ IsGone(life.pid)
  /\ Removes(life.pid)
  /\ \/ /\ life.kind = "start"
        /\ Steps("done")
        /\ sup' = [sup EXCEPT !.state = IF Active(life) THEN "blocked" ELSE @]
        /\ app' = [app EXCEPT !.main = "closing"]
     \/ life.kind = "restart" /\ Active(life) /\ Retries /\ UNCHANGED app
     \/ life.kind = "restart" /\ ~Active(life) /\ Steps("done") /\ UNCHANGED <<sup, app>>
  /\ UNCHANGED <<process, schema, committed, migration, stop>>

LaunchStep == \/ Resolves \/ BacksUp \/ Reclaims \/ Cleared \/ Forks \/ Names \/ Captures \/ Killed
              \/ Probes \/ Deploys \/ Authenticates \/ Undone

-----------------------------------------------------------------------------
(* completeMigration.                                                      *)

\* It throws: the service is healthy again, if it is still the same.
MigrationThrows ==
  /\ migration' = NoMigrate
  /\ sup' = [sup EXCEPT !.state = IF Captured(migration) THEN "healthy" ELSE @]
  /\ app' = [app EXCEPT !.main = "closing"]

\* The accounts are reconciled, or not, and the migration is completed, if the service is healthy.
Reconciled ==
  /\ app.main = "reconciling"
  /\ \/ /\ sup.state = "healthy"
        /\ sup' = [sup EXCEPT !.state = "migrating"]
        /\ migration' = [pc |-> "contracting", live |-> TRUE, pid |-> sup.current]
        /\ app' = [app EXCEPT !.main = "migrating"]
     \/ app' = [app EXCEPT !.main = "closing"] /\ UNCHANGED <<sup, migration>>
  /\ UNCHANGED <<process, disk, life, stop>>

Contracts ==
  /\ migration.pc = "contracting"
  /\ \/ /\ Serving /\ schema' = "contracted"
        /\ \/ /\ Captured(migration) /\ migration' = [migration EXCEPT !.pc = "committing"]
              /\ UNCHANGED <<sup, app>>
           \/ MigrationThrows
     \/ MigrationThrows /\ UNCHANGED schema
  /\ UNCHANGED <<process, receipt, committed, life, stop>>

Commits ==
  /\ migration.pc = "committing"
  /\ \/ /\ committed' = TRUE /\ Captured(migration)
        /\ migration' = NoMigrate
        /\ sup' = [sup EXCEPT !.state = "healthy"]
        /\ app' = [app EXCEPT !.main = IF app.restore = "verifying" THEN "closing"
                                       ELSE "finishing"]
     \/ committed' \in {committed, TRUE} /\ MigrationThrows
  /\ UNCHANGED <<process, receipt, schema, life, stop>>

-----------------------------------------------------------------------------
(* stop().                                                                 *)

\* Mutant: a stop that does not wait for the launch it has cancelled.
SettledAtOnce == TRUE

Settled == life.pc = "done" /\ migration.pc = "done"

StopWaits(c) ==
  /\ stop[c].pc = "first" /\ IsGone(stop[c].pid)
  /\ Removes(stop[c].pid)
  /\ stop' = [stop EXCEPT ![c] = [pc |-> "waiting", pid |-> None]]
  /\ UNCHANGED <<process, schema, committed, sup, life, migration, app>>

StopSettles(c) ==
  /\ stop[c].pc = "waiting" /\ Settled
  /\ stop' = [stop EXCEPT ![c] = [pc |-> "second", pid |-> sup.current]]
  /\ sup' = [sup EXCEPT !.current = None]
  /\ UNCHANGED <<process, disk, life, migration, app>>

\* It has stopped: what its caller does next is the caller's.
Stopped(c) ==
  /\ stop[c].pc = "second" /\ IsGone(stop[c].pid)
  /\ Removes(stop[c].pid)

-----------------------------------------------------------------------------
(* The program around it.                                                  *)

\* The process ends; its backends are orphans now.
Vanishes ==
  /\ process' = [p \in Pids |-> [process[p] EXCEPT !.ours = FALSE]]
  /\ sup' = NewSup /\ life' = NoLife /\ migration' = NoMigrate
  /\ stop' = [c \in Callers |-> NoStop]
  /\ app' = [app EXCEPT !.main = "off", !.restore = "no", !.quit = "no"]

\* The program is launched, perhaps as another build.
Boot ==
  /\ app.main = "off" /\ app.runs < MaxRuns
  /\ app' = [app EXCEPT !.main = "starting", !.runs = @ + 1]
  /\ Started(NewSup)
  /\ \/ committed' = FALSE /\ schema' = "prior"
     \/ UNCHANGED <<schema, committed>>
  /\ UNCHANGED <<process, receipt, migration, stop>>

\* The rest of the startup.
Finishes ==
  /\ app.main = "finishing"
  /\ \E m \in {"up", "closing"} : app' = [app EXCEPT !.main = m]
  /\ UNCHANGED <<process, disk, sup, life, migration, stop>>

\* The user restores a backup, or resets the data.
Restore ==
  /\ app.main = "up" /\ app.quit = "no" /\ app.restores < MaxRestores
  /\ app' = [app EXCEPT !.main = "closing", !.restore = "before", !.restores = @ + 1]
  /\ UNCHANGED <<process, disk, sup, life, migration, stop>>

\* Startup and restore drain and stop the service, whatever became of them.
MainStops ==
  /\ app.main = "closing" /\ Takes("main")
  /\ app' = [app EXCEPT !.main = "stopping"]
  /\ UNCHANGED <<process, disk>>

MainStopped ==
  /\ Stopped("main")
  /\ stop' = [stop EXCEPT !["main"] = NoStop] /\ sup' = [sup EXCEPT !.state = "stopped"]
  /\ app' = [app EXCEPT !.main = CASE app.restore = "no"     -> "failed"
                                   [] app.restore = "before" -> "swapping"
                                   [] OTHER                  -> "down"]
  /\ UNCHANGED <<process, schema, committed, life, migration>>

\* The databases are exchanged, the marker removed, and the service started to verify it; or the
\* data is moved away, or neither.
Swaps ==
  /\ app.main = "swapping"
  /\ \/ /\ committed' = FALSE /\ schema' = "prior"
        /\ Started(sup)
        /\ app' = [app EXCEPT !.main = "starting", !.restore = "verifying"]
     \/ app' = [app EXCEPT !.main = "down"] /\ UNCHANGED <<schema, committed, sup, life>>
  /\ UNCHANGED <<process, receipt, migration, stop>>

\* The user quits, or the startup has failed.
Quit ==
  /\ app.main # "off" /\ app.quit = "no"
  /\ app' = [app EXCEPT !.quit = "asked"]
  /\ UNCHANGED <<process, disk, sup, life, migration, stop>>

\* A restore ends first; it has drained already.
QuitStops ==
  /\ app.quit = "asked" /\ app.restore = "no"
  /\ Takes("quit")
  /\ app' = [app EXCEPT !.quit = "stopping"]
  /\ UNCHANGED <<process, disk>>

QuitStopped ==
  /\ \/ Stopped("quit")
     \/ app.quit = "asked" /\ app.main = "down" /\ UNCHANGED receipt
  /\ Vanishes /\ UNCHANGED <<schema, committed>>

ForceQuit == app.main # "off" /\ Vanishes /\ UNCHANGED disk

-----------------------------------------------------------------------------
Init ==
  /\ process = [p \in Pids |-> Gone] /\ receipt = NoReceipt
  /\ schema = "prior" /\ committed = FALSE
  /\ sup = NewSup /\ life = NoLife /\ migration = NoMigrate
  /\ stop = [c \in Callers |-> NoStop]
  /\ app = [main |-> "off", restore |-> "no", quit |-> "no", runs |-> 0, restores |-> 0,
             lost |-> FALSE]

MigrationStep == Contracts \/ Commits

StopStep(c) == StopWaits(c) \/ StopSettles(c)

MainStep == Reconciled \/ Finishes \/ MainStops \/ MainStopped \/ Swaps

QuitStep == QuitStops \/ QuitStopped

Next == \/ \E p \in Pids : Serves(p) \/ Exits(p)
        \/ LaunchStep \/ MigrationStep \/ MainStep \/ QuitStep
        \/ \E c \in Callers : StopStep(c)
        \/ Boot \/ Restore \/ Quit \/ ForceQuit

\* Every call of the driver has a deadline, SIGKILL is obeyed, and a startup that failed quits.
Fairness ==
  /\ WF_vars(LaunchStep) /\ WF_vars(MigrationStep) /\ WF_vars(MainStep) /\ WF_vars(QuitStep)
  /\ \A c \in Callers : WF_vars(StopStep(c))
  /\ \A p \in Pids : WF_vars(p \in Signalled /\ Exits(p))
  /\ WF_vars(app.main = "failed" /\ Quit)

Spec == Init /\ [][Next]_vars /\ Fairness

-----------------------------------------------------------------------------
(* Properties.                                                             *)

\* Whenever the program is killed, the next one can find what runs: every backend alive is the one
\* the receipt leads to.  Lost is one that was forked and not yet named when the program was
\* killed, and that had no port when the next looked.
Reclaimable ==
  \A p \in Pids : Alive(p) =>
    \/ process[p].trace = "named" /\ receipt.pid = p
    \/ process[p].trace = "intent" /\ receipt.phase = "intent"
    \/ process[p].trace = "lost" /\ app.lost

\* There are never two, but for those that are lost.
OneBackend ==
  \A p, q \in Pids : Alive(p) /\ Alive(q) /\ process[p].trace # "lost" /\ process[q].trace # "lost"
                    => p = q

\* A restore and a reset touch the database only when no backend runs on it, whatever was being
\* launched, restarted or migrated when they stopped the service.
SwapIsCold ==
  app.main = "swapping" => \A p \in Pids : Alive(p) => process[p].trace = "lost"

\* There are never two backends on a database, nor one on a database that is exchanged.
NoStrayBackend == Reclaimable /\ OneBackend /\ SwapIsCold

\* A service that is called healthy is the process of this run that serves on the ports, and not one
\* that has exited, nor another that answers in its place.
HealthyServes ==
  sup.state = "healthy" =>
    sup.current # None /\ (app.lost \/ process[sup.current].state = "serving")

\* The marker of this build means its contracted schema, across crashes, restarts, updates and restores
\* at any step of a migration; and the program is up only on a migrated database.
MarkerIsHonest ==
  /\ committed => schema = "contracted"
  /\ app.main \in {"finishing", "up"} => committed

\* Healthy and committed mean what they say.
NoFalseHealth == HealthyServes /\ MarkerIsHonest

\* A quit ends, whatever it interrupts; and a service that is starting, or has lost its process, is
\* healthy again, or given up, or stopped: restarts do not go on for ever.
ServiceSettles ==
  /\ app.quit # "no" ~> app.main = "off"
  /\ sup.state \in {"starting", "degraded"} ~> sup.state \in {"healthy", "blocked", "stopped"}
=============================================================================
