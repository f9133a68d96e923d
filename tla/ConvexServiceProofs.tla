-------------------------- MODULE ConvexServiceProofs --------------------------
(***************************************************************************)
(* Proofs about the two parts that own the data root: ConvexService, for   *)
(* any pids, restarts, launches and restores, and RestoreJournal, for any  *)
(* restores, resets and crashes.                                           *)
(***************************************************************************)
EXTENDS ConvexService, RestoreJournal, SequenceTheorems, TLAPS

(* The states of each part. *)

ProcessState == [state : {"gone", "booting", "serving"}, ours : BOOLEAN,
                 trace : {"intent", "named", "lost"}]
ReceiptState == [phase : {"none", "intent", "spawned", "owned"}, pid : Pids \cup {None}]
SupState == [state : {"stopped", "starting", "healthy", "migrating", "degraded", "draining",
                      "blocked"},
             stopping : BOOLEAN, current : Pids \cup {None}, restarts : 0..MaxRestarts]
LifeState == [pc : {"done", "resolving", "backing-up", "reclaiming", "clearing", "forking",
                    "naming", "capturing", "owning", "killing", "probing", "deploying",
                    "authenticating", "undoing"},
              kind : {"start", "restart"}, live : BOOLEAN, fresh : BOOLEAN,
              pid : Pids \cup {None}]
MigrationState == [pc : {"done", "contracting", "committing"}, live : BOOLEAN,
                   pid : Pids \cup {None}]
StopState == [pc : {"idle", "first", "waiting", "second"}, pid : Pids \cup {None}]
AppState == [main : {"off", "starting", "reconciling", "migrating", "finishing", "up", "closing",
                     "stopping", "swapping", "down", "failed"},
             restore : {"no", "before", "verifying", "over"}, quit : {"no", "asked", "stopping"},
             runs : 0..MaxRuns, restores : 0..MaxRestores, lost : BOOLEAN]

\* TypeOK, the membership and the rest of it.
Typed == /\ process \in [Pids -> ProcessState]
         /\ receipt \in ReceiptState
         /\ schema \in {"prior", "expanded", "contracted"} /\ committed \in BOOLEAN
         /\ sup \in SupState /\ life \in LifeState /\ migration \in MigrationState
         /\ stop \in [Callers -> StopState]
         /\ app \in AppState

Coherent ==
  /\ receipt.pid = None <=> receipt.phase \in {"none", "intent"}
  /\ \A p \in Pids : process[p].state = "gone" => process[p] = Gone
  /\ sup.state = "healthy" => ~sup.stopping
  /\ life.pc # "done" => migration.pc = "done"

-----------------------------------------------------------------------------
(* The inductive invariant. *)

Launched == {"probing", "deploying", "authenticating"}
Spawning == {"naming", "capturing", "owning", "killing"}

(***************************************************************************)
(* Who has a backend of this run in hand: the supervisor, the launch that  *)
(* has forked it or undoes it, a stop that waits for its end.              *)
(***************************************************************************)
LaunchHolds(p) == life.pc \in Spawning \cup {"undoing"} /\ life.pid = p

StopHolds(p) == \E c \in Callers : stop[c].pid = p

Held(p) == sup.current = p \/ LaunchHolds(p) \/ StopHolds(p)

\* Never two of them at a time.
OneHolder ==
  /\ sup.current # None => life.pc \in Launched \cup {"done"}
  /\ life.pc \in Spawning \cup Launched => life.pid # None
  /\ \A c \in Callers : stop[c].pc # "idle" =>
       sup.stopping /\ ~life.live /\ ~migration.live /\ sup.current = None
  /\ \A c \in Callers : stop[c].pid # None =>
       /\ stop[c].pc = "first"
       /\ \/ life.pc \in Launched \cup {"done"}
          \/ life.pc = "undoing" /\ life.pid = None
  /\ \A c, d \in Callers : stop[c].pid # None /\ stop[d].pid # None => c = d
  /\ \A c \in Callers : stop[c].pc = "second" => Settled

\* Where startup, restore and quit are in it.
AppOK ==
  /\ app.main = "off" => /\ Settled /\ sup.current = None
                         /\ app.restore = "no" /\ app.quit = "no"
                         /\ \A c \in Callers : stop[c].pc = "idle"
  /\ life.pc # "done" /\ life.kind = "start" => app.main = "starting"
  /\ migration.pc # "done" => app.main = "migrating"
  /\ stop["main"].pc # "idle" => app.main = "stopping"
  /\ stop["quit"].pc # "idle" => app.quit = "stopping" /\ app.restore = "no"
  /\ app.main = "swapping" => Settled /\ sup.current = None /\ app.restore = "before"

(***************************************************************************)
(* A launch of this run has looked for what the last one left behind.      *)
(***************************************************************************)
Reached ==
  \/ life.pc \in Spawning \cup Launched \cup {"forking"} \/ life.kind = "restart"
  \/ sup.current # None
  \/ \E c \in Callers : stop[c].pid # None
  \/ life.pc = "undoing" /\ life.pid # None
  \/ app.main \in {"reconciling", "migrating", "finishing", "up", "swapping"}
  \/ app.restore # "no"

\* Nothing of this run is out of hand, and once a launch has looked, nothing else is there but
\* what cannot be found.
InHand ==
  \A p \in Pids : Alive(p) =>
    \/ Held(p)
    \/ ~process[p].ours /\ (Reached => process[p].trace = "lost")

\* What the receipt says at each place of a launch.
ReceiptOK ==
  /\ life.pc \in {"forking", "naming"} => receipt.phase = "intent"
  /\ life.pc \in {"capturing", "owning"} /\ Alive(life.pid) => process[life.pid].trace = "named"
  /\ life.pc = "clearing" => receipt.pid = life.pid \/ receipt.phase = "intent"

HealthOK ==
  /\ sup.state = "healthy" => life.live /\ life.pc = "done" /\ sup.current # None
  /\ sup.current # None /\ life.pc = "done" =>
       app.lost \/ process[sup.current].state = "serving"
  /\ migration.pc # "done" => /\ migration.pid # None /\ (migration.live => life.live)
                              /\ sup.state # "healthy"

MarkerOK ==
  /\ MarkerIsHonest
  /\ life.pc \notin {"done", "resolving", "undoing"} => life.fresh = committed
  /\ migration.pc = "committing" => schema = "contracted"

Traced == Reclaimable /\ OneBackend

IInv == /\ Typed /\ Coherent /\ OneHolder /\ AppOK /\ InHand /\ ReceiptOK /\ Traced
        /\ HealthOK /\ MarkerOK

-----------------------------------------------------------------------------
(* Types, by parts. *)

LEMMA TypeParts == TypeOK <=> Typed /\ Coherent
  BY DEF TypeOK, Typed, Coherent, ProcessState, ReceiptState, SupState, LifeState, MigrationState,
         StopState, AppState

LEMMA StateTypes ==
  /\ Gone \in ProcessState /\ NoReceipt \in ReceiptState /\ NewSup \in SupState
  /\ NoLife \in LifeState /\ NoMigrate \in MigrationState /\ NoStop \in StopState
  BY BoundsAssumption
     DEF Gone, NoReceipt, NewSup, NoLife, NoMigrate, NoStop, ProcessState, ReceiptState,
     SupState, LifeState, MigrationState, StopState

LEMMA UndoesIs ==
  ASSUME Typed, Undoes
  PROVE  /\ life' \in LifeState /\ sup' \in SupState
         /\ life'.pc = "undoing" /\ life'.pid = sup.current
         /\ life'.kind = life.kind /\ life'.live = life.live /\ life'.fresh = life.fresh
         /\ sup'.current = None /\ sup'.state = sup.state /\ sup'.stopping = sup.stopping
         /\ sup'.restarts = sup.restarts
  BY DEF Undoes, StepsWith, Typed, LifeState, SupState

LEMMA StepsIs ==
  ASSUME Typed,
         NEW pc \in {"done", "resolving", "backing-up", "reclaiming", "clearing", "forking",
                     "naming", "capturing", "owning", "killing", "probing", "deploying",
                     "authenticating", "undoing"},
         Steps(pc)
  PROVE  /\ life' \in LifeState /\ life'.pc = pc
         /\ life'.pid = life.pid /\ life'.kind = life.kind /\ life'.live = life.live
         /\ life'.fresh = life.fresh
  BY DEF Steps, Typed, LifeState

LEMMA StepsWithIs ==
  ASSUME Typed,
         NEW pc \in {"done", "resolving", "backing-up", "reclaiming", "clearing", "forking",
                     "naming", "capturing", "owning", "killing", "probing", "deploying",
                     "authenticating", "undoing"},
         NEW p \in Pids \cup {None}, StepsWith(pc, p)
  PROVE  /\ life' \in LifeState /\ life'.pc = pc /\ life'.pid = p
         /\ life'.kind = life.kind /\ life'.live = life.live /\ life'.fresh = life.fresh
  BY DEF StepsWith, Typed, LifeState

LEMMA ChildIs ==
  Child \in ProcessState /\ Child.state = "booting" /\ Child.ours /\ Child.trace = "intent"
  BY DEF Child, ProcessState

LEMMA RetriesIs ==
  ASSUME Typed, Retries
  PROVE  /\ life' \in LifeState /\ sup' \in SupState
         /\ sup'.current = None /\ sup'.stopping = sup.stopping
         /\ \/ /\ sup'.state = "degraded"
               /\ life'.pc = "resolving" /\ life'.kind = "restart" /\ life'.live
               /\ life'.pid = None
            \/ /\ sup'.state = "blocked"
               /\ life'.pc = "done" /\ life'.kind = life.kind /\ life'.live = life.live
               /\ life'.pid = life.pid
<1>1. CASE sup.restarts < MaxRestarts
  <2> DEFINE s == [sup EXCEPT !.current = None, !.state = "degraded", !.restarts = @ + 1]
             l == [NoLife EXCEPT !.pc = "resolving", !.kind = "restart", !.live = TRUE]
  <2>1. sup' = s /\ life' = l
    BY <1>1 DEF Retries
  <2>2. /\ l \in LifeState /\ l.pc = "resolving" /\ l.kind = "restart" /\ l.live /\ l.pid = None
    BY DEF NoLife, LifeState
  <2>3. sup.restarts + 1 \in 0..MaxRestarts
    BY <1>1, BoundsAssumption DEF Typed, SupState
  <2>4. /\ s \in SupState /\ s.current = None /\ s.stopping = sup.stopping /\ s.state = "degraded"
    BY <2>3 DEF Typed, SupState
  <2> QED
    BY <2>1, <2>2, <2>4
<1>2. CASE ~(sup.restarts < MaxRestarts)
  BY <1>2 DEF Retries, Typed, SupState, LifeState
<1> QED
  BY <1>1, <1>2

LEMMA TakesIs ==
  ASSUME Typed, NEW c \in Callers, Takes(c)
  PROVE  /\ stop' \in [Callers -> StopState] /\ life' \in LifeState
         /\ migration' \in MigrationState /\ sup' \in SupState
         /\ stop'[c].pc = "first" /\ stop'[c].pid = sup.current
         /\ \A d \in Callers : d # c => stop'[d] = stop[d]
         /\ life'.pc = life.pc /\ life'.kind = life.kind /\ ~life'.live
         /\ life'.fresh = life.fresh /\ life'.pid = life.pid
         /\ migration'.pc = migration.pc /\ migration'.pid = migration.pid /\ ~migration'.live
         /\ sup'.stopping /\ sup'.current = None /\ sup'.state \in {"stopped", "draining"}
<1>1. /\ stop' \in [Callers -> StopState]
      /\ stop'[c].pc = "first" /\ stop'[c].pid = sup.current
      /\ \A d \in Callers : d # c => stop'[d] = stop[d]
  BY DEF Takes, Typed, StopState, SupState
<1>2. /\ life' \in LifeState /\ migration' \in MigrationState
      /\ life'.pc = life.pc /\ life'.kind = life.kind /\ ~life'.live
      /\ life'.fresh = life.fresh /\ life'.pid = life.pid
      /\ migration'.pc = migration.pc /\ migration'.pid = migration.pid /\ ~migration'.live
  BY DEF Takes, Typed, LifeState, MigrationState
<1>3. /\ sup' \in SupState /\ sup'.stopping /\ sup'.current = None
      /\ sup'.state \in {"stopped", "draining"}
  BY DEF Takes, Typed, SupState
<1> QED
  BY <1>1, <1>2, <1>3

LEMMA StartedIs ==
  ASSUME NEW s \in SupState, Started(s)
  PROVE  /\ sup' \in SupState /\ sup'.state = "starting" /\ ~sup'.stopping
         /\ sup'.current = s.current
         /\ life' \in LifeState /\ life'.pc = "resolving" /\ life'.kind = "start" /\ life'.live
         /\ life'.pid = None
  BY DEF Started, NoLife, SupState, LifeState

LEMMA IntendsIs ==
  ASSUME Typed, Intends
  PROVE  /\ receipt' \in ReceiptState /\ receipt'.phase = "intent" /\ receipt'.pid = None
         /\ process' \in [Pids -> ProcessState]
         /\ \A p \in Pids :
              /\ process'[p].state = process[p].state /\ process'[p].ours = process[p].ours
              /\ IF Alive(p) /\ process[p].trace = "intent"
                 THEN process'[p].trace = "lost"
                 ELSE process'[p] = process[p]
         /\ app' \in AppState
         /\ app'.main = app.main /\ app'.restore = app.restore /\ app'.quit = app.quit
         /\ app'.lost <=> app.lost \/ \E p \in Pids : Alive(p) /\ process[p].trace = "intent"
<1>1. receipt' \in ReceiptState /\ receipt'.phase = "intent" /\ receipt'.pid = None
  BY DEF Intends, ReceiptState
<1>2. process' \in [Pids -> ProcessState]
  BY DEF Intends, Typed, ProcessState
<1>3. ASSUME NEW p \in Pids
      PROVE  /\ process'[p].state = process[p].state /\ process'[p].ours = process[p].ours
             /\ IF Alive(p) /\ process[p].trace = "intent"
                THEN process'[p].trace = "lost"
                ELSE process'[p] = process[p]
  BY DEF Intends, Typed, ProcessState
<1>4. /\ app' \in AppState
      /\ app'.main = app.main /\ app'.restore = app.restore /\ app'.quit = app.quit
      /\ app'.lost <=> app.lost \/ \E p \in Pids : Alive(p) /\ process[p].trace = "intent"
  <2> DEFINE l == app.lost \/ \E p \in Pids : Alive(p) /\ process[p].trace = "intent"
  <2>1. app' = [app EXCEPT !.lost = l] /\ l \in BOOLEAN
    BY DEF Intends, Typed, AppState
  <2> HIDE DEF l
  <2>2. /\ app' \in AppState
        /\ app'.main = app.main /\ app'.restore = app.restore /\ app'.quit = app.quit
        /\ app'.lost = l
    BY <2>1 DEF Typed, AppState
  <2> QED
    BY <2>2 DEF l
<1> QED
  BY <1>1, <1>2, <1>3, <1>4

LEMMA VanishesIs ==
  ASSUME Typed, Vanishes
  PROVE  /\ process' \in [Pids -> ProcessState]
         /\ \A p \in Pids : /\ process'[p].state = process[p].state /\ ~process'[p].ours
                            /\ process'[p].trace = process[p].trace
         /\ sup' = NewSup /\ life' = NoLife /\ migration' = NoMigrate
         /\ stop' \in [Callers -> StopState] /\ \A c \in Callers : stop'[c] = NoStop
         /\ app' \in AppState
         /\ app'.main = "off" /\ app'.restore = "no" /\ app'.quit = "no" /\ app'.lost = app.lost
<1>1. /\ process' \in [Pids -> ProcessState]
      /\ \A p \in Pids : /\ process'[p].state = process[p].state /\ ~process'[p].ours
                         /\ process'[p].trace = process[p].trace
  BY DEF Vanishes, Typed, ProcessState
<1>2. stop' \in [Callers -> StopState] /\ \A c \in Callers : stop'[c] = NoStop
  BY StateTypes DEF Vanishes
<1>3. /\ app' \in AppState
      /\ app'.main = "off" /\ app'.restore = "no" /\ app'.quit = "no" /\ app'.lost = app.lost
  BY DEF Vanishes, Typed, AppState
<1> QED
  BY <1>1, <1>2, <1>3 DEF Vanishes

-----------------------------------------------------------------------------
(* Launches. *)

\* The launch goes into its catch: what it has in hand is the supervisor's process, or none, and
\* the receipt is removed only with nobody behind it.
LEMMA UndoKeeps ==
  ASSUME IInv, Undoes,
         life.pc \notin {"done", "undoing"},
         life.pc \in Spawning => life.pc = "killing" /\ IsGone(life.pid),
         \/ receipt' = receipt
         \/ receipt' = NoReceipt /\ life.pc \in {"forking", "killing"},
         \/ schema' = schema
         \/ schema' = "expanded" /\ ~committed,
         UNCHANGED <<process, committed, migration, stop, app>>
  PROVE  IInv'
<1> USE DEF IInv, Callers
<1>1. /\ life' \in LifeState /\ sup' \in SupState
      /\ life'.pc = "undoing" /\ life'.pid = sup.current
      /\ life'.kind = life.kind /\ life'.live = life.live /\ life'.fresh = life.fresh
      /\ sup'.current = None /\ sup'.state = sup.state /\ sup'.stopping = sup.stopping
  BY UndoesIs
<1>2. Typed'
  BY <1>1, StateTypes DEF Typed
<1>3. Coherent'
  BY <1>1 DEF Coherent, NoReceipt
<1>4. OneHolder'
  BY <1>1 DEF OneHolder, Launched, Spawning, Settled
<1>5. AppOK'
  BY <1>1 DEF AppOK, Settled
<1>6. \A p \in Pids : Alive(p) /\ Held(p) => Held(p)'
  BY <1>1 DEF Held, LaunchHolds, StopHolds, Alive, IsGone, Spawning, OneHolder, Launched
<1>7. Reached' => Reached
  BY <1>1 DEF Reached, Spawning, Launched
<1>8. InHand'
  BY <1>6, <1>7 DEF InHand, Alive
<1>9. ReceiptOK'
  BY <1>1 DEF ReceiptOK
<1>10. Traced'
  <2>1. CASE receipt' = receipt
    BY <2>1 DEF Reclaimable, OneBackend, Traced, Alive
  <2>2. CASE life.pc \in {"forking", "killing"}
    <3>1. \A p \in Pids : Alive(p) => ~Held(p)
      BY <2>2, PidsAssumption
         DEF Held, LaunchHolds, StopHolds, OneHolder, Launched, Spawning, IsGone
    <3> QED
      BY <2>2, <3>1 DEF Reclaimable, OneBackend, Traced, Alive, InHand, Reached, Spawning
  <2> QED
    BY <2>1, <2>2
<1>11. HealthOK'
  BY <1>1 DEF HealthOK
<1>12. MarkerOK'
  BY <1>1 DEF MarkerOK, MarkerIsHonest, Coherent
<1> QED
  BY <1>2, <1>3, <1>4, <1>5, <1>8, <1>9, <1>10, <1>11, <1>12

\* What a step that leaves the supervisor, the processes and the receipt alone takes with it.
LEMMA ResolvesKeeps == ASSUME IInv, Resolves PROVE IInv'
<1>1. CASE Fails
  BY <1>1, UndoKeeps DEF Resolves, Fails, disk, Spawning
<1>2. CASE ~Fails
  <2> USE DEF IInv, Callers
  <2>1. /\ life' \in LifeState /\ life'.pc \in {"backing-up", "reclaiming"}
        /\ life'.pid = life.pid /\ life'.kind = life.kind /\ life'.live = life.live
        /\ life'.fresh = committed /\ life.pc = "resolving"
        /\ UNCHANGED <<process, receipt, schema, committed, sup, migration, stop, app>>
    BY <1>2 DEF Resolves, Typed, LifeState, disk
  <2>2. Typed' /\ Coherent'
    BY <2>1 DEF Typed, Coherent
  <2>3. OneHolder' /\ AppOK'
    BY <2>1 DEF OneHolder, AppOK, Settled, Launched, Spawning
  <2>4. InHand'
    BY <2>1 DEF InHand, Held, LaunchHolds, StopHolds, Reached, Alive, Spawning, Launched
  <2>5. ReceiptOK' /\ Traced' /\ HealthOK' /\ MarkerOK'
    BY <2>1
       DEF ReceiptOK, Reclaimable, OneBackend, Traced, HealthOK, MarkerOK, MarkerIsHonest, Alive,
           Coherent
  <2> QED
    BY <2>2, <2>3, <2>4, <2>5
<1> QED
  BY <1>1, <1>2

LEMMA BacksUpKeeps == ASSUME IInv, BacksUp PROVE IInv'
<1>1. CASE Fails
  BY <1>1, UndoKeeps DEF BacksUp, Fails, disk, Spawning
<1>2. CASE ~Fails
  <2> USE DEF IInv, Callers
  <2>1. /\ life' \in LifeState /\ life'.pc = "reclaiming"
        /\ life'.pid = life.pid /\ life'.kind = life.kind /\ life'.live = life.live
        /\ life'.fresh = life.fresh /\ life.pc = "backing-up"
        /\ UNCHANGED <<process, receipt, schema, committed, sup, migration, stop, app>>
    BY <1>2, StepsIs DEF BacksUp, disk
  <2>2. Typed' /\ Coherent'
    BY <2>1 DEF Typed, Coherent
  <2>3. OneHolder' /\ AppOK'
    BY <2>1 DEF OneHolder, AppOK, Settled, Launched, Spawning
  <2>4. InHand'
    BY <2>1 DEF InHand, Held, LaunchHolds, StopHolds, Reached, Alive, Spawning, Launched
  <2>5. ReceiptOK' /\ Traced' /\ HealthOK' /\ MarkerOK'
    BY <2>1
       DEF ReceiptOK, Reclaimable, OneBackend, Traced, HealthOK, MarkerOK, MarkerIsHonest, Alive,
           Coherent
  <2> QED
    BY <2>2, <2>3, <2>4, <2>5
<1> QED
  BY <1>1, <1>2

\* Before the fork this run has no process.
LEMMA NobodyYet ==
  ASSUME IInv, life.pc \in {"reclaiming", "clearing", "forking"}
  PROVE  /\ sup.current = None /\ \A c \in Callers : stop[c].pid = None
         /\ \A p \in Pids : Alive(p) => ~Held(p) /\ ~process[p].ours
  BY PidsAssumption
     DEF IInv, OneHolder, Held, LaunchHolds, StopHolds, InHand, Launched, Spawning, Callers

\* With the orphan gone that the receipt led to, the intent may be written.
LEMMA IntentKeeps ==
  ASSUME IInv, life.pc \in {"reclaiming", "clearing"}, Intends,
         \A p \in Pids : Alive(p) => ~(process[p].trace = "named" /\ receipt.pid = p),
         life' \in LifeState, life'.pc = "forking",
         life'.kind = life.kind, life'.live = life.live, life'.fresh = life.fresh,
         UNCHANGED <<schema, committed, sup, migration, stop>>
  PROVE  IInv'
<1> USE DEF IInv, Callers
<1>1. /\ receipt' \in ReceiptState /\ receipt'.phase = "intent" /\ receipt'.pid = None
      /\ process' \in [Pids -> ProcessState]
      /\ \A p \in Pids :
           /\ process'[p].state = process[p].state /\ process'[p].ours = process[p].ours
           /\ IF Alive(p) /\ process[p].trace = "intent"
              THEN process'[p].trace = "lost"
              ELSE process'[p] = process[p]
      /\ app' \in AppState
      /\ app'.main = app.main /\ app'.restore = app.restore /\ app'.quit = app.quit
      /\ app'.lost <=> app.lost \/ \E p \in Pids : Alive(p) /\ process[p].trace = "intent"
  BY IntendsIs
<1>2. Typed' /\ Coherent'
  BY <1>1 DEF Typed, Coherent, Alive
<1>3. OneHolder' /\ AppOK'
  BY <1>1 DEF OneHolder, AppOK, Settled, Launched, Spawning
<1>4. \A p \in Pids : Alive(p)' => /\ Alive(p) /\ process'[p].trace = "lost" /\ app'.lost
                                   /\ ~process'[p].ours
  BY <1>1, NobodyYet DEF Alive, Reclaimable, OneBackend, Traced
<1>5. InHand' /\ Traced'
  BY <1>4 DEF InHand, Reclaimable, OneBackend, Traced
<1>6. ReceiptOK' /\ HealthOK' /\ MarkerOK'
  BY <1>1, NobodyYet DEF ReceiptOK, HealthOK, MarkerOK, MarkerIsHonest, Coherent
<1> QED
  BY <1>2, <1>3, <1>5, <1>6

LEMMA ReclaimsKeeps == ASSUME IInv, Reclaims PROVE IInv'
<1>1. CASE \E p \in Orphan : StepsWith("clearing", p) /\ UNCHANGED <<process, receipt, app>>
  <2> USE DEF IInv, Callers
  <2>1. PICK p \in Orphan : StepsWith("clearing", p) /\ UNCHANGED <<process, receipt, app>>
    BY <1>1
  <2>2. p \in Pids /\ (receipt.pid = p \/ receipt.phase = "intent")
    BY DEF Orphan
  <2>3. /\ life' \in LifeState /\ life'.pc = "clearing" /\ life'.pid = p
        /\ life'.kind = life.kind /\ life'.live = life.live /\ life'.fresh = life.fresh
        /\ life.pc = "reclaiming"
        /\ UNCHANGED <<process, receipt, schema, committed, sup, migration, stop, app>>
    BY <2>1, <2>2, StepsWithIs DEF Reclaims
  <2>4. Typed' /\ Coherent'
    BY <2>3 DEF Typed, Coherent
  <2>5. OneHolder' /\ AppOK'
    BY <2>3 DEF OneHolder, AppOK, Settled, Launched, Spawning
  <2>6. InHand'
    BY <2>3 DEF InHand, Held, LaunchHolds, StopHolds, Reached, Alive, Spawning, Launched
  <2>7. ReceiptOK' /\ Traced' /\ HealthOK' /\ MarkerOK'
    BY <2>2, <2>3
       DEF ReceiptOK, Reclaimable, OneBackend, Traced, HealthOK, MarkerOK, MarkerIsHonest, Alive,
           Coherent
  <2> QED
    BY <2>4, <2>5, <2>6, <2>7
<1>2. CASE Orphan = {} /\ Intends /\ Steps("forking")
  <2>1. \A p \in Pids : Alive(p) => ~(process[p].trace = "named" /\ receipt.pid = p)
    BY <1>2, NobodyYet DEF Orphan, Reclaims
  <2>2. /\ life' \in LifeState /\ life'.pc = "forking"
        /\ life'.kind = life.kind /\ life'.live = life.live /\ life'.fresh = life.fresh
    BY <1>2, StepsIs DEF IInv
  <2> QED
    BY <1>2, <2>1, <2>2, IntentKeeps DEF Reclaims
<1> QED
  BY <1>1, <1>2 DEF Reclaims

LEMMA ClearedKeeps == ASSUME IInv, Cleared PROVE IInv'
<1>1. \A p \in Pids : Alive(p) => ~(process[p].trace = "named" /\ receipt.pid = p)
  BY PidsAssumption DEF Cleared, IInv, ReceiptOK, Coherent, IsGone
<1>2. /\ life' \in LifeState /\ life'.pc = "forking"
      /\ life'.kind = life.kind /\ life'.live = life.live /\ life'.fresh = life.fresh
  BY StepsWithIs DEF Cleared, IInv
<1> QED
  BY <1>1, <1>2, IntentKeeps DEF Cleared

LEMMA ForksKeeps == ASSUME IInv, Forks PROVE IInv'
<1>1. CASE /\ receipt' = NoReceipt /\ Undoes
           /\ UNCHANGED <<process, schema, committed, migration, stop, app>>
  BY <1>1, UndoKeeps DEF Forks, Spawning
<1>2. CASE \E p \in Pids :
             /\ ~Alive(p)
             /\ process' = [process EXCEPT ![p] = Child] /\ StepsWith("naming", p)
             /\ UNCHANGED <<disk, sup, migration, stop, app>>
  <2> USE DEF IInv, Callers
  <2>1. PICK p \in Pids :
             /\ ~Alive(p)
             /\ process' = [process EXCEPT ![p] = Child] /\ StepsWith("naming", p)
             /\ UNCHANGED <<disk, sup, migration, stop, app>>
    BY <1>2
  <2>2. /\ life' \in LifeState /\ life'.pc = "naming" /\ life'.pid = p
        /\ life'.kind = life.kind /\ life'.live = life.live /\ life'.fresh = life.fresh
        /\ life.pc = "forking"
        /\ UNCHANGED <<receipt, schema, committed, sup, migration, stop, app>>
    BY <2>1, StepsWithIs DEF Forks, disk
  <2>3. /\ process' \in [Pids -> ProcessState]
        /\ process'[p].state = "booting" /\ process'[p].ours /\ process'[p].trace = "intent"
        /\ \A q \in Pids : q # p => process'[q] = process[q]
    BY <2>1, ChildIs DEF Typed
  <2>4. Typed' /\ Coherent'
    BY <2>2, <2>3 DEF Typed, Coherent
  <2>5. OneHolder' /\ AppOK'
    BY <2>2, PidsAssumption DEF OneHolder, AppOK, Settled, Launched, Spawning
  <2>6. \A q \in Pids : Alive(q)' /\ q # p =>
          process'[q].trace = "lost" /\ ~process'[q].ours /\ app'.lost
    BY <2>2, <2>3, NobodyYet DEF InHand, Reached, Alive, Reclaimable, OneBackend, Traced, ReceiptOK
  <2>7. Held(p)'
    BY <2>2 DEF Held, LaunchHolds, Spawning
  <2>8. InHand' /\ Traced'
    BY <2>2, <2>3, <2>6, <2>7 DEF InHand, Reclaimable, OneBackend, Traced, ReceiptOK
  <2>9. ReceiptOK' /\ HealthOK' /\ MarkerOK'
    BY <2>2, NobodyYet DEF ReceiptOK, HealthOK, MarkerOK, MarkerIsHonest, Coherent
  <2> QED
    BY <2>4, <2>5, <2>8, <2>9
<1> QED
  BY <1>1, <1>2 DEF Forks

\* A backend that the launch has in hand is the only one of this run.
LEMMA OnlyOne ==
  ASSUME IInv, life.pc \in Spawning \cup Launched
  PROVE  \A p \in Pids : Alive(p) =>
           \/ process[p].trace = "lost" /\ app.lost /\ ~process[p].ours
           \/ p = life.pid /\ life.pc \in Spawning
           \/ p = sup.current /\ life.pc \in Launched
           \/ StopHolds(p) /\ life.pc \in Launched /\ sup.current = None
<1> USE DEF IInv, Callers
<1>1. \A p \in Pids : Alive(p) /\ Held(p) =>
           \/ p = life.pid /\ life.pc \in Spawning
           \/ p = sup.current /\ life.pc \in Launched
           \/ StopHolds(p) /\ life.pc \in Launched /\ sup.current = None
  BY PidsAssumption DEF Held, LaunchHolds, StopHolds, OneHolder, Launched, Spawning
<1>2. \A p \in Pids : Alive(p) /\ ~Held(p) =>
           process[p].trace = "lost" /\ app.lost /\ ~process[p].ours
  BY DEF InHand, Reached, Reclaimable, OneBackend, Traced, ReceiptOK
<1> QED
  BY <1>1, <1>2

LEMMA NamesKeeps == ASSUME IInv, Names PROVE IInv'
<1> USE DEF IInv, Callers
<1>1. life.pc = "naming" /\ life.pid \in Pids
  BY DEF Names, Typed, LifeState, OneHolder, Spawning
<1>2. CASE /\ receipt' = [phase |-> "spawned", pid |-> life.pid]
           /\ process' = [process EXCEPT ![life.pid].trace = IF Alive(life.pid) THEN "named" ELSE @]
           /\ Steps("capturing")
  <2>1. /\ life' \in LifeState /\ life'.pc = "capturing" /\ life'.pid = life.pid
        /\ life'.kind = life.kind /\ life'.live = life.live /\ life'.fresh = life.fresh
        /\ UNCHANGED <<schema, committed, sup, migration, stop, app>>
    BY <1>2, StepsIs DEF Names
  <2>2. receipt' \in ReceiptState /\ receipt'.phase = "spawned" /\ receipt'.pid = life.pid
    BY <1>1, <1>2 DEF ReceiptState
  <2>3. /\ process' \in [Pids -> ProcessState]
        /\ process'[life.pid].state = process[life.pid].state
        /\ process'[life.pid].ours = process[life.pid].ours
        /\ process'[life.pid].trace = IF Alive(life.pid) THEN "named" ELSE process[life.pid].trace
        /\ \A q \in Pids : q # life.pid => process'[q] = process[q]
    BY <1>1, <1>2 DEF Typed, ProcessState
  <2>4. Typed'
    BY <2>1, <2>2, <2>3 DEF Typed
  <2>5. ~Alive(life.pid) => process'[life.pid] = process[life.pid]
    BY <1>1, <1>2 DEF Typed, ProcessState
  <2>6. Coherent'
    BY <1>1, <2>1, <2>2, <2>3, <2>5, PidsAssumption DEF Coherent, Alive
  <2>7. OneHolder' /\ AppOK'
    BY <1>1, <2>1 DEF OneHolder, AppOK, Settled, Launched, Spawning
  <2>8. \A q \in Pids : Alive(q)' /\ q # life.pid =>
          process'[q].trace = "lost" /\ ~process'[q].ours /\ app'.lost
    <3>1. \A q \in Pids : Alive(q) /\ q # life.pid =>
            process[q].trace = "lost" /\ ~process[q].ours /\ app.lost
      BY <1>1, OnlyOne DEF Spawning, Launched
    <3> QED
      BY <2>1, <2>3, <3>1 DEF Alive
  <2>9. \A q \in Pids : q = life.pid => Held(q)'
    BY <2>1 DEF Held, LaunchHolds, Spawning
  <2>10. InHand'
    BY <2>8, <2>9 DEF InHand
  <2>11. Traced'
    BY <1>1, <2>2, <2>3, <2>8 DEF Reclaimable, OneBackend, Traced, Alive
  <2>12. ReceiptOK' /\ HealthOK' /\ MarkerOK'
    BY <1>1, <2>1, <2>2, <2>3, <2>5
       DEF ReceiptOK, HealthOK, MarkerOK, MarkerIsHonest, Coherent, OneHolder, Launched, Alive
  <2> QED
    BY <2>4, <2>6, <2>7, <2>10, <2>11, <2>12
<1>3. CASE Steps("killing") /\ UNCHANGED <<process, receipt>>
  <2>1. /\ life' \in LifeState /\ life'.pc = "killing" /\ life'.pid = life.pid
        /\ life'.kind = life.kind /\ life'.live = life.live /\ life'.fresh = life.fresh
        /\ UNCHANGED <<process, receipt, schema, committed, sup, migration, stop, app>>
    BY <1>3, StepsIs DEF Names
  <2>2. Typed' /\ Coherent'
    BY <1>1, <2>1 DEF Typed, Coherent
  <2>3. OneHolder' /\ AppOK'
    BY <1>1, <2>1 DEF OneHolder, AppOK, Settled, Launched, Spawning
  <2>4. InHand'
    BY <1>1, <2>1 DEF InHand, Held, LaunchHolds, StopHolds, Reached, Alive, Spawning, Launched
  <2>5. ReceiptOK' /\ Traced' /\ HealthOK' /\ MarkerOK'
    BY <1>1, <2>1
       DEF ReceiptOK, Reclaimable, OneBackend, Traced, HealthOK, MarkerOK, MarkerIsHonest, Alive,
           Coherent
  <2> QED
    BY <2>2, <2>3, <2>4, <2>5
<1> QED
  BY <1>2, <1>3 DEF Names

LEMMA CapturesKeeps == ASSUME IInv, Captures PROVE IInv'
<1> USE DEF IInv, Callers
<1>1. /\ life.pc \in {"capturing", "owning"} /\ life.pid \in Pids
      /\ UNCHANGED <<process, schema, committed, migration, stop, app>>
  BY DEF Captures, Typed, LifeState, OneHolder, Spawning
<1>2. CASE life.pc = "capturing" /\ Alive(life.pid) /\ Steps("owning") /\ UNCHANGED <<receipt, sup>>
  <2>1. /\ life' \in LifeState /\ life'.pc = "owning" /\ life'.pid = life.pid
        /\ life'.kind = life.kind /\ life'.live = life.live /\ life'.fresh = life.fresh
    BY <1>2, StepsIs
  <2>2. Typed' /\ Coherent'
    BY <1>1, <1>2, <2>1 DEF Typed, Coherent
  <2>3. OneHolder' /\ AppOK'
    BY <1>1, <1>2, <2>1 DEF OneHolder, AppOK, Settled, Launched, Spawning
  <2>4. InHand'
    BY <1>1, <1>2, <2>1 DEF InHand, Held, LaunchHolds, StopHolds, Reached, Alive, Spawning, Launched
  <2>5. ReceiptOK' /\ Traced' /\ HealthOK' /\ MarkerOK'
    BY <1>1, <1>2, <2>1
       DEF ReceiptOK, Reclaimable, OneBackend, Traced, HealthOK, MarkerOK, MarkerIsHonest, Alive,
           Coherent
  <2> QED
    BY <2>2, <2>3, <2>4, <2>5
<1>3. CASE Steps("killing") /\ UNCHANGED <<receipt, sup>>
  <2>1. /\ life' \in LifeState /\ life'.pc = "killing" /\ life'.pid = life.pid
        /\ life'.kind = life.kind /\ life'.live = life.live /\ life'.fresh = life.fresh
    BY <1>3, StepsIs
  <2>2. Typed' /\ Coherent'
    BY <1>1, <1>3, <2>1 DEF Typed, Coherent
  <2>3. OneHolder' /\ AppOK'
    BY <1>1, <1>3, <2>1 DEF OneHolder, AppOK, Settled, Launched, Spawning
  <2>4. InHand'
    BY <1>1, <1>3, <2>1 DEF InHand, Held, LaunchHolds, StopHolds, Reached, Alive, Spawning, Launched
  <2>5. ReceiptOK' /\ Traced' /\ HealthOK' /\ MarkerOK'
    BY <1>1, <1>3, <2>1
       DEF ReceiptOK, Reclaimable, OneBackend, Traced, HealthOK, MarkerOK, MarkerIsHonest, Alive,
           Coherent
  <2> QED
    BY <2>2, <2>3, <2>4, <2>5
<1>4. CASE /\ life.pc = "owning"
           /\ receipt' = [phase |-> "owned", pid |-> life.pid]
           /\ IF Active(life)
              THEN sup' = [sup EXCEPT !.current = life.pid] /\ Steps("probing")
              ELSE Steps("undoing") /\ UNCHANGED sup
  <2>1. receipt' \in ReceiptState /\ receipt'.phase = "owned" /\ receipt'.pid = life.pid
    BY <1>1, <1>4 DEF ReceiptState
  <2>2. /\ life' \in LifeState /\ life'.pid = life.pid
        /\ life'.kind = life.kind /\ life'.live = life.live /\ life'.fresh = life.fresh
        /\ IF Active(life) THEN life'.pc = "probing" ELSE life'.pc = "undoing"
    BY <1>4, StepsIs
  <2>3. /\ sup' \in SupState /\ sup'.state = sup.state /\ sup'.stopping = sup.stopping
        /\ IF Active(life) THEN sup'.current = life.pid ELSE sup'.current = sup.current
    BY <1>1, <1>4 DEF Typed, SupState
  <2>4. Typed' /\ Coherent'
    BY <1>1, <1>4, <2>1, <2>2, <2>3, PidsAssumption DEF Typed, Coherent
  <2>5. OneHolder' /\ AppOK'
    BY <1>1, <1>4, <2>2, <2>3 DEF OneHolder, AppOK, Settled, Launched, Spawning, Active
  <2>6. \A p \in Pids : Alive(p) /\ Held(p) => Held(p)'
    BY <1>1, <1>4, <2>2, <2>3, PidsAssumption
       DEF Held, LaunchHolds, StopHolds, Spawning, OneHolder, Launched
  <2>7. Reached
    BY <1>1 DEF Reached, Spawning
  <2>8. InHand'
    BY <1>1, <2>6, <2>7 DEF InHand, Alive
  <2>9. Traced'
    BY <1>1, <1>4, <2>1, OnlyOne
       DEF Reclaimable, OneBackend, Traced, Alive, ReceiptOK, Spawning, Launched
  <2>10. ReceiptOK' /\ HealthOK' /\ MarkerOK'
    BY <1>1, <1>4, <2>1, <2>2, <2>3 DEF ReceiptOK, HealthOK, MarkerOK, MarkerIsHonest, Coherent
  <2> QED
    BY <2>4, <2>5, <2>8, <2>9, <2>10
<1> QED
  BY <1>2, <1>3, <1>4 DEF Captures

LEMMA KilledKeeps == ASSUME IInv, Killed PROVE IInv'
  BY UndoKeeps DEF Killed

\* A launched backend goes on to the next check.
LEMMA GoesKeeps ==
  ASSUME IInv, life.pc \in Launched, NEW pc \in {"deploying", "authenticating"}, Goes(pc),
         schema' = schema \/ (schema' = "expanded" /\ ~committed),
         UNCHANGED <<process, receipt, committed, migration, stop, app>>
  PROVE  IInv'
<1> USE DEF IInv, Callers
<1>1. /\ life' \in LifeState /\ life'.pc = pc /\ life'.pid = life.pid
      /\ life'.kind = life.kind /\ life'.live = life.live /\ life'.fresh = life.fresh
      /\ sup' = sup
  BY StepsIs DEF Goes
<1>2. Typed' /\ Coherent'
  BY <1>1 DEF Typed, Coherent, Launched
<1>3. OneHolder' /\ AppOK'
  BY <1>1 DEF OneHolder, AppOK, Settled, Launched, Spawning
<1>4. InHand'
  BY <1>1 DEF InHand, Held, LaunchHolds, StopHolds, Reached, Alive, Spawning, Launched
<1>5. ReceiptOK' /\ Traced' /\ HealthOK' /\ MarkerOK'
  BY <1>1
     DEF ReceiptOK, Reclaimable, OneBackend, Traced, HealthOK, MarkerOK, MarkerIsHonest, Alive,
         Coherent, Launched
<1> QED
  BY <1>2, <1>3, <1>4, <1>5

LEMMA ProbesKeeps == ASSUME IInv, Probes PROVE IInv'
<1>1. CASE Undoes
  BY <1>1, UndoKeeps DEF Probes, disk, Spawning
<1>2. CASE Goes("deploying")
  <2>1. /\ life.pc \in Launched
        /\ schema' = schema \/ (schema' = "expanded" /\ ~committed)
        /\ UNCHANGED <<process, receipt, committed, migration, stop, app>>
    BY DEF Probes, disk, Launched
  <2> QED
    BY <1>2, <2>1, GoesKeeps
<1> QED
  BY <1>1, <1>2 DEF Probes

LEMMA DeploysKeeps == ASSUME IInv, Deploys PROVE IInv'
<1>1. schema' = schema \/ (schema' = "expanded" /\ ~committed)
  <2>1. life.fresh = committed
    BY DEF Deploys, IInv, MarkerOK
  <2>2. schema' = schema \/ (schema' = "expanded" /\ ~UpToDate)
    BY DEF Deploys
  <2> QED
    BY <2>1, <2>2 DEF UpToDate
<1>2. CASE Undoes
  BY <1>1, <1>2, UndoKeeps DEF Deploys, Spawning
<1>3. CASE Goes("authenticating")
  BY <1>1, <1>3, GoesKeeps DEF Deploys, Launched
<1> QED
  BY <1>2, <1>3 DEF Deploys

LEMMA AuthenticatesKeeps == ASSUME IInv, Authenticates PROVE IInv'
<1>1. CASE Undoes /\ UNCHANGED app
  BY <1>1, UndoKeeps DEF Authenticates, disk, Spawning
<1>2. CASE /\ Serving /\ Captured(life)
           /\ life' = [life EXCEPT !.pc = "done"]
           /\ sup' = [sup EXCEPT !.state = "healthy",
                                 !.restarts = IF life.kind = "start" THEN 0 ELSE @]
           /\ app' = [app EXCEPT !.main = IF life.kind = "start" THEN "reconciling" ELSE @]
  <2> USE DEF IInv, Callers
  <2>1. /\ life' \in LifeState /\ life'.pc = "done" /\ life'.pid = life.pid
        /\ life'.kind = life.kind /\ life'.live = life.live /\ life'.fresh = life.fresh
        /\ life.pc = "authenticating"
        /\ UNCHANGED <<process, receipt, schema, committed, migration, stop>>
    BY <1>2 DEF Authenticates, Typed, LifeState, disk
  <2>2. /\ sup' \in SupState /\ sup'.state = "healthy" /\ sup'.stopping = sup.stopping
        /\ sup'.current = sup.current
    <3> DEFINE n == IF life.kind = "start" THEN 0 ELSE sup.restarts
    <3>1. n \in 0..MaxRestarts /\ sup' = [sup EXCEPT !.state = "healthy", !.restarts = n]
      BY <1>2, BoundsAssumption DEF Typed, SupState
    <3> HIDE DEF n
    <3> QED
      BY <3>1 DEF Typed, SupState
  <2>3. /\ app' \in AppState /\ app'.restore = app.restore /\ app'.quit = app.quit
        /\ app'.lost = app.lost
        /\ IF life.kind = "start" THEN app'.main = "reconciling" ELSE app'.main = app.main
    BY <1>2 DEF Typed, AppState
  <2>4. life.live /\ ~sup.stopping /\ sup.current = life.pid /\ sup.current # None
    BY <1>2, <2>1 DEF Captured, Active, OneHolder, Launched
  <2>5. Typed' /\ Coherent'
    BY <2>1, <2>2, <2>3, <2>4 DEF Typed, Coherent
  <2>6. OneHolder' /\ AppOK'
    BY <2>1, <2>2, <2>3, <2>4 DEF OneHolder, AppOK, Settled, Launched, Spawning, Coherent
  <2>7. InHand'
    BY <2>1, <2>2, <2>3 DEF InHand, Held, LaunchHolds, StopHolds, Reached, Alive, Spawning, Launched
  <2>8. app.lost \/ process[sup.current].state = "serving"
    <3>1. PICK p \in Pids : process[p].state = "serving"
      BY <1>2 DEF Serving
    <3>2. Alive(p)
      BY <3>1 DEF Alive
    <3>3. app.lost \/ p = sup.current
      BY <2>1, <2>4, <3>2, OnlyOne DEF Spawning, Launched
    <3> QED
      BY <3>1, <3>3
  <2>9. HealthOK'
    BY <2>1, <2>2, <2>3, <2>4, <2>8 DEF HealthOK, Coherent
  <2>10. ReceiptOK' /\ Traced' /\ MarkerOK'
    BY <2>1, <2>3 DEF ReceiptOK, Reclaimable, OneBackend, Traced, MarkerOK, MarkerIsHonest, Alive
  <2> QED
    BY <2>5, <2>6, <2>7, <2>9, <2>10
<1> QED
  BY <1>1, <1>2 DEF Authenticates

\* With nobody in hand but the process that has exited, its receipt is nobody's.
LEMMA RemovesIs ==
  ASSUME IInv, NEW p \in Pids \cup {None}, Removes(p), process' = process, app'.lost = app.lost,
         p # None => \A q \in Pids : Alive(q) => process[q].trace = "lost" /\ app.lost
  PROVE  /\ receipt' \in ReceiptState
         /\ receipt'.pid = None <=> receipt'.phase \in {"none", "intent"}
         /\ Traced'
         /\ p = None => receipt' = receipt
<1>1. CASE p = None
  BY <1>1 DEF Removes, IInv, Typed, Coherent, Reclaimable, OneBackend, Traced, Alive
<1>2. CASE p # None
  <2>1. receipt' = NoReceipt
    BY <1>2 DEF Removes
  <2> QED
    BY <1>2, <2>1, StateTypes DEF NoReceipt, Reclaimable, OneBackend, Traced, Alive
<1> QED
  BY <1>1, <1>2

LEMMA UndoneKeeps == ASSUME IInv, Undone PROVE IInv'
<1> USE DEF IInv, Callers
<1>1. /\ life.pc = "undoing" /\ IsGone(life.pid) /\ Removes(life.pid)
      /\ life.pid \in Pids \cup {None} /\ sup.current = None
      /\ UNCHANGED <<process, schema, committed, migration, stop>>
  BY DEF Undone, Typed, LifeState, OneHolder, Launched
<1>2. \A p \in Pids : Alive(p) => ~LaunchHolds(p) /\ sup.current # p
  BY <1>1, PidsAssumption DEF LaunchHolds, IsGone
<1>3. life.pid # None => \A q \in Pids : Alive(q) => process[q].trace = "lost" /\ app.lost
  BY <1>1, <1>2, PidsAssumption
     DEF InHand, Held, StopHolds, OneHolder, Reached, Launched, Reclaimable, Traced, ReceiptOK
<1>4. \/ /\ life.kind = "start"
         /\ life' \in LifeState /\ life'.pc = "done" /\ life'.pid = life.pid
         /\ life'.kind = life.kind /\ life'.live = life.live
         /\ sup' \in SupState /\ sup'.stopping = sup.stopping /\ sup'.current = None
         /\ sup'.state \in {sup.state, "blocked"}
         /\ app' \in AppState /\ app'.main = "closing" /\ app'.restore = app.restore
         /\ app'.quit = app.quit /\ app'.lost = app.lost
      \/ /\ life.kind = "restart" /\ Active(life) /\ app' = app
         /\ life' \in LifeState /\ sup' \in SupState
         /\ sup'.current = None /\ sup'.stopping = sup.stopping
         /\ sup'.state \in {"degraded", "blocked"}
         /\ life'.pc \in {"resolving", "done"} /\ life'.kind = "restart" /\ life'.live
      \/ /\ life.kind = "restart" /\ app' = app /\ sup' = sup
         /\ life' \in LifeState /\ life'.pc = "done" /\ life'.pid = life.pid
         /\ life'.kind = life.kind /\ life'.live = life.live
  <2>1. CASE /\ life.kind = "start" /\ Steps("done")
             /\ sup' = [sup EXCEPT !.state = IF Active(life) THEN "blocked" ELSE @]
             /\ app' = [app EXCEPT !.main = "closing"]
    <3>1. /\ life' \in LifeState /\ life'.pc = "done" /\ life'.pid = life.pid
          /\ life'.kind = life.kind /\ life'.live = life.live
      BY <2>1, StepsIs
    <3>2. /\ sup' \in SupState /\ sup'.stopping = sup.stopping /\ sup'.current = None
          /\ sup'.state \in {sup.state, "blocked"}
      BY <1>1, <2>1 DEF Typed, SupState
    <3>3. /\ app' \in AppState /\ app'.main = "closing" /\ app'.restore = app.restore
          /\ app'.quit = app.quit /\ app'.lost = app.lost
      BY <2>1 DEF Typed, AppState
    <3> QED
      BY <2>1, <3>1, <3>2, <3>3
  <2>2. CASE life.kind = "restart" /\ Active(life) /\ Retries /\ UNCHANGED app
    BY <2>2, RetriesIs DEF Active
  <2>3. CASE life.kind = "restart" /\ ~Active(life) /\ Steps("done") /\ UNCHANGED <<sup, app>>
    BY <2>3, StepsIs
  <2> QED
    BY <2>1, <2>2, <2>3 DEF Undone
<1>5. /\ receipt' \in ReceiptState
      /\ receipt'.pid = None <=> receipt'.phase \in {"none", "intent"}
      /\ Traced'
  BY <1>1, <1>3, <1>4, RemovesIs
<1>6. Typed' /\ Coherent'
  BY <1>1, <1>4, <1>5 DEF Typed, Coherent
<1>7. OneHolder' /\ AppOK'
  BY <1>1, <1>4 DEF OneHolder, AppOK, Settled, Launched, Spawning, Active
<1>8. Reached' => Reached
  BY <1>1, <1>4 DEF Reached, Spawning, Launched
<1>9. \A p \in Pids : Alive(p) /\ Held(p) => Held(p)'
  BY <1>1, <1>2 DEF Held, StopHolds
<1>10. InHand'
  BY <1>1, <1>8, <1>9 DEF InHand, Alive
<1>11. ReceiptOK' /\ HealthOK' /\ MarkerOK'
  BY <1>1, <1>4 DEF ReceiptOK, HealthOK, MarkerOK, MarkerIsHonest, Coherent
<1> QED
  BY <1>5, <1>6, <1>7, <1>10, <1>11

LEMMA LaunchKeeps == ASSUME IInv, LaunchStep PROVE IInv'
  BY ResolvesKeeps, BacksUpKeeps, ReclaimsKeeps, ClearedKeeps, ForksKeeps, NamesKeeps,
     CapturesKeeps, KilledKeeps, ProbesKeeps, DeploysKeeps, AuthenticatesKeeps, UndoneKeeps
     DEF LaunchStep

-----------------------------------------------------------------------------
(* Processes. *)

LEMMA ServesKeeps == ASSUME IInv, NEW p \in Pids, Serves(p) PROVE IInv'
<1> USE DEF IInv, Callers
<1>1. /\ process' \in [Pids -> ProcessState]
      /\ process'[p].state = "serving" /\ process[p].state = "booting"
      /\ process'[p].ours = process[p].ours /\ process'[p].trace = process[p].trace
      /\ \A q \in Pids : q # p => process'[q] = process[q]
      /\ UNCHANGED <<receipt, schema, committed, sup, life, migration, stop, app>>
  BY DEF Serves, Typed, ProcessState, disk
<1>2. Typed' /\ Coherent'
  BY <1>1 DEF Typed, Coherent
<1>3. OneHolder' /\ AppOK'
  BY <1>1 DEF OneHolder, AppOK, Settled
<1>4. \A q \in Pids : Alive(q)' <=> Alive(q)
  BY <1>1 DEF Alive
<1>5. InHand'
  <2>1. Reached' = Reached
    BY <1>1 DEF Reached
  <2>2. \A q \in Pids : /\ Held(q)' = Held(q) /\ process'[q].ours = process[q].ours
                        /\ process'[q].trace = process[q].trace
    BY <1>1 DEF Held, LaunchHolds, StopHolds
  <2> QED
    BY <1>4, <2>1, <2>2 DEF InHand
<1>6. Traced'
  BY <1>1, <1>4 DEF Reclaimable, OneBackend, Traced
<1>7. ReceiptOK'
  <2>1. life.pc \in {"capturing", "owning"} => life.pid \in Pids
    BY DEF Typed, LifeState, OneHolder, Spawning
  <2> QED
    BY <1>1, <1>4, <2>1 DEF ReceiptOK
<1>8. HealthOK' /\ MarkerOK'
  BY <1>1, PidsAssumption DEF HealthOK, MarkerOK, MarkerIsHonest, Typed, SupState
<1> QED
  BY <1>2, <1>3, <1>5, <1>6, <1>7, <1>8

LEMMA ExitsKeeps == ASSUME IInv, NEW p \in Pids, Exits(p) PROVE IInv'
<1> USE DEF IInv, Callers
<1>1. /\ process' \in [Pids -> ProcessState]
      /\ process'[p] = Gone /\ ~Alive(p)'
      /\ \A q \in Pids : q # p => process'[q] = process[q] /\ (Alive(q)' <=> Alive(q))
      /\ UNCHANGED <<receipt, schema, committed, migration, stop, app>>
  BY StateTypes DEF Exits, Typed, disk, Alive, Gone
<1>2. \/ /\ sup.current = p /\ Restarting
         /\ life' \in LifeState /\ sup' \in SupState
         /\ sup'.current = None /\ sup'.stopping = sup.stopping
         /\ sup'.state \in {"degraded", "blocked"}
         /\ \/ life'.pc = "resolving" /\ life'.kind = "restart" /\ life'.live /\ life'.pid = None
            \/ /\ life'.pc = "done" /\ life'.kind = life.kind /\ life'.live = life.live
               /\ life'.pid = life.pid
      \/ /\ sup.current = p /\ ~Restarting
         /\ sup' \in SupState /\ sup'.current = None /\ sup'.stopping = sup.stopping
         /\ sup'.state = sup.state /\ life' = life
      \/ sup.current # p /\ sup' = sup /\ life' = life
  <2>1. CASE sup.current = p /\ Restarting /\ Retries
    BY <2>1, RetriesIs
  <2>2. CASE /\ sup.current = p /\ ~Restarting
             /\ sup' = [sup EXCEPT !.current = None] /\ UNCHANGED life
    BY <2>2 DEF Typed, SupState
  <2> QED
    BY <2>1, <2>2 DEF Exits
<1>3. sup.current # p \/ sup'.current = None
  BY <1>2
<1>4. sup.current = p /\ ~Restarting => sup.state # "healthy"
  BY DEF Restarting, Active, HealthOK, Coherent
<1>5. Restarting => life.pc = "done" /\ migration.pc = "done" /\ ~sup.stopping /\ life.live
  BY DEF Restarting, Active, HealthOK
<1>6. Typed' /\ Coherent'
  BY <1>1, <1>2, <1>4, <1>5 DEF Typed, Coherent
<1>7. OneHolder'
  BY <1>1, <1>2, <1>5, PidsAssumption DEF OneHolder, Launched, Spawning, Settled
<1>8. AppOK'
  BY <1>1, <1>2, <1>5, PidsAssumption DEF AppOK, Settled
<1>9. \A q \in Pids : Alive(q)' /\ Held(q) => Held(q)'
  BY <1>1, <1>2 DEF Held, LaunchHolds, StopHolds, Restarting, Spawning
<1>10. Reached' => Reached
  BY <1>1, <1>2, PidsAssumption DEF Reached, Spawning, Launched
<1>11. InHand'
  BY <1>1, <1>9, <1>10 DEF InHand
<1>12. Traced'
  BY <1>1 DEF Reclaimable, OneBackend, Traced
<1>13. ReceiptOK'
  <2>1. life.pc \in {"capturing", "owning"} => life.pid \in Pids
    BY DEF Typed, LifeState, OneHolder, Spawning
  <2> QED
    BY <1>1, <1>2, <2>1 DEF ReceiptOK
<1>14. HealthOK'
  <2>1. sup'.current # None => sup'.current # p /\ sup'.current \in Pids
    BY <1>2, <1>6 DEF Typed, SupState
  <2> QED
    BY <1>1, <1>2, <1>4, <1>5, <2>1 DEF HealthOK
<1>15. MarkerOK'
  BY <1>1, <1>2 DEF MarkerOK, MarkerIsHonest
<1> QED
  BY <1>6, <1>7, <1>8, <1>11, <1>12, <1>13, <1>14, <1>15

-----------------------------------------------------------------------------
(* completeMigration. *)

LEMMA MigrationThrowsKeeps ==
  ASSUME IInv, migration.pc # "done", MigrationThrows,
         \/ schema' = schema
         \/ schema' = "contracted",
         \/ committed' = committed
         \/ committed' = TRUE /\ schema = "contracted" /\ schema' = schema,
         UNCHANGED <<process, receipt, life, stop>>
  PROVE  IInv'
<1> USE DEF IInv, Callers
<1>1. /\ migration' = NoMigrate
      /\ sup' \in SupState /\ sup'.stopping = sup.stopping /\ sup'.current = sup.current
      /\ IF Captured(migration) THEN sup'.state = "healthy" ELSE sup'.state = sup.state
  BY DEF MigrationThrows, Typed, SupState
<1>2. /\ app' \in AppState /\ app'.main = "closing" /\ app'.restore = app.restore
      /\ app'.quit = app.quit /\ app'.lost = app.lost
  BY DEF MigrationThrows, Typed, AppState
<1>3. /\ app.main = "migrating" /\ life.pc = "done"
      /\ migration.pid # None /\ sup.state # "healthy"
  BY DEF AppOK, Coherent, HealthOK
<1>4. Captured(migration) => ~sup.stopping /\ life.live /\ sup.current # None
  BY <1>3 DEF Captured, Active, HealthOK
<1>5. Typed'
  BY <1>1, <1>2, StateTypes DEF Typed
<1>6. Coherent'
  BY <1>1, <1>3, <1>4 DEF Coherent
<1>7. OneHolder' /\ AppOK'
  BY <1>1, <1>2, <1>3 DEF OneHolder, AppOK, Settled, NoMigrate
<1>8. InHand'
  BY <1>1, <1>2, <1>3 DEF InHand, Held, LaunchHolds, StopHolds, Reached, Alive
<1>9. HealthOK'
  BY <1>1, <1>2, <1>3, <1>4 DEF HealthOK, NoMigrate
<1>10. ReceiptOK' /\ Traced'
  BY <1>2 DEF ReceiptOK, Reclaimable, OneBackend, Traced, Alive
<1>11. MarkerOK'
  BY <1>1, <1>2, <1>3 DEF MarkerOK, MarkerIsHonest, NoMigrate
<1> QED
  BY <1>5, <1>6, <1>7, <1>8, <1>9, <1>10, <1>11

LEMMA ReconciledKeeps == ASSUME IInv, Reconciled PROVE IInv'
<1> USE DEF IInv, Callers
<1>1. app.main = "reconciling" /\ UNCHANGED <<process, receipt, schema, committed, life, stop>>
  BY DEF Reconciled, disk
<1>2. CASE /\ sup.state = "healthy"
           /\ sup' = [sup EXCEPT !.state = "migrating"]
           /\ migration' = [pc |-> "contracting", live |-> TRUE, pid |-> sup.current]
           /\ app' = [app EXCEPT !.main = "migrating"]
  <2>1. /\ sup' \in SupState /\ sup'.state = "migrating" /\ sup'.stopping = sup.stopping
        /\ sup'.current = sup.current
    BY <1>2 DEF Typed, SupState
  <2>2. /\ migration' \in MigrationState /\ migration'.pc = "contracting"
        /\ migration'.pid = sup.current
    BY <1>2 DEF Typed, SupState, MigrationState
  <2>3. /\ app' \in AppState /\ app'.main = "migrating" /\ app'.restore = app.restore
        /\ app'.quit = app.quit /\ app'.lost = app.lost
    BY <1>2 DEF Typed, AppState
  <2>4. life.pc = "done" /\ life.live /\ sup.current # None /\ ~sup.stopping
    BY <1>2 DEF HealthOK, Coherent
  <2>5. \A c \in Callers : stop[c].pc = "idle"
    BY <2>4 DEF OneHolder
  <2>6. Typed' /\ Coherent'
    BY <1>1, <2>1, <2>2, <2>3, <2>4 DEF Typed, Coherent
  <2>7. OneHolder' /\ AppOK'
    BY <1>1, <2>1, <2>2, <2>3, <2>4, <2>5 DEF OneHolder, AppOK, Settled
  <2>8. InHand'
    BY <1>1, <2>1, <2>3 DEF InHand, Held, LaunchHolds, StopHolds, Reached, Alive
  <2>9. ReceiptOK' /\ Traced' /\ HealthOK' /\ MarkerOK'
    BY <1>1, <2>1, <2>2, <2>3, <2>4
       DEF ReceiptOK, Reclaimable, OneBackend, Traced, HealthOK, MarkerOK, MarkerIsHonest, Alive
  <2> QED
    BY <2>6, <2>7, <2>8, <2>9
<1>3. CASE app' = [app EXCEPT !.main = "closing"] /\ UNCHANGED <<sup, migration>>
  <2>1. /\ app' \in AppState /\ app'.main = "closing" /\ app'.restore = app.restore
        /\ app'.quit = app.quit /\ app'.lost = app.lost
    BY <1>3 DEF Typed, AppState
  <2>2. Typed' /\ Coherent'
    BY <1>1, <1>3, <2>1 DEF Typed, Coherent
  <2>3. OneHolder' /\ AppOK'
    BY <1>1, <1>3, <2>1 DEF OneHolder, AppOK, Settled
  <2>4. InHand'
    BY <1>1, <1>3, <2>1 DEF InHand, Held, LaunchHolds, StopHolds, Reached, Alive
  <2>5. ReceiptOK' /\ Traced' /\ HealthOK' /\ MarkerOK'
    BY <1>1, <1>3, <2>1
       DEF ReceiptOK, Reclaimable, OneBackend, Traced, HealthOK, MarkerOK, MarkerIsHonest, Alive
  <2> QED
    BY <2>2, <2>3, <2>4, <2>5
<1> QED
  BY <1>2, <1>3 DEF Reconciled

LEMMA ContractsKeeps == ASSUME IInv, Contracts PROVE IInv'
<1>1. /\ migration.pc = "contracting" /\ UNCHANGED <<process, receipt, committed, life, stop>>
      /\ schema' = schema \/ schema' = "contracted"
  BY DEF Contracts
<1>2. CASE MigrationThrows
  BY <1>1, <1>2, MigrationThrowsKeeps
<1>3. CASE /\ schema' = "contracted"
           /\ migration' = [migration EXCEPT !.pc = "committing"]
           /\ UNCHANGED <<sup, app>>
  <2> USE DEF IInv, Callers
  <2>1. /\ migration' \in MigrationState /\ migration'.pc = "committing"
        /\ migration'.pid = migration.pid /\ migration'.live = migration.live
    BY <1>3 DEF Typed, MigrationState
  <2>2. Typed' /\ Coherent'
    BY <1>1, <1>3, <2>1 DEF Typed, Coherent
  <2>3. OneHolder' /\ AppOK'
    BY <1>1, <1>3, <2>1 DEF OneHolder, AppOK, Settled
  <2>4. InHand'
    BY <1>1, <1>3, <2>1 DEF InHand, Held, LaunchHolds, StopHolds, Reached, Alive
  <2>5. ReceiptOK' /\ Traced' /\ HealthOK' /\ MarkerOK'
    BY <1>1, <1>3, <2>1
       DEF ReceiptOK, Reclaimable, OneBackend, Traced, HealthOK, MarkerOK, MarkerIsHonest, Alive
  <2> QED
    BY <2>2, <2>3, <2>4, <2>5
<1> QED
  BY <1>2, <1>3 DEF Contracts

LEMMA CommitsKeeps == ASSUME IInv, Commits PROVE IInv'
<1>1. /\ migration.pc = "committing" /\ UNCHANGED <<process, receipt, schema, life, stop>>
      /\ schema = "contracted"
  BY DEF Commits, IInv, MarkerOK
<1>2. CASE committed' \in {committed, TRUE} /\ MigrationThrows
  <2>1. \/ committed' = committed
        \/ committed' = TRUE /\ schema = "contracted" /\ schema' = schema
    BY <1>1, <1>2
  <2> QED
    BY <1>1, <1>2, <2>1, MigrationThrowsKeeps
<1>3. CASE /\ committed' = TRUE /\ Captured(migration)
           /\ migration' = NoMigrate
           /\ sup' = [sup EXCEPT !.state = "healthy"]
           /\ app' = [app EXCEPT !.main = IF app.restore = "verifying" THEN "closing"
                                          ELSE "finishing"]
  <2> USE DEF IInv, Callers
  <2>1. /\ sup' \in SupState /\ sup'.state = "healthy" /\ sup'.stopping = sup.stopping
        /\ sup'.current = sup.current
    BY <1>3 DEF Typed, SupState
  <2>2. /\ app' \in AppState /\ app'.main \in {"closing", "finishing"}
        /\ app'.restore = app.restore /\ app'.quit = app.quit /\ app'.lost = app.lost
    BY <1>3 DEF Typed, AppState
  <2>3. /\ app.main = "migrating" /\ life.pc = "done" /\ ~sup.stopping /\ life.live
        /\ sup.current # None
    BY <1>1, <1>3 DEF AppOK, Coherent, HealthOK, Captured, Active
  <2>4. Typed' /\ Coherent'
    BY <1>1, <1>3, <2>1, <2>2, <2>3, StateTypes DEF Typed, Coherent
  <2>5. OneHolder' /\ AppOK'
    BY <1>1, <1>3, <2>1, <2>2, <2>3 DEF OneHolder, AppOK, Settled, NoMigrate
  <2>6. InHand'
    BY <1>1, <2>1, <2>2, <2>3 DEF InHand, Held, LaunchHolds, StopHolds, Reached, Alive
  <2>7. ReceiptOK' /\ Traced'
    BY <1>1, <2>2 DEF ReceiptOK, Reclaimable, OneBackend, Traced, Alive
  <2>8. HealthOK' /\ MarkerOK'
    BY <1>1, <1>3, <2>1, <2>2, <2>3 DEF HealthOK, MarkerOK, MarkerIsHonest, NoMigrate
  <2> QED
    BY <2>4, <2>5, <2>6, <2>7, <2>8
<1> QED
  BY <1>2, <1>3 DEF Commits

-----------------------------------------------------------------------------
(* stop(). *)

\* A process that a stop waited for was the only one.
LEMMA StopWasAlone ==
  ASSUME IInv, NEW c \in Callers, stop[c].pid # None, IsGone(stop[c].pid)
  PROVE  \A p \in Pids : Alive(p) => process[p].trace = "lost" /\ app.lost
<1> USE DEF IInv
<1>1. /\ stop[c].pc # "idle" /\ sup.current = None
      /\ \/ life.pc \in Launched \cup {"done"}
         \/ life.pc = "undoing" /\ life.pid = None
      /\ \A d \in Callers : stop[d].pid # None => c = d
  BY DEF OneHolder
<1>2. \A p \in Pids : Alive(p) => ~Held(p)
  BY <1>1, PidsAssumption DEF Held, LaunchHolds, StopHolds, IsGone, Launched, Spawning
<1> QED
  BY <1>2 DEF InHand, Reached, Reclaimable, OneBackend, Traced, ReceiptOK

LEMMA StopWaitsKeeps == ASSUME IInv, NEW c \in Callers, StopWaits(c) PROVE IInv'
<1> USE DEF IInv
<1>1. /\ stop[c].pc = "first" /\ IsGone(stop[c].pid) /\ Removes(stop[c].pid)
      /\ stop[c].pid \in Pids \cup {None}
      /\ UNCHANGED <<process, schema, committed, sup, life, migration, app>>
  BY DEF StopWaits, Typed, StopState
<1>2. /\ stop' \in [Callers -> StopState]
      /\ stop'[c].pc = "waiting" /\ stop'[c].pid = None
      /\ \A d \in Callers : d # c => stop'[d] = stop[d]
  BY DEF StopWaits, Typed, StopState
<1>3. /\ receipt' \in ReceiptState
      /\ receipt'.pid = None <=> receipt'.phase \in {"none", "intent"}
      /\ Traced'
      /\ stop[c].pid = None => receipt' = receipt
  BY <1>1, StopWasAlone, RemovesIs
<1>4. Typed' /\ Coherent'
  BY <1>1, <1>2, <1>3 DEF Typed, Coherent
<1>5. OneHolder'
  BY <1>1, <1>2 DEF OneHolder, Settled
<1>6. AppOK'
  BY <1>1, <1>2 DEF AppOK, Settled, Callers
<1>7. \A p \in Pids : Alive(p) /\ Held(p) => Held(p)'
  BY <1>1, <1>2, PidsAssumption DEF Held, LaunchHolds, StopHolds, IsGone
<1>8. Reached' => Reached
  BY <1>1, <1>2 DEF Reached
<1>9. InHand'
  BY <1>1, <1>7, <1>8 DEF InHand, Alive
<1>10. ReceiptOK'
  <2>1. life.pc \in {"forking", "naming", "clearing"} => stop[c].pid = None
    BY DEF OneHolder, Launched
  <2> QED
    BY <1>1, <1>3, <2>1 DEF ReceiptOK, Alive
<1>11. HealthOK' /\ MarkerOK'
  BY <1>1 DEF HealthOK, MarkerOK, MarkerIsHonest
<1> QED
  BY <1>3, <1>4, <1>5, <1>6, <1>9, <1>10, <1>11

LEMMA StopSettlesKeeps == ASSUME IInv, NEW c \in Callers, StopSettles(c) PROVE IInv'
<1> USE DEF IInv
<1>1. /\ stop[c].pc = "waiting" /\ Settled /\ sup.current = None /\ stop[c].pid = None
      /\ UNCHANGED <<process, receipt, schema, committed, life, migration, app>>
  BY DEF StopSettles, OneHolder, disk
<1>2. /\ stop' \in [Callers -> StopState]
      /\ stop'[c].pc = "second" /\ stop'[c].pid = None
      /\ \A d \in Callers : d # c => stop'[d] = stop[d]
  BY <1>1 DEF StopSettles, Typed, StopState
<1>3. /\ sup' \in SupState /\ sup'.current = None /\ sup'.stopping = sup.stopping
      /\ sup'.state = sup.state
  BY DEF StopSettles, Typed, SupState
<1>4. Typed' /\ Coherent'
  BY <1>1, <1>2, <1>3 DEF Typed, Coherent
<1>5. OneHolder'
  BY <1>1, <1>2, <1>3 DEF OneHolder, Settled
<1>6. AppOK'
  BY <1>1, <1>2, <1>3 DEF AppOK, Settled, Callers
<1>7. \A p \in Pids : Held(p) => Held(p)'
  BY <1>1, <1>2, <1>3, PidsAssumption DEF Held, LaunchHolds, StopHolds
<1>8. Reached' => Reached
  BY <1>1, <1>2, <1>3 DEF Reached
<1>9. InHand'
  BY <1>1, <1>7, <1>8 DEF InHand, Alive
<1>10. ReceiptOK' /\ Traced' /\ HealthOK' /\ MarkerOK'
  BY <1>1, <1>3
     DEF ReceiptOK, Reclaimable, OneBackend, Traced, HealthOK, MarkerOK, MarkerIsHonest, Alive
<1> QED
  BY <1>4, <1>5, <1>6, <1>9, <1>10

\* A stop that begins takes the supervisor's process, if there is one, and nobody else's.
LEMMA TakesKeeps ==
  ASSUME IInv, NEW c \in Callers, Takes(c), stop[c].pc = "idle",
         app' \in AppState, app'.restore = app.restore, app'.lost = app.lost,
         \/ /\ c = "main" /\ app.main = "closing" /\ app'.main = "stopping"
            /\ app'.quit = app.quit
         \/ /\ c = "quit" /\ app'.quit = "stopping" /\ app.restore = "no" /\ app.main # "off"
            /\ app'.main = app.main,
         UNCHANGED <<process, receipt, schema, committed>>
  PROVE  IInv'
<1> USE DEF IInv
<1>1. /\ stop' \in [Callers -> StopState] /\ life' \in LifeState
      /\ migration' \in MigrationState /\ sup' \in SupState
      /\ stop'[c].pc = "first" /\ stop'[c].pid = sup.current
      /\ \A d \in Callers : d # c => stop'[d] = stop[d]
      /\ life'.pc = life.pc /\ life'.kind = life.kind /\ ~life'.live
      /\ life'.fresh = life.fresh /\ life'.pid = life.pid
      /\ migration'.pc = migration.pc /\ migration'.pid = migration.pid /\ ~migration'.live
      /\ sup'.stopping /\ sup'.current = None /\ sup'.state \in {"stopped", "draining"}
  BY TakesIs
<1>2. Typed' /\ Coherent'
  BY <1>1 DEF Typed, Coherent
<1>3. OneHolder'
  BY <1>1 DEF OneHolder, Settled, Launched, Spawning
<1>4. AppOK'
  BY <1>1 DEF AppOK, Settled, Callers
<1>5. \A p \in Pids : Held(p) => Held(p)'
  <2>1. stop[c].pid = None
    BY DEF OneHolder
  <2> QED
    BY <1>1, <2>1, PidsAssumption DEF Held, LaunchHolds, StopHolds
<1>6. Reached' => Reached
  BY <1>1 DEF Reached
<1>7. InHand'
  BY <1>5, <1>6 DEF InHand, Alive
<1>8. ReceiptOK' /\ Traced' /\ HealthOK' /\ MarkerOK'
  BY <1>1 DEF ReceiptOK, Reclaimable, OneBackend, Traced, HealthOK, MarkerOK, MarkerIsHonest, Alive
<1> QED
  BY <1>2, <1>3, <1>4, <1>7, <1>8

-----------------------------------------------------------------------------
(* The program around it. *)

\* A step of the program that only moves it on to m.
LEMMA MovesKeeps ==
  ASSUME IInv, app' \in AppState, app'.lost = app.lost, app.main # "off", app'.main # "off",
         \/ app'.main = app.main
         \/ app.main \in {"finishing", "up"} /\ app'.main \in {"up", "closing"},
         app'.main \in {"finishing", "up"} => app.main \in {"finishing", "up"},
         \/ app'.restore = app.restore /\ (app'.quit = app.quit \/ app.quit = "no")
         \/ /\ app'.restore = "before" /\ app.quit = "no" /\ app'.quit = "no"
            /\ app.main = "up" /\ app'.main = "closing",
         UNCHANGED <<process, receipt, schema, committed, sup, life, migration, stop>>
  PROVE  IInv'
<1> USE DEF IInv
<1>1. Typed' /\ Coherent'
  BY DEF Typed, Coherent
<1>2. OneHolder'
  BY DEF OneHolder, Settled
<1>3. AppOK'
  BY DEF AppOK, Settled
<1>4. Reached' => Reached
  BY DEF Reached
<1>5. InHand'
  BY <1>4 DEF InHand, Held, LaunchHolds, StopHolds, Alive
<1>6. ReceiptOK' /\ Traced' /\ HealthOK' /\ MarkerOK'
  BY DEF ReceiptOK, Reclaimable, OneBackend, Traced, HealthOK, MarkerOK, MarkerIsHonest, Alive
<1> QED
  BY <1>1, <1>2, <1>3, <1>5, <1>6

LEMMA FinishesKeeps == ASSUME IInv, Finishes PROVE IInv'
<1>1. PICK m \in {"up", "closing"} : app' = [app EXCEPT !.main = m]
  BY DEF Finishes
<1>2. /\ app' \in AppState /\ app'.main = m /\ app'.restore = app.restore
      /\ app'.quit = app.quit /\ app'.lost = app.lost
  BY <1>1 DEF IInv, Typed, AppState
<1> QED
  BY <1>2, MovesKeeps DEF Finishes, disk

LEMMA RestoreKeeps == ASSUME IInv, Restore PROVE IInv'
<1>1. /\ app' \in AppState /\ app'.main = "closing" /\ app'.restore = "before"
      /\ app'.quit = app.quit /\ app'.lost = app.lost
  <2> DEFINE n == app.restores + 1
  <2>1. n \in 0..MaxRestores
    BY BoundsAssumption DEF Restore, IInv, Typed, AppState
  <2>2. app' = [app EXCEPT !.main = "closing", !.restore = "before", !.restores = n]
    BY DEF Restore, IInv, Typed, AppState
  <2> HIDE DEF n
  <2> QED
    BY <2>1, <2>2 DEF IInv, Typed, AppState
<1> QED
  BY <1>1, MovesKeeps DEF Restore, disk

LEMMA QuitKeeps == ASSUME IInv, Quit PROVE IInv'
<1>1. /\ app' \in AppState /\ app'.main = app.main /\ app'.restore = app.restore
      /\ app'.lost = app.lost
  BY DEF Quit, IInv, Typed, AppState
<1> QED
  BY <1>1, MovesKeeps DEF Quit, disk

LEMMA MainStopsKeeps == ASSUME IInv, MainStops PROVE IInv'
<1>1. /\ app' \in AppState /\ app'.main = "stopping" /\ app'.restore = app.restore
      /\ app'.quit = app.quit /\ app'.lost = app.lost
  BY DEF MainStops, IInv, Typed, AppState
<1>2. stop["main"].pc = "idle"
  BY DEF MainStops, IInv, AppOK
<1> QED
  BY <1>1, <1>2, TakesKeeps DEF MainStops, disk, Callers

LEMMA QuitStopsKeeps == ASSUME IInv, QuitStops PROVE IInv'
<1>1. /\ app' \in AppState /\ app'.quit = "stopping" /\ app'.restore = app.restore
      /\ app'.main = app.main /\ app'.lost = app.lost
  BY DEF QuitStops, IInv, Typed, AppState
<1>2. stop["quit"].pc = "idle" /\ app.main # "off"
  BY DEF QuitStops, IInv, AppOK
<1> QED
  BY <1>1, <1>2, TakesKeeps DEF QuitStops, disk, Callers

\* Startup, restore and quit go on when their stop has come to its end.
LEMMA MainStoppedKeeps == ASSUME IInv, MainStopped PROVE IInv'
<1> USE DEF IInv
<1>1. /\ stop["main"].pc = "second" /\ stop["main"].pid = None /\ Settled
      /\ sup.current = None /\ app.main = "stopping"
      /\ UNCHANGED <<process, receipt, schema, committed, life, migration>>
  BY DEF MainStopped, Stopped, Removes, OneHolder, AppOK, Callers
<1>2. /\ stop' \in [Callers -> StopState] /\ stop'["main"] = NoStop
      /\ \A d \in Callers : d # "main" => stop'[d] = stop[d]
  BY StateTypes DEF MainStopped, Typed, Callers
<1>3. /\ sup' \in SupState /\ sup'.state = "stopped" /\ sup'.stopping = sup.stopping
      /\ sup'.current = None
  BY <1>1 DEF MainStopped, Typed, SupState
<1>4. /\ app' \in AppState /\ app'.restore = app.restore /\ app'.quit = app.quit
      /\ app'.lost = app.lost
      /\ \/ app'.main \in {"failed", "down"}
         \/ app'.main = "swapping" /\ app.restore = "before"
  <2> DEFINE m == CASE app.restore = "no"     -> "failed"
                    [] app.restore = "before" -> "swapping"
                    [] OTHER                  -> "down"
  <2>1. /\ m \in {"failed", "swapping", "down"} /\ app' = [app EXCEPT !.main = m]
        /\ m = "swapping" => app.restore = "before"
    BY DEF MainStopped
  <2> HIDE DEF m
  <2> QED
    BY <2>1 DEF Typed, AppState
<1>5. Typed' /\ Coherent'
  BY <1>1, <1>2, <1>3, <1>4 DEF Typed, Coherent
<1>6. OneHolder'
  BY <1>1, <1>2, <1>3 DEF OneHolder, Settled, NoStop, Callers
<1>7. AppOK'
  BY <1>1, <1>2, <1>3, <1>4 DEF AppOK, Settled, NoStop, Callers
<1>8. \A p \in Pids : Held(p) => Held(p)'
  BY <1>1, <1>2, <1>3, PidsAssumption DEF Held, LaunchHolds, StopHolds, Callers
<1>9. Reached' => Reached
  BY <1>1, <1>2, <1>3, <1>4 DEF Reached, NoStop, Callers
<1>10. InHand'
  BY <1>1, <1>8, <1>9 DEF InHand, Alive
<1>11. ReceiptOK' /\ Traced' /\ HealthOK' /\ MarkerOK'
  BY <1>1, <1>3, <1>4
     DEF ReceiptOK, Reclaimable, OneBackend, Traced, HealthOK, MarkerOK, MarkerIsHonest, Alive,
         Settled
<1> QED
  BY <1>5, <1>6, <1>7, <1>10, <1>11

\* A service that is started where nothing runs.
LEMMA StartKeeps ==
  ASSUME IInv, app.main \in {"off", "swapping"}, NEW s \in SupState, s.current = None, Started(s),
         app' \in AppState, app'.main = "starting", app'.lost = app.lost, app'.quit = app.quit,
         app'.restore # "no" => app.restore # "no",
         \/ UNCHANGED <<schema, committed>>
         \/ committed' = FALSE /\ schema' = "prior",
         UNCHANGED <<process, receipt, migration, stop>>
  PROVE  IInv'
<1> USE DEF IInv
<1>1. /\ sup' \in SupState /\ sup'.state = "starting" /\ ~sup'.stopping /\ sup'.current = None
      /\ life' \in LifeState /\ life'.pc = "resolving" /\ life'.kind = "start" /\ life'.live
      /\ life'.pid = None
  BY StartedIs
<1>2. /\ Settled /\ sup.current = None
      /\ \A c \in Callers : stop[c].pc = "idle" /\ stop[c].pid = None
  BY DEF AppOK, Callers, OneHolder
<1>3. Typed' /\ Coherent'
  BY <1>1, <1>2 DEF Typed, Coherent, Settled
<1>4. OneHolder' /\ AppOK'
  BY <1>1, <1>2 DEF OneHolder, AppOK, Settled, Launched, Spawning, Callers
<1>5. \A p \in Pids : Alive(p) => ~Held(p)
  BY <1>2, PidsAssumption DEF Held, LaunchHolds, StopHolds, Settled, Spawning
<1>6. Reached' => Reached
  BY <1>1, <1>2 DEF Reached, Launched, Spawning
<1>7. InHand'
  BY <1>5, <1>6 DEF InHand, Alive
<1>8. ReceiptOK' /\ Traced' /\ HealthOK' /\ MarkerOK'
  BY <1>1, <1>2
     DEF ReceiptOK, Reclaimable, OneBackend, Traced, HealthOK, MarkerOK, MarkerIsHonest, Alive,
         Settled
<1> QED
  BY <1>3, <1>4, <1>7, <1>8

LEMMA BootKeeps == ASSUME IInv, Boot PROVE IInv'
<1>1. /\ app' \in AppState /\ app'.main = "starting" /\ app'.restore = app.restore
      /\ app'.quit = app.quit /\ app'.lost = app.lost
  <2> DEFINE n == app.runs + 1
  <2>1. n \in 0..MaxRuns /\ app' = [app EXCEPT !.main = "starting", !.runs = n]
    BY BoundsAssumption DEF Boot, IInv, Typed, AppState
  <2> HIDE DEF n
  <2> QED
    BY <2>1 DEF IInv, Typed, AppState
<1>2. NewSup \in SupState /\ NewSup.current = None
  BY StateTypes DEF NewSup
<1> QED
  BY <1>1, <1>2, StartKeeps DEF Boot

LEMMA SwapsKeeps == ASSUME IInv, Swaps PROVE IInv'
<1>1. CASE /\ committed' = FALSE /\ schema' = "prior" /\ Started(sup)
           /\ app' = [app EXCEPT !.main = "starting", !.restore = "verifying"]
  <2>1. /\ app' \in AppState /\ app'.main = "starting" /\ app'.quit = app.quit
        /\ app'.lost = app.lost
    BY <1>1 DEF IInv, Typed, AppState
  <2>2. sup \in SupState /\ sup.current = None /\ app.restore # "no"
    BY DEF Swaps, IInv, Typed, AppOK
  <2> QED
    BY <1>1, <2>1, <2>2, StartKeeps DEF Swaps
<1>2. CASE app' = [app EXCEPT !.main = "down"] /\ UNCHANGED <<schema, committed, sup, life>>
  <2>1. /\ app' \in AppState /\ app'.main = "down" /\ app'.restore = app.restore
        /\ app'.quit = app.quit /\ app'.lost = app.lost
        /\ app.main = "swapping" /\ UNCHANGED <<process, receipt, migration, stop>>
    BY <1>2 DEF Swaps, IInv, Typed, AppState
  <2> USE DEF IInv
  <2>2. Typed' /\ Coherent'
    BY <1>2, <2>1 DEF Typed, Coherent
  <2>3. OneHolder' /\ AppOK'
    BY <1>2, <2>1 DEF OneHolder, AppOK, Settled
  <2>4. Reached' => Reached
    BY <1>2, <2>1 DEF Reached
  <2>5. InHand'
    BY <1>2, <2>1, <2>4 DEF InHand, Held, LaunchHolds, StopHolds, Alive
  <2>6. ReceiptOK' /\ Traced' /\ HealthOK' /\ MarkerOK'
    BY <1>2, <2>1
       DEF ReceiptOK, Reclaimable, OneBackend, Traced, HealthOK, MarkerOK, MarkerIsHonest, Alive
  <2> QED
    BY <2>2, <2>3, <2>5, <2>6
<1> QED
  BY <1>1, <1>2 DEF Swaps

\* The program ends at any point: what runs is what the receipt leads to.
LEMMA VanishesKeeps ==
  ASSUME IInv, Vanishes, receipt' \in ReceiptState,
         receipt'.pid = None <=> receipt'.phase \in {"none", "intent"},
         \/ receipt' = receipt
         \/ \A p \in Pids : Alive(p) => process[p].trace = "lost" /\ app.lost,
         UNCHANGED <<schema, committed>>
  PROVE  IInv'
<1> USE DEF IInv
<1>1. /\ process' \in [Pids -> ProcessState]
      /\ \A p \in Pids : /\ process'[p].state = process[p].state /\ ~process'[p].ours
                         /\ process'[p].trace = process[p].trace
      /\ sup' = NewSup /\ life' = NoLife /\ migration' = NoMigrate
      /\ stop' \in [Callers -> StopState] /\ \A c \in Callers : stop'[c] = NoStop
      /\ app' \in AppState
      /\ app'.main = "off" /\ app'.restore = "no" /\ app'.quit = "no" /\ app'.lost = app.lost
  BY VanishesIs
<1>2. Typed'
  BY <1>1, StateTypes DEF Typed
<1>3. ASSUME NEW p \in Pids, process'[p].state = "gone" PROVE process'[p] = Gone
  <2>1. process[p] = Gone
    BY <1>1, <1>3 DEF Coherent
  <2> QED
    BY <1>1, <2>1 DEF Gone, ProcessState
<1>4. Coherent'
  BY <1>1, <1>3 DEF Coherent, NewSup, NoLife
<1>5. OneHolder' /\ AppOK'
  BY <1>1
     DEF OneHolder, AppOK, Settled, NewSup, NoLife, NoMigrate, NoStop, Callers, Launched,
         Spawning
<1>6. ~Reached'
  BY <1>1 DEF Reached, NewSup, NoLife, NoStop, Launched, Spawning
<1>7. InHand'
  BY <1>1, <1>6 DEF InHand
<1>8. Traced'
  BY <1>1 DEF Reclaimable, OneBackend, Traced, Alive
<1>9. ReceiptOK' /\ HealthOK' /\ MarkerOK'
  BY <1>1 DEF ReceiptOK, HealthOK, MarkerOK, MarkerIsHonest, NewSup, NoLife, NoMigrate
<1> QED
  BY <1>2, <1>4, <1>5, <1>7, <1>8, <1>9

LEMMA QuitStoppedKeeps == ASSUME IInv, QuitStopped PROVE IInv'
<1>1. receipt' = receipt
  BY DEF QuitStopped, Stopped, Removes, IInv, OneHolder, Callers
<1> QED
  BY <1>1, VanishesKeeps DEF QuitStopped, IInv, Typed, Coherent

LEMMA ForceQuitKeeps == ASSUME IInv, ForceQuit PROVE IInv'
  BY VanishesKeeps DEF ForceQuit, disk, IInv, Typed, Coherent

-----------------------------------------------------------------------------
(* The theorems. *)

LEMMA InitOK == Init => IInv
<1> SUFFICES ASSUME Init PROVE IInv
  OBVIOUS
<1> USE DEF IInv
<1>1. /\ \A p \in Pids : process[p] = Gone /\ ~Alive(p)
      /\ \A c \in Callers : stop[c] = NoStop
      /\ process \in [Pids -> ProcessState] /\ stop \in [Callers -> StopState]
  BY StateTypes DEF Init, Alive, Gone
<1>2. app \in AppState /\ app.main = "off" /\ app.restore = "no" /\ app.quit = "no"
  BY BoundsAssumption DEF Init, AppState
<1>3. Typed
  BY <1>1, <1>2, StateTypes DEF Typed, Init
<1>4. Coherent
  BY <1>1 DEF Coherent, Init, NoReceipt, NewSup, NoLife
<1>5. OneHolder /\ AppOK
  BY <1>1, <1>2
     DEF OneHolder, AppOK, Init, NewSup, NoLife, NoMigrate, NoStop, Settled, Launched, Spawning,
         Callers
<1>6. InHand /\ Traced
  BY <1>1 DEF InHand, Reclaimable, OneBackend, Traced
<1>7. ReceiptOK /\ HealthOK /\ MarkerOK
  BY <1>2 DEF ReceiptOK, HealthOK, MarkerOK, MarkerIsHonest, Init, NewSup, NoLife, NoMigrate
<1> QED
  BY <1>3, <1>4, <1>5, <1>6, <1>7

LEMMA StutterKeeps == ASSUME IInv, UNCHANGED vars PROVE IInv'
<1> USE DEF IInv, vars
<1>1. Typed' /\ Coherent'
  BY DEF Typed, Coherent
<1>2. OneHolder' /\ AppOK'
  BY DEF OneHolder, AppOK, Settled
<1>3. InHand' /\ ReceiptOK' /\ Traced'
  BY
     DEF InHand, Held, LaunchHolds, StopHolds, Reached, ReceiptOK, Reclaimable, OneBackend,
         Traced, Alive
<1>4. HealthOK' /\ MarkerOK'
  BY DEF HealthOK, MarkerOK, MarkerIsHonest
<1> QED
  BY <1>1, <1>2, <1>3, <1>4

LEMMA NextKeeps == ASSUME IInv, [Next]_vars PROVE IInv'
<1>1. CASE \E p \in Pids : Serves(p) \/ Exits(p)
  BY <1>1, ServesKeeps, ExitsKeeps
<1>2. CASE LaunchStep
  BY <1>2, LaunchKeeps
<1>3. CASE MigrationStep
  BY <1>3, ContractsKeeps, CommitsKeeps DEF MigrationStep
<1>4. CASE MainStep
  BY <1>4, ReconciledKeeps, FinishesKeeps, MainStopsKeeps, MainStoppedKeeps, SwapsKeeps DEF MainStep
<1>5. CASE QuitStep
  BY <1>5, QuitStopsKeeps, QuitStoppedKeeps DEF QuitStep
<1>6. CASE \E c \in Callers : StopStep(c)
  BY <1>6, StopWaitsKeeps, StopSettlesKeeps DEF StopStep
<1>7. CASE Boot \/ Restore \/ Quit \/ ForceQuit
  BY <1>7, BootKeeps, RestoreKeeps, QuitKeeps, ForceQuitKeeps
<1>8. CASE UNCHANGED vars
  BY <1>8, StutterKeeps
<1> QED
  BY <1>1, <1>2, <1>3, <1>4, <1>5, <1>6, <1>7, <1>8 DEF Next

LEMMA ServiceInvariant == Spec => []IInv
  BY InitOK, NextKeeps, PTL DEF Spec

\* Nobody runs on the database that is exchanged, and nobody answers for a service that is called
\* healthy but its own process.
LEMMA InvariantSuffices == IInv => NoStrayBackend /\ NoFalseHealth
<1> SUFFICES ASSUME IInv PROVE NoStrayBackend /\ NoFalseHealth
  OBVIOUS
<1> USE DEF IInv
<1>1. SwapIsCold
  <2> SUFFICES ASSUME app.main = "swapping", NEW p \in Pids, Alive(p)
               PROVE  process[p].trace = "lost"
    BY DEF SwapIsCold
  <2>1. /\ Settled /\ sup.current = None /\ Reached
        /\ \A c \in Callers : stop[c].pc = "idle" /\ stop[c].pid = None
    BY DEF AppOK, Reached, OneHolder, Callers
  <2>2. ~Held(p)
    BY <2>1, PidsAssumption DEF Held, LaunchHolds, StopHolds, Settled, Spawning
  <2> QED
    BY <2>1, <2>2 DEF InHand
<1>2. HealthyServes
  BY DEF HealthyServes, HealthOK
<1> QED
  BY <1>1, <1>2 DEF NoStrayBackend, NoFalseHealth, MarkerOK, Traced

\* The state of the service keeps its types and the pc's of its routines their order.
THEOREM ServiceTyped == Spec => []TypeOK
  BY ServiceInvariant, TypeParts, PTL DEF IInv

\* There are never two backends on a database, nor one on a database that is exchanged, whatever
\* is killed, exits or is stopped in between: the next launch finds what the receipt leads to.
THEOREM OneBackendPerDatabase == Spec => []NoStrayBackend
  BY ServiceInvariant, InvariantSuffices, PTL

\* A healthy service is served by its own process, and the marker of a build means its schema.
THEOREM HealthMeansHealth == Spec => []NoFalseHealth
  BY ServiceInvariant, InvariantSuffices, PTL

-----------------------------------------------------------------------------
(***************************************************************************)
(* RestoreJournal.  First the data root: files f, checkpoint c, and        *)
(* whether a startup has accepted the outcome of the last restore (a).     *)
(***************************************************************************)

\* An owner is in its place, or displaced and something of the restore is there.
OwnerHeld(f, place, aside, old, new) ==
  \/ f[aside] = Missing /\ f[place] = old
  \/ f[aside] = old /\ f[place] \in new

Whether(c) == c = [version |-> 1, phase |-> "verified"]
              \/ c = [version |-> 2, phase |-> "runtime-healthy"]

RootTyped(f, c, a) ==
  f \in [Places -> Contents] /\ c \in Checkpoints /\ a \in BOOLEAN

\* What nothing has been displaced from, and what a version 1 restore leaves alone.
Undisturbed(f, c) ==
  /\ c = NoCheckpoint =>
       /\ f["dbDisplaced"] = Missing /\ f["setDisplaced"] = Missing
       /\ f["database"] = Missing <=> f["settings"] = Missing
  /\ c.version = 1 => f["setDisplaced"] = Missing /\ f["setStaging"] = Missing

\* As long as nothing is accepted, the prior owners are where the checkpoint says.
Recoverable(f, c) ==
  /\ c = NoCheckpoint => f["database"] = prior.database /\ f["settings"] = prior.settings
  /\ c # NoCheckpoint =>
       /\ OwnerHeld(f, "database", "dbDisplaced", prior.database, {Missing, Hollow, target.database})
       /\ OwnerHeld(f, "settings", "setDisplaced", prior.settings, {Missing, Default, target.settings})
  /\ c.version = 1 => target.settings = prior.settings
  /\ Whether(c) /\ f["dbDisplaced"] # Missing => f["settings"] = target.settings
  /\ c.version = 2 /\ c.phase \notin {"verified", "database-displaced"}
     /\ f["setDisplaced"] = Missing => f["dbDisplaced"] = Missing
  /\ c.phase # "finalized"

RootInv(f, c, a) ==
  RootTyped(f, c, a) /\ Undisturbed(f, c) /\ (~a => Recoverable(f, c))

-----------------------------------------------------------------------------
(* What is left to do, and what the files are at that point.               *)

Absent(p) == files[p] = Missing
Standing == ~Absent("database") /\ ~Absent("settings")
Journal == checkpoint # NoCheckpoint
Bare == Absent("dbStaging") /\ Absent("setStaging") /\ Absent("dbDisplaced") /\ Absent("setDisplaced")
FinishPlaces == {"dbDisplaced", "setDisplaced", "dbStaging", "setStaging"}

\* The staged copies that are there go, then the checkpoint.
EndTails == {<<Forget>>,
             <<Discard({"dbStaging"}), Forget>>,
             <<Discard({"setStaging"}), Forget>>,
             <<Discard({"dbStaging"}), Discard({"setStaging"}), Forget>>}
EndTail(r) ==
  \/ r = <<Forget>> /\ Absent("dbStaging") /\ Absent("setStaging")
  \/ r = <<Discard({"dbStaging"}), Forget>> /\ Absent("setStaging")
  \/ r = <<Discard({"setStaging"}), Forget>> /\ Absent("dbStaging")
  \/ r = <<Discard({"dbStaging"}), Discard({"setStaging"}), Forget>>

\* Before that, displaced settings come back, and before them a displaced database.
SetBack(r)  == <<Move("setDisplaced", "settings")>> \o r
SetSwap(r)  == <<Discard({"settings"})>> \o SetBack(r)
SetTails    == EndTails \cup {SetBack(r) : r \in EndTails} \cup {SetSwap(r) : r \in EndTails}
SetTail(r) ==
  \/ Absent("setDisplaced") /\ ~Absent("settings") /\ EndTail(r)
  \/ ~Absent("setDisplaced") /\ \E q \in EndTails : EndTail(q) /\ r \in {SetBack(q), SetSwap(q)}

DbBack(r)  == <<Move("dbDisplaced", "database")>> \o r
DbSwap(r)  == <<Discard({"database"})>> \o DbBack(r)
UndoTail(r) ==
  \/ Absent("dbDisplaced") /\ ~Absent("database") /\ SetTail(r)
  \/ ~Absent("dbDisplaced") /\ \E q \in SetTails : SetTail(q) /\ r \in {DbBack(q), DbSwap(q)}

FinishTail(r) ==
  /\ Standing
  /\ \/ r = <<Forget>> /\ Bare
     \/ /\ r = <<Discard({"dbDisplaced"}), Forget>> /\ checkpoint.version = 1
        /\ Absent("dbStaging") /\ Absent("setStaging") /\ Absent("setDisplaced")
     \/ r = <<Discard(FinishPlaces), Forget>>
     \/ r = <<Record(2, "finalized"), Discard(FinishPlaces), Forget>> /\ checkpoint.version = 2

SettledDisk ==
  /\ Standing
  /\ checkpoint = NoCheckpoint => Absent("dbStaging") /\ Absent("setStaging")
  /\ checkpoint.version = 1 => Absent("dbStaging")

\* recoverInterruptedRestore and rollbackPendingRestore.
Recovering ==
  \/ todo = <<Discard({"dbStaging", "setStaging", "orphan"})>> /\ ~Journal /\ Standing
  \/ todo = <<Discard({"dbStaging"})>> /\ Whether(checkpoint) /\ checkpoint.version = 1 /\ Standing
  \/ todo = <<>> /\ SettledDisk
  \/ Journal /\ UndoTail(todo)
  \/ Journal /\ accepted /\ FinishTail(todo)

Finalizing ==
  /\ accepted
  /\ \/ todo = <<>> /\ ~Journal /\ Standing /\ Bare
     \/ Journal /\ FinishTail(todo)

-----------------------------------------------------------------------------
(* A restore, step by step.                                                *)

Rest(steps, k) == SubSeq(steps, k, Len(steps))
RestoreSteps(v) == StageSteps(v, target.database) \o ActivateSteps(v)
At(v, phase) == checkpoint = [version |-> v, phase |-> phase]

RestoringV1(k) ==
  /\ todo = Rest(RestoreSteps(1), k)
  /\ k <= 3 => ~Journal
  /\ k \in 4 .. 5 => At(1, "prepared")
  /\ k \in 6 .. 7 => At(1, "displaced")
  /\ k \in 8 .. 10 => At(1, "activated")
  /\ k = 11 => At(1, "verified")
  /\ k \in 3 .. 6 => files["dbStaging"] = target.database
  /\ files["database"] = IF k <= 4 THEN prior.database
                         ELSE IF k <= 6 THEN Missing ELSE target.database
  /\ files["dbDisplaced"] = IF k <= 4 THEN Missing ELSE prior.database
  /\ Absent("setStaging") /\ Absent("setDisplaced")
  /\ files["settings"] = prior.settings /\ target.settings = prior.settings

RestoringV2(k) ==
  /\ todo = Rest(RestoreSteps(2), k)
  /\ k <= 5 => ~Journal
  /\ k \in 6 .. 7 => At(2, "verified")
  /\ k \in 8 .. 9 => At(2, "database-displaced")
  /\ k \in 10 .. 11 => At(2, "settings-displaced")
  /\ k \in 12 .. 14 => At(2, "database-activated")
  /\ k \in 15 .. 17 => At(2, "settings-activated")
  /\ k = 18 => At(2, "runtime-healthy")
  /\ k \in 4 .. 10 => files["dbStaging"] = target.database
  /\ k \in 5 .. 12 => files["setStaging"] = target.database
  /\ files["database"] = IF k <= 6 THEN prior.database
                         ELSE IF k <= 10 THEN Missing ELSE target.database
  /\ files["dbDisplaced"] = IF k <= 6 THEN Missing ELSE prior.database
  /\ files["settings"] = IF k <= 8 THEN prior.settings
                         ELSE IF k <= 12 THEN Missing ELSE target.settings
  /\ files["setDisplaced"] = IF k <= 8 THEN Missing ELSE prior.settings
  /\ target.settings = target.database

Restoring ==
  /\ ~accepted /\ target.database \in Whole
  /\ (\E k \in 1 .. 11 : RestoringV1(k)) \/ (\E k \in 1 .. 18 : RestoringV2(k))

-----------------------------------------------------------------------------
(* A reset, and its roll-back.  While the root is in quarantine, the       *)
(* records it was served with are in the Keychain or among the values that *)
(* the reset has read.                                                     *)

Usable(k) ==
  k \in [Keys -> 0 .. MaxResets + 1] /\ k["secret"] = k["admin"] /\ k["secret"] # 0
Quarantined == Head(quarantine)
NoRoot ==
  /\ files = [p \in Places |-> Missing] /\ ~Journal /\ accepted /\ served = Unserved
InQuarantine ==
  /\ NoRoot
  /\ quarantine = <<Quarantined>>
  /\ RootInv(Quarantined.files, Quarantined.checkpoint, Quarantined.accepted)
  /\ Quarantined.marker \in BOOLEAN
  /\ Quarantined.served \in [Keys -> 0 .. MaxResets + 2]
  /\ Quarantined.served # Unserved => Usable(Quarantined.served)

\* Record i is read at step i + 2, and deleted at step i + 5.
RecordKept(i, k) ==
  /\ k <= i + 5 => keys[Records[i]] = Quarantined.served[Records[i]]
  /\ k > i + 2 => values[Records[i]] = Quarantined.served[Records[i]]
  /\ k <= i + 2 => values[Records[i]] = Unread

Resetting ==
  \E k \in 1 .. 9 :
    /\ todo = Rest(ResetSteps, k)
    /\ k <= 2 => values = Every(Unread)
    /\ k > 2 => InQuarantine
    /\ k > 2 /\ Quarantined.served # Unserved => \A i \in 1 .. 3 : RecordKept(i, k)
    /\ \A i \in 1 .. 3 : k > i + 5 => keys[Records[i]] = 0

Reverting ==
  \/ todo = <<>>
  \/ \E W \in SUBSET Keys :
       /\ todo = Writes(W) /\ NoRoot
       /\ \A r \in W : values[r] \in 0 .. MaxResets + 1
  \/ \E W \in SUBSET Keys :
       /\ todo = Writes(W) \o <<ReturnRoot>>
       /\ InQuarantine
       /\ \A r \in W : values[r] \in 0 .. MaxResets + 1
       /\ Quarantined.served # Unserved =>
            /\ \A r \in W : values[r] = Quarantined.served[r]
            /\ \A r \in Keys \ W : keys[r] = Quarantined.served[r]

-----------------------------------------------------------------------------
(* The inductive invariant.                                                *)

Point ==
  /\ mode \in {"down", "opened", "starting", "serving", "idle", "stopped"} => todo = <<>>
  /\ mode = "opened" => Standing
  /\ mode \in {"recovering", "undoing", "backing-out"} => Recovering
  /\ mode = "starting" => SettledDisk /\ keys["secret"] # 0
  /\ mode \in {"finalizing", "serving"} => served # Unserved
  /\ mode = "finalizing" => Finalizing
  /\ mode = "serving" => accepted /\ ~Journal /\ Standing /\ Bare
  /\ mode = "restoring" => Restoring
  /\ mode \in {"undoing", "cleaning"} => ~accepted
  /\ mode = "cleaning" => todo \in {<<Discard({"dbStaging", "setStaging"})>>, <<>>}
  /\ mode = "stopped" =>
       \/ ~accepted /\ Standing /\ Owners = target
       \/ accepted /\ keys = Every(0)
  /\ mode = "resetting" => Resetting
  /\ mode = "reverting" => Reverting

WellTyped ==
  /\ RootTyped(files, checkpoint, accepted)
  /\ marker \in BOOLEAN /\ pending \in BOOLEAN
  /\ mem \in Contents \ {Missing}
  /\ mode \in Modes
  /\ prior \in [database : Contents \ {Missing}, settings : Contents \ {Missing}]
  /\ target \in [database : Contents \ {Missing}, settings : Contents \ {Missing}]
  /\ restores \in 0 .. MaxBegun /\ troubles \in 0 .. MaxTroubles
  /\ keys \in [Keys -> 0 .. MaxResets + 1]
  /\ values \in [Keys -> 0 .. MaxResets + 2]
  /\ served \in [Keys -> 0 .. MaxResets + 2]
  /\ resets \in 0 .. MaxResets

Credentials ==
  served # Unserved => keys = served /\ Usable(keys)

JournalInv == WellTyped /\ RootInv(files, checkpoint, accepted) /\ Credentials /\ Point

-----------------------------------------------------------------------------
(* Sequences.                                                              *)

LEMMA Cons ==
  ASSUME NEW S, NEW a \in S, NEW s \in Seq(S)
  PROVE  /\ <<a>> \o s \in Seq(S) /\ <<a>> \o s # <<>>
         /\ Head(<<a>> \o s) = a /\ Tail(<<a>> \o s) = s
OBVIOUS

LEMMA ConcatLen ==
  ASSUME NEW S, NEW s \in Seq(S), NEW t \in Seq(S)
  PROVE  s \o t \in Seq(S) /\ Len(s \o t) = Len(s) + Len(t)
OBVIOUS

LEMMA ConcatLeft ==
  ASSUME NEW S, NEW s \in Seq(S), NEW t \in Seq(S), NEW i \in 1 .. Len(s)
  PROVE  (s \o t)[i] = s[i]
OBVIOUS

LEMMA ConcatRight ==
  ASSUME NEW S, NEW s \in Seq(S), NEW t \in Seq(S), NEW i \in 1 .. Len(t)
  PROVE  (s \o t)[Len(s) + i] = t[i]
OBVIOUS

\* Sequence L is s followed by t, of m and n elements.
Joined(S, L, s, t, m, n) ==
  /\ L \in Seq(S) /\ Len(L) = m + n
  /\ \A i \in 1 .. m : L[i] = s[i]
  /\ \A i \in 1 .. n : L[m + i] = t[i]

LEMMA Concat ==
  ASSUME NEW S, NEW s \in Seq(S), NEW t \in Seq(S)
  PROVE  Joined(S, s \o t, s, t, Len(s), Len(t))
<1>1. s \o t \in Seq(S) /\ Len(s \o t) = Len(s) + Len(t)
  BY ConcatLen, Zenon
<1>2. \A i \in 1 .. Len(s) : (s \o t)[i] = s[i]
  BY ConcatLeft, Zenon
<1>3. \A i \in 1 .. Len(t) : (s \o t)[Len(s) + i] = t[i]
  BY ConcatRight, Zenon
<1> QED
  BY <1>1, <1>2, <1>3, Zenon DEF Joined

LEMMA SameElements ==
  ASSUME NEW S, NEW s \in Seq(S), NEW t \in Seq(S), Len(s) = Len(t),
         \A i \in 1 .. Len(s) : s[i] = t[i]
  PROVE  s = t
OBVIOUS

LEMMA PairConcat ==
  ASSUME NEW S, NEW a \in S, NEW b \in S
  PROVE  <<a>> \o <<b>> = <<a, b>>
<1> DEFINE s == <<a>>  t == <<b>>  u == <<a, b>>
           L == s \o t
<1>1. s \in Seq(S) /\ t \in Seq(S) /\ u \in Seq(S) /\ Len(s) = 1 /\ Len(t) = 1 /\ Len(u) = 2
  OBVIOUS
<1>2. s[1] = a /\ t[1] = b /\ u[1] = a /\ u[2] = b
  OBVIOUS
<1> HIDE DEF s, t, u
<1>3. Joined(S, L, s, t, 1, 1)
  BY <1>1, Concat, Zenon
<1> HIDE DEF L
<1>5. L \in Seq(S) /\ Len(L) = Len(u) /\ \A i \in 1 .. Len(L) : L[i] = u[i]
  BY <1>1, <1>2, <1>3 DEF Joined
<1>6. L = u
  BY <1>1, <1>5, SameElements
<1> QED
  BY <1>6 DEF L, s, t, u

LEMMA TripleConcat ==
  ASSUME NEW S, NEW a \in S, NEW b \in S, NEW c \in S
  PROVE  <<a>> \o <<b, c>> = <<a, b, c>>
<1> DEFINE s == <<a>>  t == <<b, c>>  u == <<a, b, c>>
           L == s \o t
<1>1. /\ s \in Seq(S) /\ t \in Seq(S) /\ u \in Seq(S)
      /\ Len(s) = 1 /\ Len(t) = 2 /\ Len(u) = 3
  OBVIOUS
<1>2. s[1] = a /\ t[1] = b /\ t[2] = c /\ u[1] = a /\ u[2] = b /\ u[3] = c
  OBVIOUS
<1> HIDE DEF s, t, u
<1>3. Joined(S, L, s, t, 1, 2)
  BY <1>1, Concat, Zenon
<1> HIDE DEF L
<1>5. L \in Seq(S) /\ Len(L) = Len(u) /\ \A i \in 1 .. Len(L) : L[i] = u[i]
  BY <1>1, <1>2, <1>3 DEF Joined
<1>6. L = u
  BY <1>1, <1>5, SameElements
<1> QED
  BY <1>6 DEF L, s, t, u

LEMMA RestOf ==
  ASSUME NEW S, NEW s \in Seq(S), NEW k \in 1 .. Len(s)
  PROVE  /\ Rest(s, k) # <<>> /\ Head(Rest(s, k)) = s[k]
         /\ Tail(Rest(s, k)) = Rest(s, k + 1)
<1>1. Len(SubSeq(s, k, Len(s))) = Len(s) - k + 1
  OBVIOUS
<1>2. Len(SubSeq(s, k, Len(s))) # 0
  BY <1>1
<1>3. SubSeq(s, k, Len(s)) # <<>>
  <2>1. Len(<<>>) = 0
    OBVIOUS
  <2> QED
    BY <1>2, <2>1, Zenon
<1>4. Head(SubSeq(s, k, Len(s))) = s[k]
  OBVIOUS
<1>5. Tail(SubSeq(s, k, Len(s))) = SubSeq(s, k + 1, Len(s))
  OBVIOUS
<1> QED
  BY <1>3, <1>4, <1>5 DEF Rest

LEMMA RestEnds ==
  ASSUME NEW S, NEW s \in Seq(S)
  PROVE  Rest(s, 1) = s /\ Rest(s, Len(s) + 1) = <<>>
<1>1. Rest(s, 1) = s
  BY SubSeqFull DEF Rest
<1>2. Rest(s, Len(s) + 1) = <<>>
  BY SubSeqEmpty, LenProperties DEF Rest
<1> QED
  BY <1>1, <1>2

LEMMA ThreeSeq ==
  ASSUME NEW S, NEW f \in [1 .. 3 -> S]
  PROVE  f \in Seq(S) /\ Len(f) = 3
<1>1. f \in Seq(S)
  BY SeqDef
<1>2. DOMAIN f = 1 .. Len(f) /\ Len(f) \in Nat
  BY <1>1, LenProperties
<1>3. 1 .. 3 = 1 .. Len(f)
  BY <1>2
<1> QED
  BY <1>1, <1>2, <1>3

-----------------------------------------------------------------------------
(* The routines, as sequences of steps.                                    *)

AllSteps ==
  {Put(p, c) : p \in Places, c \in Contents}
  \cup {Move(p, q) : p \in Places, q \in Places}
  \cup {Discard(ps) : ps \in SUBSET Places}
  \cup {Record(v, f) : v \in {1, 2}, f \in PhasesV1 \cup PhasesV2}
  \cup {[op |-> o, key |-> r] : o \in {"readKey", "deleteKey", "writeKey"}, r \in Keys}
  \cup {Forget, Invalidate, Verify, BackUp, MoveRoot, ReturnRoot}

LEMMA StepKinds ==
  /\ \A p \in Places, c \in Contents : Put(p, c) \in AllSteps
  /\ \A p \in Places, q \in Places : Move(p, q) \in AllSteps
  /\ \A ps \in SUBSET Places : Discard(ps) \in AllSteps
  /\ \A v \in {1, 2}, f \in PhasesV1 \cup PhasesV2 : Record(v, f) \in AllSteps
  /\ \A o \in {"readKey", "deleteKey", "writeKey"}, r \in Keys :
       [op |-> o, key |-> r] \in AllSteps
  /\ {Forget, Invalidate, Verify, BackUp, MoveRoot, ReturnRoot} \subseteq AllSteps
<1>1. \A p \in Places, c \in Contents : Put(p, c) \in AllSteps
  BY DEF AllSteps
<1>2. \A p \in Places, q \in Places : Move(p, q) \in AllSteps
  BY DEF AllSteps
<1>3. \A ps \in SUBSET Places : Discard(ps) \in AllSteps
  BY DEF AllSteps
<1>4. \A v \in {1, 2}, f \in PhasesV1 \cup PhasesV2 : Record(v, f) \in AllSteps
  BY DEF AllSteps
<1>5. \A o \in {"readKey", "deleteKey", "writeKey"}, r \in Keys :
        [op |-> o, key |-> r] \in AllSteps
  BY DEF AllSteps
<1>6. {Forget, Invalidate, Verify, BackUp, MoveRoot, ReturnRoot} \subseteq AllSteps
  BY DEF AllSteps
<1> QED
  BY <1>1, <1>2, <1>3, <1>4, <1>5, <1>6, Zenon

LEMMA StepsV1 ==
  ASSUME target.database \in Whole
  PROVE  LET L == RestoreSteps(1)
         IN  /\ L \in Seq(AllSteps) /\ Len(L) = 10
             /\ L[1] = Put("dbStaging", Hollow) /\ L[2] = Put("dbStaging", target.database)
             /\ L[3] = Record(1, "prepared") /\ L[4] = Move("database", "dbDisplaced")
             /\ L[5] = Record(1, "displaced") /\ L[6] = Move("dbStaging", "database")
             /\ L[7] = Record(1, "activated") /\ L[8] = Invalidate
             /\ L[9] = Verify /\ L[10] = Record(1, "verified")
<1> DEFINE n == target.database
           L == RestoreSteps(1)
           s == <<Put("dbStaging", Hollow), Put("dbStaging", n)>>
           t == <<Record(1, "prepared"), Move("database", "dbDisplaced"),
                  Record(1, "displaced"), Move("dbStaging", "database"),
                  Record(1, "activated"), Invalidate, Verify, Record(1, "verified")>>
<1>1. L = s \o t
  BY DEF RestoreSteps, StageSteps, ActivateSteps
<1>2. /\ Put("dbStaging", Hollow) \in AllSteps /\ Put("dbStaging", n) \in AllSteps
      /\ Move("database", "dbDisplaced") \in AllSteps /\ Move("dbStaging", "database") \in AllSteps
      /\ Invalidate \in AllSteps /\ Verify \in AllSteps
  BY StepKinds DEF Contents, Places, Directories, Databases
<1>3. /\ Record(1, "prepared") \in AllSteps /\ Record(1, "displaced") \in AllSteps
      /\ Record(1, "activated") \in AllSteps /\ Record(1, "verified") \in AllSteps
  BY StepKinds DEF PhasesV1
<1>4. s \in Seq(AllSteps) /\ Len(s) = 2 /\ s[1] = Put("dbStaging", Hollow) /\ s[2] = Put("dbStaging", n)
  BY <1>2
<1>5. t \in Seq(AllSteps) /\ Len(t) = 8
  BY <1>2, <1>3
<1>6. /\ t[1] = Record(1, "prepared") /\ t[2] = Move("database", "dbDisplaced")
      /\ t[3] = Record(1, "displaced") /\ t[4] = Move("dbStaging", "database")
      /\ t[5] = Record(1, "activated") /\ t[6] = Invalidate /\ t[7] = Verify
      /\ t[8] = Record(1, "verified")
  OBVIOUS
<1> HIDE DEF s, t, L
<1>7. Joined(AllSteps, L, s, t, 2, 8)
  BY <1>1, <1>4, <1>5, Concat, Zenon
<1>8. L \in Seq(AllSteps) /\ L[1] = s[1] /\ L[2] = s[2] /\ Len(L) = 10
  BY <1>7 DEF Joined
<1>9. /\ L[3] = t[1] /\ L[4] = t[2] /\ L[5] = t[3] /\ L[6] = t[4]
      /\ L[7] = t[5] /\ L[8] = t[6] /\ L[9] = t[7] /\ L[10] = t[8]
  BY <1>7 DEF Joined
<1> QED
  BY <1>4, <1>6, <1>8, <1>9, Zenon DEF L

LEMMA StepsV2 ==
  ASSUME target.database \in Whole
  PROVE  LET L == RestoreSteps(2)
         IN  /\ L \in Seq(AllSteps) /\ Len(L) = 17
             /\ L[1] = Put("dbStaging", Hollow) /\ L[2] = Put("setStaging", Hollow)
             /\ L[3] = Put("dbStaging", target.database)
             /\ L[4] = Put("setStaging", target.database)
             /\ L[5] = Record(2, "verified") /\ L[6] = Move("database", "dbDisplaced")
             /\ L[7] = Record(2, "database-displaced")
             /\ L[8] = Move("settings", "setDisplaced")
             /\ L[9] = Record(2, "settings-displaced") /\ L[10] = Move("dbStaging", "database")
             /\ L[11] = Record(2, "database-activated")
             /\ L[12] = Move("setStaging", "settings") /\ L[13] = Discard({"setStaging"})
             /\ L[14] = Record(2, "settings-activated") /\ L[15] = Invalidate
             /\ L[16] = Verify /\ L[17] = Record(2, "runtime-healthy")
<1> DEFINE n == target.database
           L == RestoreSteps(2)
           s == <<Put("dbStaging", Hollow), Put("setStaging", Hollow),
                  Put("dbStaging", n), Put("setStaging", n)>>
           t == <<Record(2, "verified"), Move("database", "dbDisplaced"),
                  Record(2, "database-displaced"), Move("settings", "setDisplaced"),
                  Record(2, "settings-displaced"), Move("dbStaging", "database"),
                  Record(2, "database-activated"), Move("setStaging", "settings"),
                  Discard({"setStaging"}), Record(2, "settings-activated"),
                  Invalidate, Verify, Record(2, "runtime-healthy")>>
<1>1. L = s \o t
  BY DEF RestoreSteps, StageSteps, ActivateSteps
<1>2. /\ Put("dbStaging", Hollow) \in AllSteps /\ Put("dbStaging", n) \in AllSteps
      /\ Put("setStaging", Hollow) \in AllSteps /\ Put("setStaging", n) \in AllSteps
      /\ Move("database", "dbDisplaced") \in AllSteps /\ Move("dbStaging", "database") \in AllSteps
      /\ Move("settings", "setDisplaced") \in AllSteps /\ Move("setStaging", "settings") \in AllSteps
      /\ Invalidate \in AllSteps /\ Verify \in AllSteps /\ Discard({"setStaging"}) \in AllSteps
  BY StepKinds DEF Contents, Places, Directories, Databases
<1>3. /\ Record(2, "verified") \in AllSteps /\ Record(2, "database-displaced") \in AllSteps
      /\ Record(2, "settings-displaced") \in AllSteps
      /\ Record(2, "database-activated") \in AllSteps
      /\ Record(2, "settings-activated") \in AllSteps
      /\ Record(2, "runtime-healthy") \in AllSteps
  BY StepKinds DEF PhasesV2
<1>4. /\ s \in Seq(AllSteps) /\ Len(s) = 4
      /\ s[1] = Put("dbStaging", Hollow) /\ s[2] = Put("setStaging", Hollow)
      /\ s[3] = Put("dbStaging", n) /\ s[4] = Put("setStaging", n)
  BY <1>2
<1>5. t \in Seq(AllSteps) /\ Len(t) = 13
  BY <1>2, <1>3
<1>6. /\ t[1] = Record(2, "verified") /\ t[2] = Move("database", "dbDisplaced")
      /\ t[3] = Record(2, "database-displaced") /\ t[4] = Move("settings", "setDisplaced")
      /\ t[5] = Record(2, "settings-displaced") /\ t[6] = Move("dbStaging", "database")
      /\ t[7] = Record(2, "database-activated") /\ t[8] = Move("setStaging", "settings")
      /\ t[9] = Discard({"setStaging"}) /\ t[10] = Record(2, "settings-activated")
      /\ t[11] = Invalidate /\ t[12] = Verify /\ t[13] = Record(2, "runtime-healthy")
  OBVIOUS
<1> HIDE DEF s, t, L
<1>7. Joined(AllSteps, L, s, t, 4, 13)
  BY <1>1, <1>4, <1>5, Concat, Zenon
<1>8. /\ L \in Seq(AllSteps) /\ Len(L) = 17
      /\ L[1] = s[1] /\ L[2] = s[2] /\ L[3] = s[3] /\ L[4] = s[4]
  BY <1>7 DEF Joined
<1>9. /\ L[5] = t[1] /\ L[6] = t[2] /\ L[7] = t[3] /\ L[8] = t[4] /\ L[9] = t[5]
      /\ L[10] = t[6] /\ L[11] = t[7] /\ L[12] = t[8] /\ L[13] = t[9] /\ L[14] = t[10]
      /\ L[15] = t[11] /\ L[16] = t[12] /\ L[17] = t[13]
  BY <1>7 DEF Joined
<1> QED
  BY <1>4, <1>6, <1>8, <1>9, Zenon DEF L

KeyStep(o, r) == [op |-> o, key |-> r]

LEMMA KeySteps ==
  ASSUME NEW o \in {"readKey", "deleteKey", "writeKey"}
  PROVE  /\ ForKeys(o) \in Seq(AllSteps) /\ Len(ForKeys(o)) = 3
         /\ ForKeys(o)[1] = KeyStep(o, "secret") /\ ForKeys(o)[2] = KeyStep(o, "admin")
         /\ ForKeys(o)[3] = KeyStep(o, "account")
<1>1. Records[1] = "secret" /\ Records[2] = "admin" /\ Records[3] = "account"
  BY DEF Records
<1>2. \A r \in Keys : KeyStep(o, r) \in AllSteps
  BY StepKinds DEF KeyStep
<1>3. \A i \in 1 .. 3 : Records[i] \in Keys
  BY <1>1 DEF Keys
<1>4. ForKeys(o) = [i \in 1 .. 3 |-> KeyStep(o, Records[i])]
  BY DEF ForKeys, KeyStep
<1>5. ForKeys(o) \in [1 .. 3 -> AllSteps]
  BY <1>2, <1>3, <1>4
<1>6. ForKeys(o) \in Seq(AllSteps) /\ Len(ForKeys(o)) = 3
  BY <1>5, ThreeSeq
<1>7. \A i \in 1 .. 3 : ForKeys(o)[i] = KeyStep(o, Records[i])
  BY <1>4
<1> QED
  BY <1>1, <1>6, <1>7

LEMMA StepsOfReset ==
  LET L == ResetSteps
  IN  /\ L \in Seq(AllSteps) /\ Len(L) = 8
      /\ L[1] = BackUp /\ L[2] = MoveRoot
      /\ L[3] = KeyStep("readKey", "secret") /\ L[4] = KeyStep("readKey", "admin")
      /\ L[5] = KeyStep("readKey", "account")
      /\ L[6] = KeyStep("deleteKey", "secret") /\ L[7] = KeyStep("deleteKey", "admin")
      /\ L[8] = KeyStep("deleteKey", "account")
<1> DEFINE s == <<BackUp, MoveRoot>>  t == ForKeys("readKey")  u == ForKeys("deleteKey")
<1>1. /\ s \in Seq(AllSteps) /\ Len(s) = 2 /\ s[1] = BackUp /\ s[2] = MoveRoot
  BY StepKinds
<1>2. t \in Seq(AllSteps) /\ Len(t) = 3 /\ u \in Seq(AllSteps) /\ Len(u) = 3
  BY KeySteps
<1>3. /\ t[1] = KeyStep("readKey", "secret") /\ t[2] = KeyStep("readKey", "admin")
      /\ t[3] = KeyStep("readKey", "account")
      /\ u[1] = KeyStep("deleteKey", "secret") /\ u[2] = KeyStep("deleteKey", "admin")
      /\ u[3] = KeyStep("deleteKey", "account")
  BY KeySteps
<1>4. ResetSteps = (s \o t) \o u
  BY DEF ResetSteps
<1> DEFINE v == s \o t
           L == ResetSteps
<1> HIDE DEF s, t, u
<1>5. Joined(AllSteps, v, s, t, 2, 3)
  BY <1>1, <1>2, Concat, Zenon
<1> HIDE DEF v, L
<1>6. v \in Seq(AllSteps) /\ Len(v) = 5 /\ v[1] = s[1] /\ v[2] = s[2] /\ v[3] = t[1] /\ v[4] = t[2] /\ v[5] = t[3]
  BY <1>5 DEF Joined
<1>7. L = v \o u
  BY <1>4 DEF v, L
<1>8. Joined(AllSteps, L, v, u, 5, 3)
  BY <1>2, <1>6, <1>7, Concat, Zenon
<1>9. /\ L \in Seq(AllSteps) /\ Len(L) = 8 /\ L[1] = v[1] /\ L[2] = v[2] /\ L[3] = v[3] /\ L[4] = v[4] /\ L[5] = v[5]
      /\ L[6] = u[1] /\ L[7] = u[2] /\ L[8] = u[3]
  BY <1>8 DEF Joined
<1> QED
  BY <1>1, <1>3, <1>6, <1>9, Zenon DEF L

-----------------------------------------------------------------------------
(* The steps of a roll-back.                                               *)

LEMMA TailsOfTails ==
  /\ EndTails \subseteq Seq(AllSteps)
  /\ SetTails \subseteq Seq(AllSteps)
  /\ \A r \in Seq(AllSteps) :
       /\ SetBack(r) \in Seq(AllSteps) /\ SetBack(r) # <<>>
       /\ Head(SetBack(r)) = Move("setDisplaced", "settings") /\ Tail(SetBack(r)) = r
       /\ SetSwap(r) \in Seq(AllSteps) /\ SetSwap(r) # <<>>
       /\ Head(SetSwap(r)) = Discard({"settings"}) /\ Tail(SetSwap(r)) = SetBack(r)
       /\ DbBack(r) \in Seq(AllSteps) /\ DbBack(r) # <<>>
       /\ Head(DbBack(r)) = Move("dbDisplaced", "database") /\ Tail(DbBack(r)) = r
       /\ DbSwap(r) \in Seq(AllSteps) /\ DbSwap(r) # <<>>
       /\ Head(DbSwap(r)) = Discard({"database"}) /\ Tail(DbSwap(r)) = DbBack(r)
<1>1. /\ Move("setDisplaced", "settings") \in AllSteps /\ Discard({"settings"}) \in AllSteps
      /\ Move("dbDisplaced", "database") \in AllSteps /\ Discard({"database"}) \in AllSteps
      /\ Discard({"dbStaging"}) \in AllSteps /\ Discard({"setStaging"}) \in AllSteps
      /\ Forget \in AllSteps
  BY StepKinds DEF Places, Directories, Databases
<1>2. EndTails \subseteq Seq(AllSteps)
  BY <1>1 DEF EndTails
<1>3. \A r \in Seq(AllSteps) :
       /\ SetBack(r) \in Seq(AllSteps) /\ SetBack(r) # <<>>
       /\ Head(SetBack(r)) = Move("setDisplaced", "settings") /\ Tail(SetBack(r)) = r
       /\ DbBack(r) \in Seq(AllSteps) /\ DbBack(r) # <<>>
       /\ Head(DbBack(r)) = Move("dbDisplaced", "database") /\ Tail(DbBack(r)) = r
  BY <1>1, Cons, Zenon DEF SetBack, DbBack
<1>4. \A r \in Seq(AllSteps) :
       /\ SetSwap(r) \in Seq(AllSteps) /\ SetSwap(r) # <<>>
       /\ Head(SetSwap(r)) = Discard({"settings"}) /\ Tail(SetSwap(r)) = SetBack(r)
       /\ DbSwap(r) \in Seq(AllSteps) /\ DbSwap(r) # <<>>
       /\ Head(DbSwap(r)) = Discard({"database"}) /\ Tail(DbSwap(r)) = DbBack(r)
  <2>1. \A r \in Seq(AllSteps) : SetBack(r) \in Seq(AllSteps) /\ DbBack(r) \in Seq(AllSteps)
    BY <1>3, Zenon
  <2> QED
    BY <1>1, <2>1, Cons, Zenon DEF SetSwap, DbSwap
<1>5. SetTails \subseteq Seq(AllSteps)
  BY <1>2, <1>3, <1>4 DEF SetTails
<1> QED
  BY <1>2, <1>3, <1>4, <1>5, Zenon

LEMMA KnownTails ==
  /\ \A r : EndTail(r) => r \in EndTails
  /\ \A r : SetTail(r) => r \in SetTails
<1>1. \A r : EndTail(r) => r \in EndTails
  BY Zenon DEF EndTail, EndTails
<1>2. \A r : SetTail(r) => r \in SetTails
  BY <1>1, Zenon DEF SetTail, SetTails
<1> QED
  BY <1>1, <1>2

LEMMA Assoc ==
  \A s, t, u \in Seq(AllSteps) : (s \o t) \o u = s \o (t \o u)
<1>1. ASSUME NEW s \in Seq(AllSteps), NEW t \in Seq(AllSteps), NEW u \in Seq(AllSteps)
      PROVE  (s \o t) \o u = s \o (t \o u)
  BY ConcatAssociative
<1> QED
  BY <1>1, Zenon

LEMMA AssocFive ==
  \A b, a, x, y, f \in Seq(AllSteps) :
    b \o (a \o (x \o (y \o f))) = (((b \o a) \o x) \o y) \o f
<1> TAKE b, a, x, y, f \in Seq(AllSteps)
<1> DEFINE S == Seq(AllSteps)
           C(s, t) == s \o t
<1>0. \A s, t, u \in S : C(C(s, t), u) = C(s, C(t, u))
  BY Assoc, Zenon
<1>1. \A s, t \in S : C(s, t) \in S
  BY ConcatLen, Zenon
<1>2. b \in S /\ a \in S /\ x \in S /\ y \in S /\ f \in S
  OBVIOUS
<1> HIDE DEF S, C
<1>3. C(C(b, a), x) \in S /\ C(b, a) \in S /\ C(y, f) \in S /\ C(x, C(y, f)) \in S
  BY <1>1, <1>2
<1>4. C(C(C(C(b, a), x), y), f) = C(C(C(b, a), x), C(y, f))
  BY <1>0, <1>2, <1>3
<1>5. C(C(C(b, a), x), C(y, f)) = C(C(b, a), C(x, C(y, f)))
  BY <1>0, <1>2, <1>3
<1>6. C(C(b, a), C(x, C(y, f))) = C(b, C(a, C(x, C(y, f))))
  BY <1>0, <1>2, <1>3
<1>7. C(b, C(a, C(x, C(y, f)))) = C(C(C(C(b, a), x), y), f)
  BY <1>4, <1>5, <1>6, Zenon
<1> QED
  BY <1>7, Zenon DEF C

DbUndo == IF Exists("dbDisplaced")
          THEN When(Exists("database"), Discard({"database"}))
               \o <<Move("dbDisplaced", "database")>>
          ELSE <<>>
SetUndo == IF Exists("setDisplaced")
           THEN When(Exists("settings"), Discard({"settings"}))
                \o <<Move("setDisplaced", "settings")>>
           ELSE <<>>

LEMMA Unstage ==
  LET e == When(Exists("dbStaging"), Discard({"dbStaging"}))
           \o (When(Exists("setStaging"), Discard({"setStaging"})) \o <<Forget>>)
  IN  EndTail(e)
<1> DEFINE x == When(Exists("dbStaging"), Discard({"dbStaging"}))
           y == When(Exists("setStaging"), Discard({"setStaging"}))
<1>1. /\ Discard({"dbStaging"}) \in AllSteps /\ Discard({"setStaging"}) \in AllSteps
      /\ Forget \in AllSteps
  BY StepKinds DEF Places, Directories, Databases
<1>2. <<Forget>> \in Seq(AllSteps) /\ <<Discard({"setStaging"}), Forget>> \in Seq(AllSteps)
  BY <1>1
<1>3. y \o <<Forget>> = IF Exists("setStaging") THEN <<Discard({"setStaging"}), Forget>>
                        ELSE <<Forget>>
  BY <1>1, <1>2, PairConcat, ConcatEmptySeq, Zenon DEF When
<1>4. CASE Exists("setStaging")
  <2>1. x \o <<Discard({"setStaging"}), Forget>> =
          IF Exists("dbStaging")
          THEN <<Discard({"dbStaging"}), Discard({"setStaging"}), Forget>>
          ELSE <<Discard({"setStaging"}), Forget>>
    BY <1>1, <1>2, TripleConcat, ConcatEmptySeq, Zenon DEF When
  <2> QED
    BY <1>3, <1>4, <2>1, Zenon DEF EndTail, Absent, Exists
<1>5. CASE ~Exists("setStaging")
  <2>1. x \o <<Forget>> = IF Exists("dbStaging") THEN <<Discard({"dbStaging"}), Forget>>
                          ELSE <<Forget>>
    BY <1>1, <1>2, PairConcat, ConcatEmptySeq, Zenon DEF When
  <2> QED
    BY <1>3, <1>5, <2>1, Zenon DEF EndTail, Absent, Exists
<1> QED
  BY <1>4, <1>5

LEMMA SetUndoTail ==
  ASSUME NEW e, EndTail(e), ~(Absent("settings") /\ Absent("setDisplaced"))
  PROVE  SetUndo \in Seq(AllSteps) /\ SetTail(SetUndo \o e)
<1>1. e \in EndTails /\ e \in Seq(AllSteps)
  BY KnownTails, TailsOfTails
<1>2. Discard({"settings"}) \in AllSteps /\ Move("setDisplaced", "settings") \in AllSteps
  BY StepKinds DEF Places, Directories, Databases
<1>3. /\ <<Discard({"settings"})>> \in Seq(AllSteps)
      /\ <<Move("setDisplaced", "settings")>> \in Seq(AllSteps)
      /\ <<>> \in Seq(AllSteps)
  BY <1>2
<1>4. CASE ~Exists("setDisplaced")
  <2>1. SetUndo = <<>>
    BY <1>4 DEF SetUndo
  <2>2. SetUndo \o e = e
    BY <1>1, <2>1, ConcatEmptySeq, Zenon
  <2> QED
    BY <1>3, <1>4, <2>1, <2>2 DEF SetTail, Absent, Exists
<1>5. CASE Exists("setDisplaced") /\ Exists("settings")
  <2>1. SetUndo = <<Discard({"settings"})>> \o <<Move("setDisplaced", "settings")>>
    BY <1>5 DEF SetUndo, When
  <2>2. SetUndo \o e = SetSwap(e)
    <3>1. (<<Discard({"settings"})>> \o <<Move("setDisplaced", "settings")>>) \o e
          = <<Discard({"settings"})>> \o (<<Move("setDisplaced", "settings")>> \o e)
      BY <1>1, <1>3, Assoc, Zenon
    <3> QED
      BY <2>1, <3>1, Zenon DEF SetSwap, SetBack
  <2>3. SetUndo \in Seq(AllSteps)
    BY <1>3, <2>1, ConcatLen, Zenon
  <2> QED
    BY <1>1, <1>5, <2>2, <2>3, Zenon DEF SetTail, Absent, Exists
<1>6. CASE Exists("setDisplaced") /\ ~Exists("settings")
  <2>1. SetUndo = <<>> \o <<Move("setDisplaced", "settings")>>
    BY <1>6 DEF SetUndo, When
  <2>2. SetUndo = <<Move("setDisplaced", "settings")>>
    BY <1>3, <2>1, ConcatEmptySeq, Zenon
  <2>3. SetUndo \o e = SetBack(e)
    BY <2>2, Zenon DEF SetBack
  <2> QED
    BY <1>1, <1>3, <1>6, <2>2, <2>3, Zenon DEF SetTail, Absent, Exists
<1> QED
  BY <1>4, <1>5, <1>6

LEMMA DbUndoTail ==
  ASSUME NEW r, SetTail(r), ~(Absent("database") /\ Absent("dbDisplaced"))
  PROVE  DbUndo \in Seq(AllSteps) /\ UndoTail(DbUndo \o r)
<1>1. r \in SetTails /\ r \in Seq(AllSteps)
  BY KnownTails, TailsOfTails
<1>2. Discard({"database"}) \in AllSteps /\ Move("dbDisplaced", "database") \in AllSteps
  BY StepKinds DEF Places, Directories, Databases
<1>3. /\ <<Discard({"database"})>> \in Seq(AllSteps)
      /\ <<Move("dbDisplaced", "database")>> \in Seq(AllSteps)
      /\ <<>> \in Seq(AllSteps)
  BY <1>2
<1>4. CASE ~Exists("dbDisplaced")
  <2>1. DbUndo = <<>>
    BY <1>4 DEF DbUndo
  <2>2. DbUndo \o r = r
    BY <1>1, <2>1, ConcatEmptySeq, Zenon
  <2> QED
    BY <1>3, <1>4, <2>1, <2>2 DEF UndoTail, Absent, Exists
<1>5. CASE Exists("dbDisplaced") /\ Exists("database")
  <2>1. DbUndo = <<Discard({"database"})>> \o <<Move("dbDisplaced", "database")>>
    BY <1>5 DEF DbUndo, When
  <2>2. DbUndo \o r = DbSwap(r)
    <3>1. (<<Discard({"database"})>> \o <<Move("dbDisplaced", "database")>>) \o r
          = <<Discard({"database"})>> \o (<<Move("dbDisplaced", "database")>> \o r)
      BY <1>1, <1>3, Assoc, Zenon
    <3> QED
      BY <2>1, <3>1, Zenon DEF DbSwap, DbBack
  <2>3. DbUndo \in Seq(AllSteps)
    BY <1>3, <2>1, ConcatLen, Zenon
  <2> QED
    BY <1>1, <1>5, <2>2, <2>3, Zenon DEF UndoTail, Absent, Exists
<1>6. CASE Exists("dbDisplaced") /\ ~Exists("database")
  <2>1. DbUndo = <<>> \o <<Move("dbDisplaced", "database")>>
    BY <1>6 DEF DbUndo, When
  <2>2. DbUndo = <<Move("dbDisplaced", "database")>>
    BY <1>3, <2>1, ConcatEmptySeq, Zenon
  <2>3. DbUndo \o r = DbBack(r)
    BY <2>2, Zenon DEF DbBack
  <2> QED
    BY <1>1, <1>3, <1>6, <2>2, <2>3, Zenon DEF UndoTail, Absent, Exists
<1> QED
  BY <1>4, <1>5, <1>6

\* The roll-back of a version 2 restore, and of a version 1 restore.
LEMMA UndoV2Shape ==
  ASSUME ~(Absent("settings") /\ Absent("setDisplaced")),
         ~(Absent("database") /\ Absent("dbDisplaced"))
  PROVE  UndoTail(UndoV2Steps)
<1> DEFINE x == When(Exists("dbStaging"), Discard({"dbStaging"}))
           y == When(Exists("setStaging"), Discard({"setStaging"}))
           e == x \o (y \o <<Forget>>)
<1>1. EndTail(e)
  BY Unstage
<1>2. /\ Discard({"dbStaging"}) \in AllSteps /\ Discard({"setStaging"}) \in AllSteps
      /\ Forget \in AllSteps
  BY StepKinds DEF Places, Directories, Databases
<1>3. x \in Seq(AllSteps) /\ y \in Seq(AllSteps) /\ <<Forget>> \in Seq(AllSteps)
  BY <1>2 DEF When
<1>4. SetUndo \in Seq(AllSteps) /\ SetTail(SetUndo \o e)
  BY <1>1, SetUndoTail
<1>5. DbUndo \in Seq(AllSteps) /\ UndoTail(DbUndo \o (SetUndo \o e))
  BY <1>4, DbUndoTail
<1>6. UndoV2Steps = (((DbUndo \o SetUndo) \o x) \o y) \o <<Forget>>
  BY DEF UndoV2Steps, DbUndo, SetUndo
<1> DEFINE f == <<Forget>>  a == SetUndo  b == DbUndo  S == Seq(AllSteps)
<1>7. UndoV2Steps = (((b \o a) \o x) \o y) \o f
  BY <1>6
<1>8. /\ x \in Seq(AllSteps) /\ y \in Seq(AllSteps) /\ f \in Seq(AllSteps)
      /\ a \in Seq(AllSteps) /\ b \in Seq(AllSteps)
  BY <1>3, <1>4, <1>5
<1> HIDE DEF x, y, f, a, b
<1> DEFINE C(s, t) == s \o t
<1>0. \A k, l, u, v, w \in S : C(k, C(l, C(u, C(v, w)))) = C(C(C(C(k, l), u), v), w)
  BY AssocFive, Zenon
<1> HIDE DEF S, C
<1>10. C(b, C(a, C(x, C(y, f)))) = C(C(C(C(b, a), x), y), f)
  BY <1>8, <1>0 DEF S
<1>9. b \o (a \o (x \o (y \o f))) = (((b \o a) \o x) \o y) \o f
  BY <1>10, Zenon DEF C
<1> QED
  BY <1>5, <1>7, <1>9, Zenon DEF a, b, f

LEMMA CleanUpShape ==
  ASSUME Absent("setStaging")
  PROVE  EndTail(CleanUpSteps)
<1>1. Discard({"dbStaging"}) \in AllSteps /\ Forget \in AllSteps
  BY StepKinds DEF Places, Directories, Databases
<1>2. <<Forget>> \in Seq(AllSteps)
  BY <1>1
<1>3. CleanUpSteps = IF Exists("dbStaging") THEN <<Discard({"dbStaging"}), Forget>>
                     ELSE <<Forget>>
  <2>1. CASE Exists("dbStaging")
    <3>1. CleanUpSteps = <<Discard({"dbStaging"})>> \o <<Forget>>
      BY <2>1 DEF CleanUpSteps, When
    <3> QED
      BY <1>1, <2>1, <3>1, PairConcat, Zenon
  <2>2. CASE ~Exists("dbStaging")
    <3>1. CleanUpSteps = <<>> \o <<Forget>>
      BY <2>2 DEF CleanUpSteps, When
    <3> QED
      BY <1>2, <2>2, <3>1, ConcatEmptySeq, Zenon
  <2> QED
    BY <2>1, <2>2
<1> QED
  BY <1>3, Zenon DEF EndTail, Absent, Exists

LEMMA UndoV1Shape ==
  ASSUME Absent("setStaging"), Absent("setDisplaced"), ~Absent("settings"),
         ~(Absent("database") /\ Absent("dbDisplaced"))
  PROVE  UndoTail(UndoV1Steps)
<1>1. SetTail(CleanUpSteps)
  BY CleanUpShape DEF SetTail
<1>2. UndoTail(DbUndo \o CleanUpSteps)
  BY <1>1, DbUndoTail
<1> QED
  BY <1>2 DEF UndoV1Steps, DbUndo

-----------------------------------------------------------------------------
(* What a step does, by what it is.                                        *)

LEMMA RoutineKeeps ==
  ASSUME Step
  PROVE  InRoutine /\ todo # <<>>
BY DEF Step, PutStep, MoveStep, RemoveStep, RemovedStep, RecordStep, ForgetStep,
       InvalidateStep, VerifyStep, Doing

LEMMA PutEffect ==
  ASSUME Step, NEW p, NEW c, Head(todo) = Put(p, c)
  PROVE  files' = [files EXCEPT ![p] = c] /\ checkpoint' = checkpoint /\ todo' = Tail(todo)
BY DEF Step, PutStep, MoveStep, RemoveStep, RemovedStep, RecordStep, ForgetStep,
       InvalidateStep, VerifyStep, Doing, StepDone, Put

LEMMA MoveEffect ==
  ASSUME Step, NEW p, NEW q, Head(todo) = Move(p, q)
  PROVE  /\ files' = [files EXCEPT ![q] = files[p], ![p] = LeftBehind(p)]
         /\ checkpoint' = checkpoint /\ todo' = Tail(todo)
BY DEF Step, PutStep, MoveStep, RemoveStep, RemovedStep, RecordStep, ForgetStep,
       InvalidateStep, VerifyStep, Doing, StepDone, Move

\* One piece of one place goes, or all of the places are gone.
Lessens(ps) ==
  \/ /\ \E p \in ps : ~Absent(p) /\ files' = [files EXCEPT ![p] = Shrunk(p)]
     /\ todo' = todo
  \/ /\ \A p \in ps : Absent(p)
     /\ files' = files /\ todo' = Tail(todo)

LEMMA DiscardEffect ==
  ASSUME Step, NEW ps, Head(todo) = Discard(ps)
  PROVE  checkpoint' = checkpoint /\ Lessens(ps)
<1>1. Head(todo).op = "discard" /\ Head(todo).places = ps
  BY DEF Discard
<1>2. RemoveStep \/ RemovedStep
  BY <1>1 DEF Step, PutStep, MoveStep, RecordStep, ForgetStep, InvalidateStep, VerifyStep, Doing
<1> QED
  BY <1>1, <1>2 DEF RemoveStep, RemovedStep, StepDone, SameDisk, Lessens, Absent, Exists

LEMMA RecordEffect ==
  ASSUME Step, NEW v, NEW f, Head(todo) = Record(v, f)
  PROVE  files' = files /\ checkpoint' = [version |-> v, phase |-> f] /\ todo' = Tail(todo)
BY DEF Step, PutStep, MoveStep, RemoveStep, RemovedStep, RecordStep, ForgetStep,
       InvalidateStep, VerifyStep, Doing, StepDone, Record

LEMMA ForgetEffect ==
  ASSUME Step, Head(todo) = Forget
  PROVE  files' = files /\ checkpoint' = NoCheckpoint /\ todo' = Tail(todo)
BY DEF Step, PutStep, MoveStep, RemoveStep, RemovedStep, RecordStep, ForgetStep,
       InvalidateStep, VerifyStep, Doing, StepDone, Forget

LEMMA MarkerEffect ==
  ASSUME Step, Head(todo) \in {Invalidate, Verify}
  PROVE  files' = files /\ checkpoint' = checkpoint /\ todo' = Tail(todo)
BY DEF Step, PutStep, MoveStep, RemoveStep, RemovedStep, RecordStep, ForgetStep,
       InvalidateStep, VerifyStep, Doing, StepDone, Invalidate, Verify

\* The steps of a reset are none of these.
LEMMA StepOps ==
  ASSUME Step
  PROVE  Head(todo).op \notin {"backUp", "moveRoot", "returnRoot", "readKey", "deleteKey", "writeKey"}
BY DEF Step, PutStep, MoveStep, RemoveStep, RemovedStep, RecordStep, ForgetStep,
       InvalidateStep, VerifyStep, Doing

-----------------------------------------------------------------------------
(* What keeps the root as the checkpoint says.                             *)

Elsewhere(f, g, P) == \A q \in Places \ P : g[q] = f[q]

LEMMA RootPlaces ==
  /\ {"database", "settings", "dbDisplaced", "setDisplaced", "dbStaging", "setStaging", "orphan"} = Places
  /\ {Missing, Hollow, Fresh, Default} \subseteq Contents
BY DEF Places, Directories, Databases, Contents

\* A staged copy may be there or not.
LEMMA StagedGoes ==
  ASSUME NEW f, NEW c, NEW a, NEW g \in [Places -> Contents], RootInv(f, c, a),
         Elsewhere(f, g, {"dbStaging", "setStaging", "orphan"}),
         f["setStaging"] = Missing => g["setStaging"] = Missing
  PROVE  RootInv(g, c, a)
<1>1. /\ g["database"] = f["database"] /\ g["settings"] = f["settings"]
      /\ g["dbDisplaced"] = f["dbDisplaced"] /\ g["setDisplaced"] = f["setDisplaced"]
  BY RootPlaces DEF Elsewhere
<1>2. RootTyped(g, c, a)
  BY DEF RootInv, RootTyped
<1>3. Undisturbed(g, c)
  BY <1>1 DEF RootInv, Undisturbed
<1>4. ~a => Recoverable(g, c)
  BY <1>1 DEF RootInv, Recoverable, OwnerHeld
<1> QED
  BY <1>2, <1>3, <1>4 DEF RootInv

\* The database may go while the prior one is displaced.
LEMMA DatabaseGoes ==
  ASSUME NEW f, NEW c, NEW a, NEW g \in [Places -> Contents], RootInv(f, c, a),
         Elsewhere(f, g, {"database"}), g["database"] \in {Missing, Hollow},
         f["dbDisplaced"] # Missing, c # NoCheckpoint
  PROVE  RootInv(g, c, a)
<1>1. /\ g["settings"] = f["settings"] /\ g["setStaging"] = f["setStaging"]
      /\ g["dbDisplaced"] = f["dbDisplaced"] /\ g["setDisplaced"] = f["setDisplaced"]
  BY RootPlaces DEF Elsewhere
<1>2. RootTyped(g, c, a)
  BY DEF RootInv, RootTyped
<1>3. Undisturbed(g, c)
  BY <1>1 DEF RootInv, Undisturbed
<1>4. ~a => Recoverable(g, c)
  BY <1>1 DEF RootInv, Recoverable, OwnerHeld
<1> QED
  BY <1>2, <1>3, <1>4 DEF RootInv

\* The settings may go while the prior ones are displaced, once the database
\* is back.
LEMMA SettingsGo ==
  ASSUME NEW f, NEW c, NEW a, NEW g \in [Places -> Contents], RootInv(f, c, a),
         Elsewhere(f, g, {"settings"}), g["settings"] = Missing,
         f["setDisplaced"] # Missing, f["dbDisplaced"] = Missing, c # NoCheckpoint
  PROVE  RootInv(g, c, a)
<1>1. /\ g["database"] = f["database"] /\ g["setStaging"] = f["setStaging"]
      /\ g["dbDisplaced"] = f["dbDisplaced"] /\ g["setDisplaced"] = f["setDisplaced"]
  BY RootPlaces DEF Elsewhere
<1>2. RootTyped(g, c, a)
  BY DEF RootInv, RootTyped
<1>3. Undisturbed(g, c)
  BY <1>1 DEF RootInv, Undisturbed
<1>4. ~a => Recoverable(g, c)
  BY <1>1 DEF RootInv, Recoverable, OwnerHeld
<1> QED
  BY <1>2, <1>3, <1>4 DEF RootInv

\* A displaced owner comes back.
LEMMA DatabaseReturns ==
  ASSUME NEW f, NEW c, NEW a, NEW g \in [Places -> Contents], RootInv(f, c, a),
         Elsewhere(f, g, {"database", "dbDisplaced"}),
         g["database"] = f["dbDisplaced"], g["dbDisplaced"] = Missing,
         f["dbDisplaced"] # Missing, c # NoCheckpoint
  PROVE  RootInv(g, c, a)
<1>1. /\ g["settings"] = f["settings"] /\ g["setStaging"] = f["setStaging"]
      /\ g["setDisplaced"] = f["setDisplaced"]
  BY RootPlaces DEF Elsewhere
<1>2. RootTyped(g, c, a)
  BY DEF RootInv, RootTyped
<1>3. Undisturbed(g, c)
  BY <1>1 DEF RootInv, Undisturbed
<1>4. ~a => Recoverable(g, c)
  BY <1>1 DEF RootInv, Recoverable, OwnerHeld
<1> QED
  BY <1>2, <1>3, <1>4 DEF RootInv

LEMMA SettingsReturn ==
  ASSUME NEW f, NEW c, NEW a, NEW g \in [Places -> Contents], RootInv(f, c, a),
         Elsewhere(f, g, {"settings", "setDisplaced"}),
         g["settings"] = f["setDisplaced"], g["setDisplaced"] = Missing,
         f["setDisplaced"] # Missing, f["dbDisplaced"] = Missing, c # NoCheckpoint
  PROVE  RootInv(g, c, a)
<1>1. /\ g["database"] = f["database"] /\ g["setStaging"] = f["setStaging"]
      /\ g["dbDisplaced"] = f["dbDisplaced"]
  BY RootPlaces DEF Elsewhere
<1>2. RootTyped(g, c, a)
  BY DEF RootInv, RootTyped
<1>3. Undisturbed(g, c)
  BY <1>1 DEF RootInv, Undisturbed
<1>4. ~a => Recoverable(g, c)
  BY <1>1 DEF RootInv, Recoverable, OwnerHeld
<1> QED
  BY <1>2, <1>3, <1>4 DEF RootInv

\* The checkpoint goes when both owners are there and nothing is displaced.
LEMMA CheckpointGoes ==
  ASSUME NEW f, NEW c, NEW a, RootInv(f, c, a), c # NoCheckpoint,
         f["dbDisplaced"] = Missing, f["setDisplaced"] = Missing,
         f["database"] # Missing, f["settings"] # Missing,
         prior.database # Missing, prior.settings # Missing
  PROVE  RootInv(f, NoCheckpoint, a)
<1>1. RootTyped(f, NoCheckpoint, a)
  BY DEF RootInv, RootTyped, Checkpoints
<1>2. Undisturbed(f, NoCheckpoint)
  BY DEF Undisturbed, NoCheckpoint
<1>3. NoCheckpoint.version = 0 /\ NoCheckpoint.phase = "none" /\ ~Whether(NoCheckpoint)
  <2>1. NoCheckpoint.version = 0 /\ NoCheckpoint.phase = "none"
    BY DEF NoCheckpoint
  <2>2. ~Whether(NoCheckpoint)
    BY <2>1 DEF Whether
  <2> QED
    BY <2>1, <2>2
<1>4. ~a => Recoverable(f, NoCheckpoint)
  <2> SUFFICES ASSUME ~a PROVE Recoverable(f, NoCheckpoint)
    OBVIOUS
  <2>1. f["database"] = prior.database /\ f["settings"] = prior.settings
    BY DEF RootInv, Recoverable, OwnerHeld
  <2> QED
    BY <1>3, <2>1 DEF Recoverable
<1> QED
  BY <1>1, <1>2, <1>4 DEF RootInv

\* Once an outcome is accepted, what is not in its place may go.
LEMMA AcceptedGoes ==
  ASSUME NEW f, NEW c, NEW g \in [Places -> Contents], RootInv(f, c, TRUE), c # NoCheckpoint,
         Elsewhere(f, g, FinishPlaces),
         \A p \in FinishPlaces : f[p] = Missing => g[p] = Missing
  PROVE  RootInv(g, c, TRUE)
<1>1. g["database"] = f["database"] /\ g["settings"] = f["settings"]
  BY RootPlaces DEF Elsewhere, FinishPlaces
<1>2. RootTyped(g, c, TRUE)
  BY DEF RootInv, RootTyped
<1>3. Undisturbed(g, c)
  BY <1>1 DEF RootInv, Undisturbed, FinishPlaces
<1> QED
  BY <1>2, <1>3 DEF RootInv

\* And a version 2 restore is finalized.
LEMMA AcceptedRecorded ==
  ASSUME NEW f, NEW c, RootInv(f, c, TRUE)
  PROVE  RootInv(f, [version |-> 2, phase |-> "finalized"], TRUE)
<1>1. RootTyped(f, [version |-> 2, phase |-> "finalized"], TRUE)
  BY DEF RootInv, RootTyped, Checkpoints, PhasesV2
<1>2. Undisturbed(f, [version |-> 2, phase |-> "finalized"])
  BY DEF Undisturbed, NoCheckpoint
<1> QED
  BY <1>1, <1>2 DEF RootInv

LEMMA ShrunkPlace ==
  ASSUME NEW p \in Places, files \in [Places -> Contents], ~Absent(p),
         files' = [files EXCEPT ![p] = Shrunk(p)]
  PROVE  /\ files' \in [Places -> Contents] /\ Elsewhere(files, files', {p})
         /\ files'[p] \in {Missing, Hollow}
         /\ p \notin Directories => files'[p] = Missing
<1>1. Shrunk(p) \in {Missing, Hollow} /\ (p \notin Directories => Shrunk(p) = Missing)
  BY DEF Shrunk
<1> QED
  BY <1>1, RootPlaces DEF Elsewhere
-----------------------------------------------------------------------------
(* The routines of recovery, roll-back and finalization keep what they     *)
(* say.                                                                    *)

RootNow == RootInv(files, checkpoint, accepted)

LEMMA SameRoot ==
  ASSUME UNCHANGED <<prior, target>>, accepted' = accepted,
         RootInv(files', checkpoint', accepted)
  PROVE  RootNow'
<1>1. RootTyped(files, checkpoint, accepted)'
  BY DEF RootInv, RootTyped
<1>2. Undisturbed(files, checkpoint)'
  BY DEF RootInv, Undisturbed
<1>3. accepted \/ Recoverable(files, checkpoint)'
  BY DEF RootInv, Recoverable, OwnerHeld, Whether
<1> QED
  BY <1>1, <1>2, <1>3 DEF RootInv, RootNow

LEMMA RoutineKeepsRoot ==
  ASSUME Step, RootInv(files', checkpoint', accepted)
  PROVE  RootNow'
<1>1. UNCHANGED <<prior, target>> /\ accepted' = accepted
  BY RoutineKeeps DEF InRoutine, SameRestore, SameRun
<1> QED
  BY <1>1, SameRoot

LEMMA Short ==
  \A a, b, c \in AllSteps :
    /\ Head(<<a>>) = a /\ Tail(<<a>>) = <<>>
    /\ Head(<<a, b>>) = a /\ Tail(<<a, b>>) = <<b>>
    /\ Head(<<a, b, c>>) = a /\ Tail(<<a, b, c>>) = <<b, c>>
OBVIOUS

LEMMA ShortSteps ==
  /\ Forget \in AllSteps
  /\ \A ps \in SUBSET Places : Discard(ps) \in AllSteps
  /\ {"dbStaging"} \in SUBSET Places /\ {"setStaging"} \in SUBSET Places
  /\ {"dbDisplaced"} \in SUBSET Places /\ FinishPlaces \in SUBSET Places
  /\ {"database"} \in SUBSET Places /\ {"settings"} \in SUBSET Places
  /\ {"dbStaging", "setStaging", "orphan"} \in SUBSET Places
  /\ {"dbStaging", "setStaging"} \in SUBSET Places
  /\ Record(2, "finalized") \in AllSteps
<1>1. Forget \in AllSteps /\ (\A ps \in SUBSET Places : Discard(ps) \in AllSteps)
      /\ Record(2, "finalized") \in AllSteps
  BY StepKinds DEF PhasesV2
<1> QED
  BY <1>1, RootPlaces DEF FinishPlaces

\* Staged copies shrink, and nothing else happens.
LEMMA StagedStep ==
  ASSUME WellTyped, RootNow, Step, NEW ps \in SUBSET {"dbStaging", "setStaging", "orphan"},
         Head(todo) = Discard(ps)
  PROVE  /\ RootNow' /\ checkpoint' = checkpoint
         /\ Elsewhere(files, files', ps)
         /\ \A p \in ps : Absent(p) => Absent(p)'
         /\ todo' = todo \/ (todo' = Tail(todo) /\ (\A p \in ps : Absent(p)'))
<1>1. checkpoint' = checkpoint /\ Lessens(ps)
  BY DiscardEffect
<1>2. CASE files' = files
  <2>1. RootNow'
    BY <1>1, <1>2, RoutineKeepsRoot DEF RootNow
  <2> QED
    BY <1>1, <1>2, <2>1 DEF Lessens, Elsewhere, Absent
<1>3. ASSUME NEW p \in ps, ~Absent(p), files' = [files EXCEPT ![p] = Shrunk(p)], todo' = todo
      PROVE  /\ RootNow' /\ Elsewhere(files, files', ps)
             /\ \A q \in ps : Absent(q) => Absent(q)'
  <2>1. p \in Places /\ files \in [Places -> Contents]
    BY ShortSteps DEF WellTyped, RootTyped
  <2>2. files' \in [Places -> Contents] /\ Elsewhere(files, files', {p})
    BY <1>3, <2>1, ShrunkPlace
  <2>3. \A q \in Places \ {p} : files'[q] = files[q]
    BY <2>2 DEF Elsewhere
  <2>4. Elsewhere(files, files', ps) /\ Elsewhere(files, files', {"dbStaging", "setStaging", "orphan"})
    BY <2>3 DEF Elsewhere
  <2>5. \A q \in ps : Absent(q) => Absent(q)'
    BY <1>3, <2>3, RootPlaces DEF Absent
  <2>6. files["setStaging"] = Missing => files'["setStaging"] = Missing
    BY <1>3, <2>3, RootPlaces DEF Absent
  <2>7. RootInv(files', checkpoint', accepted)
    BY <1>1, <2>2, <2>4, <2>6, StagedGoes DEF RootNow
  <2> QED
    BY <2>4, <2>5, <2>7, RoutineKeepsRoot
<1>4. CASE ~(\A p \in ps : Absent(p))
  BY <1>1, <1>3, <1>4 DEF Lessens
<1> QED
  BY <1>1, <1>2, <1>3, <1>4 DEF Lessens

Untouched == Absent("dbDisplaced") /\ ~Absent("database") /\ Absent("setDisplaced") /\ ~Absent("settings")

LEMMA EndTailStep ==
  ASSUME WellTyped, RootNow, Journal, Untouched, EndTail(todo), Step
  PROVE  /\ RootNow'
         /\ \/ (Journal /\ Untouched)' /\ EndTail(todo)'
            \/ todo' = <<>> /\ SettledDisk'
<1> DEFINE x == Discard({"dbStaging"})  y == Discard({"setStaging"})
<1>1. x \in AllSteps /\ y \in AllSteps /\ Forget \in AllSteps
  BY ShortSteps
<1>2. CASE todo = <<Forget>> /\ Absent("dbStaging") /\ Absent("setStaging")
  <2>1. files' = files /\ checkpoint' = NoCheckpoint /\ todo' = <<>>
    BY <1>1, <1>2, Short, ForgetEffect
  <2>2. RootInv(files', checkpoint', accepted)
    BY <2>1, CheckpointGoes DEF RootNow, Journal, Untouched, Absent, WellTyped
  <2>3. SettledDisk'
    BY <1>2, <2>1 DEF SettledDisk, Standing, Absent, Untouched, NoCheckpoint
  <2> QED
    BY <2>1, <2>2, <2>3, RoutineKeepsRoot
<1>3. ASSUME NEW ps \in SUBSET {"dbStaging", "setStaging", "orphan"}, Head(todo) = Discard(ps)
      PROVE  /\ RootNow' /\ (Journal /\ Untouched)'
             /\ Elsewhere(files, files', ps)
             /\ \A p \in ps : Absent(p) => Absent(p)'
             /\ todo' = todo \/ (todo' = Tail(todo) /\ (\A p \in ps : Absent(p)'))
  <2>1. /\ RootNow' /\ checkpoint' = checkpoint
        /\ Elsewhere(files, files', ps)
        /\ \A p \in ps : Absent(p) => Absent(p)'
        /\ todo' = todo \/ (todo' = Tail(todo) /\ (\A p \in ps : Absent(p)'))
    BY <1>3, StagedStep
  <2>2. (Journal /\ Untouched)'
    BY <2>1, RootPlaces DEF Journal, Untouched, Absent, Elsewhere
  <2> QED
    BY <2>1, <2>2
<1>4. CASE todo = <<x, Forget>> /\ Absent("setStaging")
  <2>1. Head(todo) = x /\ Tail(todo) = <<Forget>>
    BY <1>1, <1>4, Short
  <2>2. /\ RootNow' /\ (Journal /\ Untouched)' /\ Elsewhere(files, files', {"dbStaging"})
        /\ todo' = todo \/ (todo' = <<Forget>> /\ Absent("dbStaging")')
    BY <1>3, <2>1
  <2>3. Absent("setStaging")'
    BY <1>4, <2>2, RootPlaces DEF Elsewhere, Absent
  <2>4. EndTail(todo)'
    BY <1>4, <2>2, <2>3 DEF EndTail
  <2> QED
    BY <2>2, <2>4
<1>5. CASE todo = <<y, Forget>> /\ Absent("dbStaging")
  <2>1. Head(todo) = y /\ Tail(todo) = <<Forget>>
    BY <1>1, <1>5, Short
  <2>2. /\ RootNow' /\ (Journal /\ Untouched)' /\ Elsewhere(files, files', {"setStaging"})
        /\ todo' = todo \/ (todo' = <<Forget>> /\ Absent("setStaging")')
    BY <1>3, <2>1
  <2>3. Absent("dbStaging")'
    BY <1>5, <2>2, RootPlaces DEF Elsewhere, Absent
  <2>4. EndTail(todo)'
    BY <1>5, <2>2, <2>3 DEF EndTail
  <2> QED
    BY <2>2, <2>4
<1>6. CASE todo = <<x, y, Forget>>
  <2>1. Head(todo) = x /\ Tail(todo) = <<y, Forget>>
    BY <1>1, <1>6, Short
  <2>2. /\ RootNow' /\ (Journal /\ Untouched)'
        /\ todo' = todo \/ (todo' = <<y, Forget>> /\ Absent("dbStaging")')
    BY <1>3, <2>1
  <2>3. EndTail(todo)'
    BY <1>6, <2>2 DEF EndTail
  <2> QED
    BY <2>2, <2>3
<1> QED
  BY <1>2, <1>4, <1>5, <1>6 DEF EndTail
\* The prior settings come back.
LEMMA SetTailStep ==
  ASSUME WellTyped, RootNow, Journal, Absent("dbDisplaced"), ~Absent("database"), SetTail(todo), Step
  PROVE  /\ RootNow'
         /\ \/ (Journal /\ Absent("dbDisplaced") /\ ~Absent("database"))' /\ SetTail(todo)'
            \/ todo' = <<>> /\ SettledDisk'
<1>1. CASE Absent("setDisplaced") /\ ~Absent("settings") /\ EndTail(todo)
  <2>1. /\ RootNow'
        /\ \/ (Journal /\ Untouched)' /\ EndTail(todo)'
           \/ todo' = <<>> /\ SettledDisk'
    BY <1>1, EndTailStep DEF Untouched
  <2> QED
    BY <2>1 DEF Untouched, SetTail
<1>2. ASSUME NEW q \in EndTails, ~Absent("setDisplaced"), EndTail(q), todo = SetBack(q)
      PROVE  /\ RootNow'
             /\ (Journal /\ Absent("dbDisplaced") /\ ~Absent("database"))' /\ SetTail(todo)'
  <2>1. Head(todo) = Move("setDisplaced", "settings") /\ Tail(todo) = q
    BY <1>2, TailsOfTails
  <2>2. /\ files' = [files EXCEPT !["settings"] = files["setDisplaced"],
                                  !["setDisplaced"] = LeftBehind("setDisplaced")]
        /\ checkpoint' = checkpoint /\ todo' = q
    BY <2>1, MoveEffect
  <2>3. LeftBehind("setDisplaced") = Missing
    BY DEF LeftBehind
  <2>4. /\ files' \in [Places -> Contents]
        /\ files'["settings"] = files["setDisplaced"] /\ files'["setDisplaced"] = Missing
        /\ Elsewhere(files, files', {"settings", "setDisplaced"})
    BY <2>2, <2>3, RootPlaces DEF WellTyped, RootTyped, Elsewhere
  <2>5. RootInv(files', checkpoint', accepted)
    BY <1>2, <2>2, <2>4, SettingsReturn DEF RootNow, Journal, Absent
  <2>6. RootNow'
    BY <2>5, RoutineKeepsRoot
  <2>7. /\ Absent("dbDisplaced")' /\ ~Absent("database")' /\ Absent("setDisplaced")'
        /\ ~Absent("settings")' /\ (Absent("dbStaging")' <=> Absent("dbStaging"))
        /\ (Absent("setStaging")' <=> Absent("setStaging"))
    BY <1>2, <2>4, RootPlaces DEF Absent, Elsewhere
  <2>8. EndTail(q)'
    BY <1>2, <2>7 DEF EndTail
  <2> QED
    BY <2>2, <2>6, <2>7, <2>8 DEF SetTail, Journal
<1>3. ASSUME NEW q \in EndTails, ~Absent("setDisplaced"), EndTail(q), todo = SetSwap(q)
      PROVE  /\ RootNow'
             /\ (Journal /\ Absent("dbDisplaced") /\ ~Absent("database"))' /\ SetTail(todo)'
  <2>1. Head(todo) = Discard({"settings"}) /\ Tail(todo) = SetBack(q)
    BY <1>3, TailsOfTails
  <2>2. checkpoint' = checkpoint /\ Lessens({"settings"})
    BY <2>1, DiscardEffect
  <2>3. /\ RootInv(files', checkpoint', accepted)
        /\ Elsewhere(files, files', {"settings"})
        /\ todo' \in {SetBack(q), SetSwap(q)}
    <3>1. CASE files' = files /\ todo' = SetBack(q)
      BY <2>2, <3>1 DEF RootNow, Elsewhere
    <3>2. CASE /\ ~Absent("settings") /\ files' = [files EXCEPT !["settings"] = Shrunk("settings")]
               /\ todo' = todo
      <4>1. "settings" \in Places /\ "settings" \notin Directories
        BY DEF Places, Directories, Databases
      <4>2. /\ files' \in [Places -> Contents] /\ Elsewhere(files, files', {"settings"})
            /\ files'["settings"] = Missing
        BY <3>2, <4>1, ShrunkPlace DEF WellTyped, RootTyped
      <4>3. RootInv(files', checkpoint', accepted)
        BY <1>3, <2>2, <4>2, SettingsGo DEF RootNow, Journal, Absent
      <4> QED
        BY <1>3, <3>2, <4>2, <4>3
    <3> QED
      BY <2>1, <2>2, <3>1, <3>2 DEF Lessens
  <2>4. RootNow'
    BY <2>3, RoutineKeepsRoot
  <2>5. /\ Absent("dbDisplaced")' /\ ~Absent("database")' /\ ~Absent("setDisplaced")'
        /\ (Absent("dbStaging")' <=> Absent("dbStaging"))
        /\ (Absent("setStaging")' <=> Absent("setStaging"))
    BY <1>3, <2>3, RootPlaces DEF Absent, Elsewhere
  <2>6. EndTail(q)'
    BY <1>3, <2>5 DEF EndTail
  <2>7. SetTail(todo)'
    BY <1>3, <2>3, <2>5, <2>6 DEF SetTail
  <2> QED
    BY <2>2, <2>4, <2>5, <2>7 DEF Journal
<1> QED
  BY <1>1, <1>2, <1>3 DEF SetTail

\* The prior database comes back before them.
LEMMA UndoStep ==
  ASSUME WellTyped, RootNow, Journal, UndoTail(todo), Step
  PROVE  /\ RootNow'
         /\ \/ Journal' /\ UndoTail(todo)'
            \/ todo' = <<>> /\ SettledDisk'
<1>1. CASE Absent("dbDisplaced") /\ ~Absent("database") /\ SetTail(todo)
  <2>1. /\ RootNow'
        /\ \/ (Journal /\ Absent("dbDisplaced") /\ ~Absent("database"))' /\ SetTail(todo)'
           \/ todo' = <<>> /\ SettledDisk'
    BY <1>1, SetTailStep
  <2> QED
    BY <2>1 DEF UndoTail
<1>2. ASSUME NEW q \in SetTails, ~Absent("dbDisplaced"), SetTail(q), todo = DbBack(q)
      PROVE  RootNow' /\ Journal' /\ UndoTail(todo)'
  <2>1. Head(todo) = Move("dbDisplaced", "database") /\ Tail(todo) = q
    BY <1>2, TailsOfTails
  <2>2. /\ files' = [files EXCEPT !["database"] = files["dbDisplaced"],
                                  !["dbDisplaced"] = LeftBehind("dbDisplaced")]
        /\ checkpoint' = checkpoint /\ todo' = q
    BY <2>1, MoveEffect
  <2>3. LeftBehind("dbDisplaced") = Missing
    BY DEF LeftBehind
  <2>4. /\ files' \in [Places -> Contents]
        /\ files'["database"] = files["dbDisplaced"] /\ files'["dbDisplaced"] = Missing
        /\ Elsewhere(files, files', {"database", "dbDisplaced"})
    BY <2>2, <2>3, RootPlaces DEF WellTyped, RootTyped, Elsewhere
  <2>5. RootInv(files', checkpoint', accepted)
    BY <1>2, <2>2, <2>4, DatabaseReturns DEF RootNow, Journal, Absent
  <2>6. RootNow'
    BY <2>5, RoutineKeepsRoot
  <2>7. /\ Absent("dbDisplaced")' /\ ~Absent("database")'
        /\ (Absent("setDisplaced")' <=> Absent("setDisplaced"))
        /\ (Absent("settings")' <=> Absent("settings"))
        /\ (Absent("dbStaging")' <=> Absent("dbStaging"))
        /\ (Absent("setStaging")' <=> Absent("setStaging"))
    BY <1>2, <2>4, RootPlaces DEF Absent, Elsewhere
  <2>8. SetTail(q)'
    BY <1>2, <2>7 DEF SetTail, EndTail
  <2> QED
    BY <2>2, <2>6, <2>7, <2>8 DEF UndoTail, Journal
<1>3. ASSUME NEW q \in SetTails, ~Absent("dbDisplaced"), SetTail(q), todo = DbSwap(q)
      PROVE  RootNow' /\ Journal' /\ UndoTail(todo)'
  <2>1. Head(todo) = Discard({"database"}) /\ Tail(todo) = DbBack(q)
    BY <1>3, TailsOfTails
  <2>2. checkpoint' = checkpoint /\ Lessens({"database"})
    BY <2>1, DiscardEffect
  <2>3. /\ RootInv(files', checkpoint', accepted)
        /\ Elsewhere(files, files', {"database"})
        /\ todo' \in {DbBack(q), DbSwap(q)}
    <3>1. CASE files' = files /\ todo' = DbBack(q)
      BY <2>2, <3>1 DEF RootNow, Elsewhere
    <3>2. CASE /\ ~Absent("database") /\ files' = [files EXCEPT !["database"] = Shrunk("database")]
               /\ todo' = todo
      <4>1. "database" \in Places
        BY RootPlaces
      <4>2. /\ files' \in [Places -> Contents] /\ Elsewhere(files, files', {"database"})
            /\ files'["database"] \in {Missing, Hollow}
        BY <3>2, <4>1, ShrunkPlace DEF WellTyped, RootTyped
      <4>3. RootInv(files', checkpoint', accepted)
        BY <1>3, <2>2, <4>2, DatabaseGoes DEF RootNow, Journal, Absent
      <4> QED
        BY <1>3, <3>2, <4>2, <4>3
    <3> QED
      BY <2>1, <2>2, <3>1, <3>2 DEF Lessens
  <2>4. RootNow'
    BY <2>3, RoutineKeepsRoot
  <2>5. /\ ~Absent("dbDisplaced")'
        /\ (Absent("setDisplaced")' <=> Absent("setDisplaced"))
        /\ (Absent("settings")' <=> Absent("settings"))
        /\ (Absent("dbStaging")' <=> Absent("dbStaging"))
        /\ (Absent("setStaging")' <=> Absent("setStaging"))
    BY <1>3, <2>3, RootPlaces DEF Absent, Elsewhere
  <2>6. SetTail(q)'
    BY <1>3, <2>5 DEF SetTail, EndTail
  <2>7. UndoTail(todo)'
    BY <1>3, <2>3, <2>5, <2>6 DEF UndoTail
  <2> QED
    BY <2>2, <2>4, <2>7 DEF Journal
<1> QED
  BY <1>1, <1>2, <1>3 DEF UndoTail

\* What has been accepted is finished.
LEMMA FinishStep ==
  ASSUME WellTyped, RootNow, Journal, accepted, FinishTail(todo), Step
  PROVE  /\ RootNow'
         /\ \/ Journal' /\ FinishTail(todo)'
            \/ todo' = <<>> /\ (~Journal /\ Standing /\ Bare)'
<1> DEFINE x == Discard({"dbDisplaced"})  y == Discard(FinishPlaces)  z == Record(2, "finalized")
<1>1. x \in AllSteps /\ y \in AllSteps /\ z \in AllSteps /\ Forget \in AllSteps
  BY ShortSteps
<1>2. accepted = TRUE
  BY DEF WellTyped, RootTyped
<1>3. CASE todo = <<Forget>> /\ Bare
  <2>1. files' = files /\ checkpoint' = NoCheckpoint /\ todo' = <<>>
    BY <1>1, <1>3, Short, ForgetEffect
  <2>2. RootInv(files', checkpoint', accepted)
    BY <1>3, <2>1, CheckpointGoes DEF RootNow, Journal, Bare, Absent, WellTyped, FinishTail, Standing
  <2>3. (~Journal /\ Standing /\ Bare)'
    BY <1>3, <2>1 DEF Journal, Standing, Absent, Bare, FinishTail
  <2> QED
    BY <2>1, <2>2, <2>3, RoutineKeepsRoot
<1>4. ASSUME NEW ps \in SUBSET FinishPlaces, Head(todo) = Discard(ps)
      PROVE  /\ RootNow' /\ (Journal /\ Standing)' /\ checkpoint' = checkpoint
             /\ Elsewhere(files, files', ps)
             /\ todo' = todo \/ (todo' = Tail(todo) /\ \A p \in ps : Absent(p)')
  <2>1. checkpoint' = checkpoint /\ Lessens(ps)
    BY <1>4, DiscardEffect
  <2>2. /\ files' \in [Places -> Contents] /\ Elsewhere(files, files', ps)
        /\ \A p \in ps : files[p] = Missing => files'[p] = Missing
        /\ todo' = todo \/ (todo' = Tail(todo) /\ \A p \in ps : Absent(p)')
    <3>1. CASE files' = files /\ todo' = Tail(todo) /\ \A p \in ps : Absent(p)
      BY <3>1 DEF Elsewhere, Absent, WellTyped, RootTyped
    <3>2. ASSUME NEW p \in ps, ~Absent(p), files' = [files EXCEPT ![p] = Shrunk(p)], todo' = todo
          PROVE  /\ files' \in [Places -> Contents] /\ Elsewhere(files, files', ps)
                 /\ \A q \in ps : files[q] = Missing => files'[q] = Missing
      <4>1. p \in Places /\ FinishPlaces \subseteq Places
        BY RootPlaces DEF FinishPlaces
      <4>2. files' \in [Places -> Contents] /\ Elsewhere(files, files', {p})
        BY <3>2, <4>1, ShrunkPlace DEF WellTyped, RootTyped
      <4>3. \A q \in Places \ {p} : files'[q] = files[q]
        BY <4>2 DEF Elsewhere
      <4> QED
        BY <3>2, <4>1, <4>2, <4>3 DEF Elsewhere, Absent
    <3> QED
      BY <2>1, <3>1, <3>2 DEF Lessens
  <2>3. Elsewhere(files, files', FinishPlaces) /\ \A p \in FinishPlaces : files[p] = Missing => files'[p] = Missing
    BY <2>2, RootPlaces DEF Elsewhere, FinishPlaces
  <2>4. RootInv(files', checkpoint', accepted)
    BY <1>2, <2>1, <2>2, <2>3, AcceptedGoes DEF RootNow, Journal
  <2>5. (Journal /\ Standing)'
    BY <2>1, <2>3, RootPlaces DEF Journal, Standing, Absent, Elsewhere, FinishPlaces, FinishTail
  <2> QED
    BY <2>1, <2>2, <2>4, <2>5, RoutineKeepsRoot
<1>5. CASE /\ todo = <<x, Forget>> /\ checkpoint.version = 1
           /\ Absent("dbStaging") /\ Absent("setStaging") /\ Absent("setDisplaced")
  <2>1. Head(todo) = x /\ Tail(todo) = <<Forget>> /\ {"dbDisplaced"} \in SUBSET FinishPlaces
    BY <1>1, <1>5, Short DEF FinishPlaces
  <2>2. /\ RootNow' /\ (Journal /\ Standing)' /\ checkpoint' = checkpoint
        /\ Elsewhere(files, files', {"dbDisplaced"})
        /\ todo' = todo \/ (todo' = <<Forget>> /\ Absent("dbDisplaced")')
    BY <1>4, <2>1
  <2>3. Absent("dbStaging")' /\ Absent("setStaging")' /\ Absent("setDisplaced")'
    BY <1>5, <2>2, RootPlaces DEF Elsewhere, Absent
  <2>4. FinishTail(todo)'
    BY <1>5, <2>2, <2>3 DEF FinishTail, Bare
  <2> QED
    BY <2>2, <2>4
<1>6. CASE todo = <<y, Forget>>
  <2>1. Head(todo) = y /\ Tail(todo) = <<Forget>>
    BY <1>1, <1>6, Short
  <2>2. /\ RootNow' /\ (Journal /\ Standing)'
        /\ todo' = todo \/ (todo' = <<Forget>> /\ \A p \in FinishPlaces : Absent(p)')
    BY <1>4, <2>1
  <2>3. todo' = todo \/ (todo' = <<Forget>> /\ Bare')
    BY <2>2 DEF Bare, FinishPlaces
  <2>4. FinishTail(todo)'
    BY <1>6, <2>2, <2>3 DEF FinishTail
  <2> QED
    BY <2>2, <2>4
<1>7. CASE todo = <<z, y, Forget>> /\ checkpoint.version = 2
  <2>1. Head(todo) = z /\ Tail(todo) = <<y, Forget>>
    BY <1>1, <1>7, Short
  <2>2. /\ files' = files /\ todo' = <<y, Forget>>
        /\ checkpoint' = [version |-> 2, phase |-> "finalized"]
    BY <2>1, RecordEffect
  <2>3. RootInv(files', checkpoint', accepted)
    BY <1>2, <2>2, AcceptedRecorded DEF RootNow
  <2>4. Journal' /\ Standing'
    BY <2>2 DEF Journal, NoCheckpoint, Standing, Absent, FinishTail
  <2>5. FinishTail(todo)'
    BY <2>2, <2>4 DEF FinishTail
  <2> QED
    BY <2>3, <2>4, <2>5, RoutineKeepsRoot
<1> QED
  BY <1>3, <1>5, <1>6, <1>7 DEF FinishTail
LEMMA LastSteps ==
  /\ <<>> \notin EndTails /\ <<>> \notin SetTails
  /\ ~UndoTail(<<>>) /\ ~FinishTail(<<>>)
<1>1. \A a, b, c \in AllSteps : <<a>> # <<>> /\ <<a, b>> # <<>> /\ <<a, b, c>> # <<>>
  OBVIOUS
<1>2. <<>> \notin EndTails
  BY <1>1, ShortSteps, Zenon DEF EndTails
<1>3. \A r \in SetTails : r \in Seq(AllSteps)
  BY TailsOfTails
<1>4. \A r \in EndTails : r \in Seq(AllSteps)
  BY TailsOfTails
<1>5. <<>> \notin SetTails
  BY <1>2, <1>4, TailsOfTails DEF SetTails
<1>6. ~UndoTail(<<>>)
  <2>1. ~SetTail(<<>>)
    BY <1>5, KnownTails
  <2>2. \A q \in SetTails : DbBack(q) # <<>> /\ DbSwap(q) # <<>>
    BY <1>3, TailsOfTails
  <2> QED
    BY <2>1, <2>2 DEF UndoTail
<1>7. ~FinishTail(<<>>)
  BY <1>1, ShortSteps, Zenon DEF FinishTail
<1> QED
  BY <1>2, <1>5, <1>6, <1>7

LEMMA RecoveringStep ==
  ASSUME WellTyped, RootNow, Recovering, Step
  PROVE  RootNow' /\ Recovering'
<1> DEFINE all == {"dbStaging", "setStaging", "orphan"}
<1>1. Discard(all) \in AllSteps /\ Discard({"dbStaging"}) \in AllSteps
  BY ShortSteps
<1>2. CASE todo = <<Discard(all)>> /\ ~Journal /\ Standing
  <2>1. Head(todo) = Discard(all) /\ Tail(todo) = <<>>
    BY <1>1, <1>2, Short
  <2>2. /\ RootNow' /\ checkpoint' = checkpoint /\ Elsewhere(files, files', all)
        /\ todo' = todo \/ (todo' = <<>> /\ (\A p \in all : Absent(p)'))
    BY <2>1, StagedStep
  <2>3. (~Journal /\ Standing)'
    BY <1>2, <2>2, RootPlaces DEF Journal, Standing, Absent, Elsewhere
  <2>4. CASE todo' = todo
    BY <1>2, <2>2, <2>3, <2>4 DEF Recovering
  <2>5. CASE todo' = <<>> /\ (\A p \in all : Absent(p)')
    <3>1. Absent("dbStaging")' /\ Absent("setStaging")'
      BY <2>5
    <3>2. SettledDisk'
      BY <2>3, <3>1 DEF SettledDisk
    <3> QED
      BY <2>2, <2>5, <3>2 DEF Recovering
  <2> QED
    BY <2>2, <2>4, <2>5
<1>3. CASE todo = <<Discard({"dbStaging"})>> /\ Whether(checkpoint) /\ checkpoint.version = 1 /\ Standing
  <2>1. Head(todo) = Discard({"dbStaging"}) /\ Tail(todo) = <<>>
    BY <1>1, <1>3, Short
  <2>2. /\ RootNow' /\ checkpoint' = checkpoint /\ Elsewhere(files, files', {"dbStaging"})
        /\ todo' = todo \/ (todo' = <<>> /\ Absent("dbStaging")')
    BY <2>1, StagedStep
  <2>3. Standing' /\ Whether(checkpoint') /\ checkpoint'.version = 1 /\ checkpoint' # NoCheckpoint
    BY <1>3, <2>2, RootPlaces DEF Standing, Absent, Elsewhere, NoCheckpoint
  <2>4. CASE todo' = todo
    BY <1>3, <2>2, <2>3, <2>4 DEF Recovering, Whether
  <2>5. CASE todo' = <<>> /\ Absent("dbStaging")'
    <3>1. SettledDisk'
      BY <2>3, <2>5 DEF SettledDisk
    <3> QED
      BY <2>2, <2>5, <3>1 DEF Recovering
  <2> QED
    BY <2>2, <2>4, <2>5
<1>4. CASE todo = <<>>
  BY <1>4, RoutineKeeps
<1>5. CASE Journal /\ UndoTail(todo)
  BY <1>5, UndoStep DEF Recovering
<1>6. CASE Journal /\ accepted /\ FinishTail(todo)
  <2>1. /\ RootNow'
        /\ \/ Journal' /\ FinishTail(todo)'
           \/ todo' = <<>> /\ (~Journal /\ Standing /\ Bare)'
    BY <1>6, FinishStep
  <2>2. accepted' = accepted
    BY RoutineKeeps DEF InRoutine
  <2>3. ASSUME (~Journal /\ Standing /\ Bare)'
        PROVE  SettledDisk'
    BY <2>3 DEF SettledDisk, Journal, Bare, NoCheckpoint
  <2> QED
    BY <1>6, <2>1, <2>2, <2>3 DEF Recovering
<1> QED
  BY <1>2, <1>3, <1>4, <1>5, <1>6 DEF Recovering

LEMMA FinalizingStep ==
  ASSUME WellTyped, RootNow, Finalizing, Step
  PROVE  RootNow' /\ Finalizing'
<1>1. todo # <<>> /\ accepted' = accepted
  BY RoutineKeeps DEF InRoutine
<1>2. Journal /\ accepted /\ FinishTail(todo)
  BY <1>1 DEF Finalizing
<1>3. /\ RootNow'
      /\ \/ Journal' /\ FinishTail(todo)'
         \/ todo' = <<>> /\ (~Journal /\ Standing /\ Bare)'
  BY <1>2, FinishStep
<1> QED
  BY <1>1, <1>2, <1>3 DEF Finalizing

-----------------------------------------------------------------------------
(* The routines begin as they go on.                                       *)

LEMMA Versions ==
  ASSUME WellTyped
  PROVE  /\ checkpoint = NoCheckpoint <=> checkpoint.version = 0
         /\ checkpoint.version \in {0, 1, 2}
         /\ checkpoint = [version |-> checkpoint.version, phase |-> checkpoint.phase]
         /\ checkpoint.version = 2 => checkpoint.phase \in PhasesV2
         /\ checkpoint.version = 1 => checkpoint.phase \in PhasesV1
         /\ checkpoint = NoCheckpoint => checkpoint.phase = "none"
<1>1. checkpoint \in Checkpoints
  BY DEF WellTyped, RootTyped
<1>2. CASE checkpoint = NoCheckpoint
  BY <1>2 DEF NoCheckpoint
<1>3. CASE checkpoint \in [version: {1}, phase: PhasesV1]
  BY <1>3 DEF NoCheckpoint
<1>4. CASE checkpoint \in [version: {2}, phase: PhasesV2]
  BY <1>4 DEF NoCheckpoint
<1> QED
  BY <1>1, <1>2, <1>3, <1>4 DEF Checkpoints

\* Without an accepted outcome, a version 1 restore has left the settings alone.
LEMMA SettingsStay ==
  ASSUME WellTyped, RootNow, checkpoint.version = 1, ~accepted
  PROVE  ~Absent("settings")
<1>1. Journal /\ files["setDisplaced"] = Missing
  BY Versions DEF RootNow, RootInv, Undisturbed, Journal
<1>2. files["settings"] = prior.settings
  BY <1>1 DEF RootNow, RootInv, Recoverable, OwnerHeld, Journal, WellTyped
<1> QED
  BY <1>2 DEF Absent, WellTyped

LEMMA RecoverShape ==
  ASSUME WellTyped, RootNow, ~Unavailable, Standing \/ (Journal /\ ~accepted), todo' = RecoverSteps,
         SameDisk, accepted' = accepted
  PROVE  Recovering'
<1>0. /\ Journal' = Journal /\ Standing' = Standing /\ SettledDisk' = SettledDisk
      /\ \A p : Absent(p)' = Absent(p)
      /\ \A r : EndTail(r)' = EndTail(r)
  BY DEF SameDisk, Journal, Standing, SettledDisk, Absent, EndTail
<1>1. \A r : UndoTail(r)' = UndoTail(r)
  BY <1>0 DEF UndoTail, SetTail
<1>2. CASE ~Journal
  BY <1>0, <1>2 DEF Recovering, RecoverSteps, Journal
<1>3. CASE Journal /\ VerifiedPending
  <2>1. Standing
    BY <1>3, SettingsStay DEF Standing, VerifiedPending, Exists, Absent
  <2>2. Whether(checkpoint)
    BY <1>3 DEF VerifiedPending, Whether
  <2>3. todo' = When(checkpoint.version = 1 /\ Exists("dbStaging"), Discard({"dbStaging"}))
    BY <1>3 DEF RecoverSteps, Journal
  <2>4. CASE checkpoint.version = 1 /\ Exists("dbStaging")
    BY <1>0, <2>1, <2>2, <2>3, <2>4 DEF Recovering, When, Whether, SameDisk
  <2>5. CASE ~(checkpoint.version = 1 /\ Exists("dbStaging"))
    <3>1. todo' = <<>>
      BY <2>3, <2>5 DEF When
    <3>2. SettledDisk
      BY <1>3, <2>1, <2>5 DEF SettledDisk, Absent, Exists, Journal
    <3> QED
      BY <1>0, <3>1, <3>2 DEF Recovering
  <2> QED
    BY <2>4, <2>5
<1>4. CASE Journal /\ ~VerifiedPending /\ checkpoint.version = 1
  <2>1. ~Absent("settings") /\ Absent("setDisplaced") /\ Absent("setStaging")
    BY <1>4, SettingsStay DEF Standing, RootNow, RootInv, Undisturbed, Absent
  <2>2. ~(Absent("database") /\ Absent("dbDisplaced"))
    BY <1>4 DEF Unavailable, Exists, Absent, Journal
  <2>3. CASE checkpoint.phase = "verified" /\ Exists("database")
    <3>1. checkpoint = [version |-> 1, phase |-> "verified"]
      BY <1>4, <2>3, Versions
    <3>2. Absent("dbDisplaced")
      BY <1>4, <2>3, <3>1 DEF VerifiedPending, Exists, Absent
    <3>3. EndTail(CleanUpSteps)
      BY <2>1, CleanUpShape
    <3>4. UndoTail(CleanUpSteps)
      BY <2>1, <2>3, <3>2, <3>3 DEF UndoTail, SetTail, Exists, Absent
    <3>5. todo' = CleanUpSteps
      BY <1>4, <2>3 DEF RecoverSteps, Journal
    <3> QED
      BY <1>0, <1>1, <1>4, <3>4, <3>5 DEF Recovering
  <2>4. CASE ~(checkpoint.phase = "verified" /\ Exists("database"))
    <3>1. UndoTail(UndoV1Steps)
      BY <2>1, <2>2, UndoV1Shape
    <3>2. todo' = UndoV1Steps
      BY <1>4, <2>4 DEF RecoverSteps, Journal
    <3> QED
      BY <1>0, <1>1, <1>4, <3>1, <3>2 DEF Recovering
  <2> QED
    BY <2>3, <2>4
<1>5. CASE Journal /\ ~VerifiedPending /\ checkpoint.version # 1 /\ checkpoint.phase = "finalized"
  <2>1. accepted
    BY <1>5 DEF RootNow, RootInv, Recoverable
  <2>2. Standing
    BY <1>5 DEF Unavailable, Standing, Absent, Exists, Journal
  <2>3. todo' = <<Discard(FinishPlaces), Forget>>
    BY <1>5 DEF RecoverSteps, Journal, FinishV2Steps, FinishPlaces
  <2>4. FinishTail(todo)'
    BY <1>0, <2>2, <2>3 DEF FinishTail
  <2> QED
    BY <1>0, <1>5, <2>1, <2>4 DEF Recovering
<1>6. CASE Journal /\ ~VerifiedPending /\ checkpoint.version # 1 /\ checkpoint.phase # "finalized"
  <2>1. ~UndoV2Unavailable
    BY <1>6 DEF Unavailable, Journal
  <2>2. UndoTail(UndoV2Steps)
    BY <2>1, UndoV2Shape DEF UndoV2Unavailable, Exists, Absent
  <2>3. todo' = UndoV2Steps
    BY <1>6 DEF RecoverSteps, Journal
  <2> QED
    BY <1>0, <1>1, <1>6, <2>2, <2>3 DEF Recovering
<1> QED
  BY <1>2, <1>3, <1>4, <1>5, <1>6

LEMMA BackOutShape ==
  ASSUME WellTyped, RootNow, ~BackOutUnavailable, ~Absent("settings"), todo' = BackOutSteps, SameDisk
  PROVE  Recovering'
<1>0. /\ Journal' = Journal
      /\ \A p : Absent(p)' = Absent(p)
      /\ \A r : EndTail(r)' = EndTail(r)
  BY DEF SameDisk, Journal, Absent, EndTail
<1>1. \A r : UndoTail(r)' = UndoTail(r)
  BY <1>0 DEF UndoTail, SetTail
<1>2. CASE checkpoint.version = 1
  <2>1. Journal /\ Absent("setDisplaced") /\ Absent("setStaging")
    BY <1>2, Versions DEF RootNow, RootInv, Undisturbed, Absent, Journal
  <2>2. ~Absent("dbDisplaced")
    BY <1>2 DEF BackOutUnavailable, Exists, Absent
  <2>3. UndoTail(UndoV1Steps) /\ todo' = UndoV1Steps
    BY <1>2, <2>1, <2>2, UndoV1Shape DEF BackOutSteps
  <2> QED
    BY <1>0, <1>1, <2>1, <2>3 DEF Recovering
<1>3. CASE checkpoint.version # 1
  <2>1. ~UndoV2Unavailable
    BY <1>3 DEF BackOutUnavailable
  <2>2. Journal
    BY <2>1, Versions DEF UndoV2Unavailable, RootNow, RootInv, Undisturbed, Exists, Absent, Journal
  <2>3. UndoTail(UndoV2Steps) /\ todo' = UndoV2Steps
    BY <1>3, <2>1, UndoV2Shape DEF UndoV2Unavailable, Exists, Absent, BackOutSteps
  <2> QED
    BY <1>0, <1>1, <2>2, <2>3 DEF Recovering
<1> QED
  BY <1>2, <1>3

\* A database that was hollow is not so any more, and the outcome is accepted.
LEMMA FinalizeShape ==
  ASSUME WellTyped, RootNow, SettledDisk, todo' = FinalizeSteps, checkpoint' = checkpoint,
         accepted' = TRUE, files' \in [Places -> Contents],
         Elsewhere(files, files', {"database"}), files'["database"] # Missing
  PROVE  RootNow' /\ Finalizing'
<1>1. /\ Absent("dbDisplaced")' = Absent("dbDisplaced") /\ Absent("setDisplaced")' = Absent("setDisplaced")
      /\ Absent("dbStaging")' = Absent("dbStaging") /\ Absent("setStaging")' = Absent("setStaging")
      /\ ~Absent("settings")' /\ ~Absent("database")' /\ Standing'
      /\ Journal' = Journal
  BY RootPlaces DEF Elsewhere, Absent, SettledDisk, Standing, Journal
<1>2. RootNow'
  BY <1>1 DEF RootNow, RootInv, RootTyped, Undisturbed, Absent, WellTyped
<1>3. CASE ~Journal
  <2>1. todo' = <<>>
    BY <1>3, Versions DEF FinalizeSteps, Journal
  <2>2. Bare'
    BY <1>1, <1>3 DEF Bare, SettledDisk, RootNow, RootInv, Undisturbed, Journal, Absent
  <2> QED
    BY <1>1, <1>2, <1>3, <2>1, <2>2 DEF Finalizing
<1>4. CASE checkpoint.version = 1
  <2>1. Journal /\ Absent("setDisplaced") /\ Absent("setStaging") /\ Absent("dbStaging")
    BY <1>4, Versions DEF RootNow, RootInv, Undisturbed, Absent, Journal, SettledDisk
  <2>2. todo' = When(Exists("dbDisplaced"), Discard({"dbDisplaced"})) \o <<Forget>>
    BY <1>4, <2>1 DEF FinalizeSteps, Journal
  <2>3. Forget \in AllSteps /\ Discard({"dbDisplaced"}) \in AllSteps
    BY ShortSteps
  <2>4. <<Forget>> \in Seq(AllSteps)
    BY <2>3
  <2>5. CASE Exists("dbDisplaced")
    <3>1. todo' = <<Discard({"dbDisplaced"})>> \o <<Forget>>
      BY <2>2, <2>5 DEF When
    <3>2. todo' = <<Discard({"dbDisplaced"}), Forget>>
      BY <2>3, <3>1, PairConcat, Zenon
    <3> QED
      BY <1>1, <1>2, <1>4, <2>1, <3>2 DEF Finalizing, FinishTail
  <2>6. CASE ~Exists("dbDisplaced")
    <3>1. todo' = <<>> \o <<Forget>>
      BY <2>2, <2>6 DEF When
    <3>2. todo' = <<Forget>>
      BY <2>4, <3>1, ConcatEmptySeq, Zenon
    <3>3. Bare'
      BY <1>1, <2>1, <2>6 DEF Bare, Exists, Absent
    <3> QED
      BY <1>1, <1>2, <2>1, <3>2, <3>3 DEF Finalizing, FinishTail
  <2> QED
    BY <2>5, <2>6
<1>5. CASE Journal /\ checkpoint.version # 1
  <2>1. checkpoint.version = 2
    BY <1>5, Versions DEF Journal
  <2>2. todo' = <<Record(2, "finalized")>> \o <<Discard(FinishPlaces), Forget>>
    BY <1>5 DEF FinalizeSteps, Journal, FinishV2Steps, FinishPlaces
  <2>3. todo' = <<Record(2, "finalized"), Discard(FinishPlaces), Forget>>
    <3>1. Record(2, "finalized") \in AllSteps /\ Discard(FinishPlaces) \in AllSteps /\ Forget \in AllSteps
      BY ShortSteps
    <3> QED
      BY <2>2, <3>1, TripleConcat, Zenon
  <2> QED
    BY <1>1, <1>2, <1>5, <2>1, <2>3 DEF Finalizing, FinishTail
<1> QED
  BY <1>3, <1>4, <1>5
-----------------------------------------------------------------------------
(* A restore keeps what it says, step by step.                             *)

LEMMA BackupContent ==
  ASSUME target.database \in Whole
  PROVE  target.database \in Contents /\ target.database # Missing
BY ContentsDiffer, BoundsAreNaturals DEF Whole, Contents

LEMMA RestoringV1Root ==
  ASSUME WellTyped, ~accepted, NEW k \in 1 .. 11, RestoringV1(k)
  PROVE  RootNow
<1> DEFINE n == target.database
<1>1. checkpoint = NoCheckpoint \/ (checkpoint.version = 1 /\ checkpoint.phase \in PhasesV1)
  BY DEF RestoringV1, At, Journal, PhasesV1
<1>2. checkpoint = NoCheckpoint <=> k <= 3
  BY DEF RestoringV1, At, Journal, NoCheckpoint
<1>3. NoCheckpoint.version = 0 /\ NoCheckpoint.phase = "none"
  BY DEF NoCheckpoint
<1>4. prior.database # Missing /\ prior.settings # Missing
  BY DEF WellTyped
<1>5. Undisturbed(files, checkpoint)
  BY <1>1, <1>2, <1>3, <1>4 DEF Undisturbed, RestoringV1, Absent
<1>6. Recoverable(files, checkpoint)
  <2>1. k <= 3 => files["database"] = prior.database /\ files["settings"] = prior.settings
    BY DEF RestoringV1
  <2>2. OwnerHeld(files, "database", "dbDisplaced", prior.database, {Missing, Hollow, target.database})
    BY DEF OwnerHeld, RestoringV1
  <2>3. OwnerHeld(files, "settings", "setDisplaced", prior.settings, {Missing, Default, target.settings})
    BY DEF OwnerHeld, RestoringV1, Absent
  <2>4. files["settings"] = target.settings /\ target.settings = prior.settings
    BY DEF RestoringV1
  <2>5. checkpoint.version # 2 /\ checkpoint.phase # "finalized"
    BY <1>1, <1>3 DEF PhasesV1
  <2> QED
    BY <1>2, <2>1, <2>2, <2>3, <2>4, <2>5 DEF Recoverable
<1> QED
  BY <1>5, <1>6 DEF RootNow, RootInv, WellTyped

LEMMA RestoringV2Root ==
  ASSUME WellTyped, ~accepted, NEW k \in 1 .. 18, RestoringV2(k)
  PROVE  RootNow
<1>1. /\ k <= 5 => checkpoint = NoCheckpoint
      /\ k >= 6 => checkpoint.version = 2 /\ checkpoint # NoCheckpoint
      /\ k \in 6 .. 9 => checkpoint.phase \in {"verified", "database-displaced"}
      /\ checkpoint.phase # "finalized"
      /\ Whether(checkpoint) => k = 18
  <2>1. CASE k <= 5
    BY <2>1 DEF RestoringV2, Journal, NoCheckpoint, Whether
  <2>2. CASE k \in 6 .. 9
    BY <2>2 DEF RestoringV2, At, NoCheckpoint, Whether
  <2>3. CASE k >= 10
    BY <2>3 DEF RestoringV2, At, NoCheckpoint, Whether
  <2> QED
    BY <2>1, <2>2, <2>3
<1>3. NoCheckpoint.version = 0 /\ NoCheckpoint.phase = "none"
  BY DEF NoCheckpoint
<1>4. prior.database # Missing /\ prior.settings # Missing
  BY DEF WellTyped
<1>5. Undisturbed(files, checkpoint)
  BY <1>1, <1>3, <1>4 DEF Undisturbed, RestoringV2
<1>6. Recoverable(files, checkpoint)
  <2>1. k <= 5 => files["database"] = prior.database /\ files["settings"] = prior.settings
    BY DEF RestoringV2
  <2>2. OwnerHeld(files, "database", "dbDisplaced", prior.database, {Missing, Hollow, target.database})
    BY DEF OwnerHeld, RestoringV2
  <2>3. OwnerHeld(files, "settings", "setDisplaced", prior.settings, {Missing, Default, target.settings})
    BY DEF OwnerHeld, RestoringV2
  <2>4. k = 18 => files["settings"] = target.settings
    BY DEF RestoringV2
  <2>5. k >= 10 => files["setDisplaced"] # Missing
    BY <1>4 DEF RestoringV2
  <2>6. checkpoint.version # 1
    BY <1>1, <1>3
  <2> QED
    BY <1>1, <1>3, <2>1, <2>2, <2>3, <2>4, <2>5, <2>6 DEF Recoverable
<1> QED
  BY <1>5, <1>6 DEF RootNow, RootInv, WellTyped

LEMMA RestoringV1Step ==
  ASSUME WellTyped, target.database \in Whole, NEW k \in 1 .. 11, RestoringV1(k), Step
  PROVE  /\ RootTyped(files, checkpoint, accepted)'
         /\ \E j \in 1 .. 11 : RestoringV1(j)'
<1> DEFINE L == RestoreSteps(1)
<1>1. L \in Seq(AllSteps) /\ Len(L) = 10
  BY StepsV1, Zenon
<1>2. todo = Rest(L, k) /\ todo # <<>>
  BY RoutineKeeps DEF RestoringV1
<1>3. k \in 1 .. 10
  <2> HIDE DEF L
  <2>1. Rest(L, Len(L) + 1) = <<>>
    BY <1>1, RestEnds, Zenon
  <2>2. Len(L) + 1 = 11
    BY <1>1
  <2> QED
    BY <1>2, <2>1, <2>2
<1>4. Head(todo) = L[k] /\ Tail(todo) = Rest(L, k + 1)
  BY <1>1, <1>2, <1>3, RestOf
<1>5. prior' = prior /\ target' = target /\ accepted' = accepted
  BY RoutineKeeps DEF InRoutine, SameRestore, SameRun
<1>6. L' = L
  BY <1>5 DEF RestoreSteps, StageSteps, ActivateSteps
<1>7. /\ files \in [Places -> Contents] /\ checkpoint \in Checkpoints /\ accepted \in BOOLEAN
      /\ target.database \in Contents /\ {Missing, Hollow} \subseteq Contents
  BY BackupContent, RootPlaces DEF WellTyped, RootTyped
<1>8. /\ L[1] = Put("dbStaging", Hollow)
      /\ L[2] = Put("dbStaging", target.database)
      /\ L[3] = Record(1, "prepared")
      /\ L[4] = Move("database", "dbDisplaced")
      /\ L[5] = Record(1, "displaced")
      /\ L[6] = Move("dbStaging", "database")
      /\ L[7] = Record(1, "activated")
      /\ L[8] = Invalidate
      /\ L[9] = Verify
      /\ L[10] = Record(1, "verified")
  BY StepsV1, Zenon
<1> HIDE DEF L
<1>9. CASE k = 1
  <2>1. Head(todo) = Put("dbStaging", Hollow) /\ Tail(todo) = Rest(L, 2)
    BY <1>4, <1>8, <1>9
  <2>2. files' = [files EXCEPT !["dbStaging"] = Hollow] /\ checkpoint' = checkpoint /\ todo' = Rest(L, 2)
    BY <2>1, PutEffect
  <2>3. RestoringV1(2)'
    BY <1>5, <1>6, <1>7, <1>9, <2>2, RootPlaces DEF RestoringV1, At, Journal, L, Absent, NoCheckpoint
  <2> QED
    BY <1>5, <1>7, <2>2, <2>3, RootPlaces DEF RootTyped
<1>10. CASE k = 2
  <2>1. Head(todo) = Put("dbStaging", target.database) /\ Tail(todo) = Rest(L, 3)
    BY <1>4, <1>8, <1>10
  <2>2. files' = [files EXCEPT !["dbStaging"] = target.database] /\ checkpoint' = checkpoint /\ todo' = Rest(L, 3)
    BY <2>1, PutEffect
  <2>3. RestoringV1(3)'
    BY <1>5, <1>6, <1>7, <1>10, <2>2, RootPlaces DEF RestoringV1, At, Journal, L, Absent, NoCheckpoint
  <2> QED
    BY <1>5, <1>7, <2>2, <2>3, RootPlaces DEF RootTyped
<1>11. CASE k = 3
  <2>1. Head(todo) = Record(1, "prepared") /\ Tail(todo) = Rest(L, 4)
    BY <1>4, <1>8, <1>11
  <2>2. /\ files' = files /\ checkpoint' = [version |-> 1, phase |-> "prepared"]
        /\ todo' = Rest(L, 4)
    BY <2>1, RecordEffect
  <2>3. RestoringV1(4)'
    BY <1>5, <1>6, <1>7, <1>11, <2>2, RootPlaces DEF RestoringV1, At, Journal, L, Absent, NoCheckpoint
  <2> QED
    BY <1>5, <1>7, <2>2, <2>3, RootPlaces DEF RootTyped, Checkpoints, PhasesV1, NoCheckpoint
<1>12. CASE k = 4
  <2>1. Head(todo) = Move("database", "dbDisplaced") /\ Tail(todo) = Rest(L, 5)
    BY <1>4, <1>8, <1>12
  <2>2. /\ files' = [files EXCEPT !["dbDisplaced"] = files["database"], !["database"] = Missing]
        /\ checkpoint' = checkpoint /\ todo' = Rest(L, 5)
    BY <2>1, MoveEffect DEF LeftBehind
  <2>3. RestoringV1(5)'
    BY <1>5, <1>6, <1>7, <1>12, <2>2, RootPlaces DEF RestoringV1, At, Journal, L, Absent, NoCheckpoint
  <2> QED
    BY <1>5, <1>7, <2>2, <2>3, RootPlaces DEF RootTyped
<1>13. CASE k = 5
  <2>1. Head(todo) = Record(1, "displaced") /\ Tail(todo) = Rest(L, 6)
    BY <1>4, <1>8, <1>13
  <2>2. /\ files' = files /\ checkpoint' = [version |-> 1, phase |-> "displaced"]
        /\ todo' = Rest(L, 6)
    BY <2>1, RecordEffect
  <2>3. RestoringV1(6)'
    BY <1>5, <1>6, <1>7, <1>13, <2>2, RootPlaces DEF RestoringV1, At, Journal, L, Absent, NoCheckpoint
  <2> QED
    BY <1>5, <1>7, <2>2, <2>3, RootPlaces DEF RootTyped, Checkpoints, PhasesV1, NoCheckpoint
<1>14. CASE k = 6
  <2>1. Head(todo) = Move("dbStaging", "database") /\ Tail(todo) = Rest(L, 7)
    BY <1>4, <1>8, <1>14
  <2>2. /\ files' = [files EXCEPT !["database"] = files["dbStaging"], !["dbStaging"] = Missing]
        /\ checkpoint' = checkpoint /\ todo' = Rest(L, 7)
    BY <2>1, MoveEffect DEF LeftBehind
  <2>3. RestoringV1(7)'
    BY <1>5, <1>6, <1>7, <1>14, <2>2, RootPlaces DEF RestoringV1, At, Journal, L, Absent, NoCheckpoint
  <2> QED
    BY <1>5, <1>7, <2>2, <2>3, RootPlaces DEF RootTyped
<1>15. CASE k = 7
  <2>1. Head(todo) = Record(1, "activated") /\ Tail(todo) = Rest(L, 8)
    BY <1>4, <1>8, <1>15
  <2>2. /\ files' = files /\ checkpoint' = [version |-> 1, phase |-> "activated"]
        /\ todo' = Rest(L, 8)
    BY <2>1, RecordEffect
  <2>3. RestoringV1(8)'
    BY <1>5, <1>6, <1>7, <1>15, <2>2, RootPlaces DEF RestoringV1, At, Journal, L, Absent, NoCheckpoint
  <2> QED
    BY <1>5, <1>7, <2>2, <2>3, RootPlaces DEF RootTyped, Checkpoints, PhasesV1, NoCheckpoint
<1>16. CASE k = 8
  <2>1. Head(todo) = Invalidate /\ Tail(todo) = Rest(L, 9)
    BY <1>4, <1>8, <1>16
  <2>2. files' = files /\ checkpoint' = checkpoint /\ todo' = Rest(L, 9)
    BY <2>1, MarkerEffect
  <2>3. RestoringV1(9)'
    BY <1>5, <1>6, <1>7, <1>16, <2>2, RootPlaces DEF RestoringV1, At, Journal, L, Absent, NoCheckpoint
  <2> QED
    BY <1>5, <1>7, <2>2, <2>3, RootPlaces DEF RootTyped
<1>17. CASE k = 9
  <2>1. Head(todo) = Verify /\ Tail(todo) = Rest(L, 10)
    BY <1>4, <1>8, <1>17
  <2>2. files' = files /\ checkpoint' = checkpoint /\ todo' = Rest(L, 10)
    BY <2>1, MarkerEffect
  <2>3. RestoringV1(10)'
    BY <1>5, <1>6, <1>7, <1>17, <2>2, RootPlaces DEF RestoringV1, At, Journal, L, Absent, NoCheckpoint
  <2> QED
    BY <1>5, <1>7, <2>2, <2>3, RootPlaces DEF RootTyped
<1>18. CASE k = 10
  <2>1. Head(todo) = Record(1, "verified") /\ Tail(todo) = Rest(L, 11)
    BY <1>4, <1>8, <1>18
  <2>2. /\ files' = files /\ checkpoint' = [version |-> 1, phase |-> "verified"]
        /\ todo' = Rest(L, 11)
    BY <2>1, RecordEffect
  <2>3. RestoringV1(11)'
    BY <1>5, <1>6, <1>7, <1>18, <2>2, RootPlaces DEF RestoringV1, At, Journal, L, Absent, NoCheckpoint
  <2> QED
    BY <1>5, <1>7, <2>2, <2>3, RootPlaces DEF RootTyped, Checkpoints, PhasesV1, NoCheckpoint
<1> QED
  BY <1>3, <1>9, <1>10, <1>11, <1>12, <1>13, <1>14, <1>15, <1>16, <1>17, <1>18

LEMMA RestoringV2Step ==
  ASSUME WellTyped, target.database \in Whole, NEW k \in 1 .. 18, RestoringV2(k), Step
  PROVE  /\ RootTyped(files, checkpoint, accepted)'
         /\ \E j \in 1 .. 18 : RestoringV2(j)'
<1> DEFINE L == RestoreSteps(2)
<1>1. L \in Seq(AllSteps) /\ Len(L) = 17
  BY StepsV2, Zenon
<1>2. todo = Rest(L, k) /\ todo # <<>>
  BY RoutineKeeps DEF RestoringV2
<1>3. k \in 1 .. 17
  <2> HIDE DEF L
  <2>1. Rest(L, Len(L) + 1) = <<>>
    BY <1>1, RestEnds, Zenon
  <2>2. Len(L) + 1 = 18
    BY <1>1
  <2> QED
    BY <1>2, <2>1, <2>2
<1>4. Head(todo) = L[k] /\ Tail(todo) = Rest(L, k + 1)
  BY <1>1, <1>2, <1>3, RestOf
<1>5. prior' = prior /\ target' = target /\ accepted' = accepted
  BY RoutineKeeps DEF InRoutine, SameRestore, SameRun
<1>6. L' = L
  BY <1>5 DEF RestoreSteps, StageSteps, ActivateSteps
<1>7. /\ files \in [Places -> Contents] /\ checkpoint \in Checkpoints /\ accepted \in BOOLEAN
      /\ target.database \in Contents /\ {Missing, Hollow} \subseteq Contents
  BY BackupContent, RootPlaces DEF WellTyped, RootTyped
<1>8. /\ L[1] = Put("dbStaging", Hollow)
      /\ L[2] = Put("setStaging", Hollow)
      /\ L[3] = Put("dbStaging", target.database)
      /\ L[4] = Put("setStaging", target.database)
      /\ L[5] = Record(2, "verified")
      /\ L[6] = Move("database", "dbDisplaced")
      /\ L[7] = Record(2, "database-displaced")
      /\ L[8] = Move("settings", "setDisplaced")
      /\ L[9] = Record(2, "settings-displaced")
      /\ L[10] = Move("dbStaging", "database")
      /\ L[11] = Record(2, "database-activated")
      /\ L[12] = Move("setStaging", "settings")
      /\ L[13] = Discard({"setStaging"})
      /\ L[14] = Record(2, "settings-activated")
      /\ L[15] = Invalidate
      /\ L[16] = Verify
      /\ L[17] = Record(2, "runtime-healthy")
  BY StepsV2, Zenon
<1> HIDE DEF L
<1>9. CASE k = 1
  <2>1. Head(todo) = Put("dbStaging", Hollow) /\ Tail(todo) = Rest(L, 2)
    BY <1>4, <1>8, <1>9
  <2>2. files' = [files EXCEPT !["dbStaging"] = Hollow] /\ checkpoint' = checkpoint /\ todo' = Rest(L, 2)
    BY <2>1, PutEffect
  <2>3. RestoringV2(2)'
    BY <1>5, <1>6, <1>7, <1>9, <2>2, RootPlaces DEF RestoringV2, At, Journal, L, Absent, NoCheckpoint
  <2> QED
    BY <1>5, <1>7, <2>2, <2>3, RootPlaces DEF RootTyped
<1>10. CASE k = 2
  <2>1. Head(todo) = Put("setStaging", Hollow) /\ Tail(todo) = Rest(L, 3)
    BY <1>4, <1>8, <1>10
  <2>2. files' = [files EXCEPT !["setStaging"] = Hollow] /\ checkpoint' = checkpoint /\ todo' = Rest(L, 3)
    BY <2>1, PutEffect
  <2>3. RestoringV2(3)'
    BY <1>5, <1>6, <1>7, <1>10, <2>2, RootPlaces DEF RestoringV2, At, Journal, L, Absent, NoCheckpoint
  <2> QED
    BY <1>5, <1>7, <2>2, <2>3, RootPlaces DEF RootTyped
<1>11. CASE k = 3
  <2>1. Head(todo) = Put("dbStaging", target.database) /\ Tail(todo) = Rest(L, 4)
    BY <1>4, <1>8, <1>11
  <2>2. files' = [files EXCEPT !["dbStaging"] = target.database] /\ checkpoint' = checkpoint /\ todo' = Rest(L, 4)
    BY <2>1, PutEffect
  <2>3. RestoringV2(4)'
    BY <1>5, <1>6, <1>7, <1>11, <2>2, RootPlaces DEF RestoringV2, At, Journal, L, Absent, NoCheckpoint
  <2> QED
    BY <1>5, <1>7, <2>2, <2>3, RootPlaces DEF RootTyped
<1>12. CASE k = 4
  <2>1. Head(todo) = Put("setStaging", target.database) /\ Tail(todo) = Rest(L, 5)
    BY <1>4, <1>8, <1>12
  <2>2. files' = [files EXCEPT !["setStaging"] = target.database] /\ checkpoint' = checkpoint /\ todo' = Rest(L, 5)
    BY <2>1, PutEffect
  <2>3. RestoringV2(5)'
    BY <1>5, <1>6, <1>7, <1>12, <2>2, RootPlaces DEF RestoringV2, At, Journal, L, Absent, NoCheckpoint
  <2> QED
    BY <1>5, <1>7, <2>2, <2>3, RootPlaces DEF RootTyped
<1>13. CASE k = 5
  <2>1. Head(todo) = Record(2, "verified") /\ Tail(todo) = Rest(L, 6)
    BY <1>4, <1>8, <1>13
  <2>2. /\ files' = files /\ checkpoint' = [version |-> 2, phase |-> "verified"]
        /\ todo' = Rest(L, 6)
    BY <2>1, RecordEffect
  <2>3. RestoringV2(6)'
    BY <1>5, <1>6, <1>7, <1>13, <2>2, RootPlaces DEF RestoringV2, At, Journal, L, Absent, NoCheckpoint
  <2> QED
    BY <1>5, <1>7, <2>2, <2>3, RootPlaces DEF RootTyped, Checkpoints, PhasesV2, NoCheckpoint
<1>14. CASE k = 6
  <2>1. Head(todo) = Move("database", "dbDisplaced") /\ Tail(todo) = Rest(L, 7)
    BY <1>4, <1>8, <1>14
  <2>2. /\ files' = [files EXCEPT !["dbDisplaced"] = files["database"], !["database"] = Missing]
        /\ checkpoint' = checkpoint /\ todo' = Rest(L, 7)
    BY <2>1, MoveEffect DEF LeftBehind
  <2>3. RestoringV2(7)'
    BY <1>5, <1>6, <1>7, <1>14, <2>2, RootPlaces DEF RestoringV2, At, Journal, L, Absent, NoCheckpoint
  <2> QED
    BY <1>5, <1>7, <2>2, <2>3, RootPlaces DEF RootTyped
<1>15. CASE k = 7
  <2>1. Head(todo) = Record(2, "database-displaced") /\ Tail(todo) = Rest(L, 8)
    BY <1>4, <1>8, <1>15
  <2>2. /\ files' = files /\ checkpoint' = [version |-> 2, phase |-> "database-displaced"]
        /\ todo' = Rest(L, 8)
    BY <2>1, RecordEffect
  <2>3. RestoringV2(8)'
    BY <1>5, <1>6, <1>7, <1>15, <2>2, RootPlaces DEF RestoringV2, At, Journal, L, Absent, NoCheckpoint
  <2> QED
    BY <1>5, <1>7, <2>2, <2>3, RootPlaces DEF RootTyped, Checkpoints, PhasesV2, NoCheckpoint
<1>16. CASE k = 8
  <2>1. Head(todo) = Move("settings", "setDisplaced") /\ Tail(todo) = Rest(L, 9)
    BY <1>4, <1>8, <1>16
  <2>2. /\ files' = [files EXCEPT !["setDisplaced"] = files["settings"], !["settings"] = Missing]
        /\ checkpoint' = checkpoint /\ todo' = Rest(L, 9)
    BY <2>1, MoveEffect DEF LeftBehind
  <2>3. RestoringV2(9)'
    BY <1>5, <1>6, <1>7, <1>16, <2>2, RootPlaces DEF RestoringV2, At, Journal, L, Absent, NoCheckpoint
  <2> QED
    BY <1>5, <1>7, <2>2, <2>3, RootPlaces DEF RootTyped
<1>17. CASE k = 9
  <2>1. Head(todo) = Record(2, "settings-displaced") /\ Tail(todo) = Rest(L, 10)
    BY <1>4, <1>8, <1>17
  <2>2. /\ files' = files /\ checkpoint' = [version |-> 2, phase |-> "settings-displaced"]
        /\ todo' = Rest(L, 10)
    BY <2>1, RecordEffect
  <2>3. RestoringV2(10)'
    BY <1>5, <1>6, <1>7, <1>17, <2>2, RootPlaces DEF RestoringV2, At, Journal, L, Absent, NoCheckpoint
  <2> QED
    BY <1>5, <1>7, <2>2, <2>3, RootPlaces DEF RootTyped, Checkpoints, PhasesV2, NoCheckpoint
<1>18. CASE k = 10
  <2>1. Head(todo) = Move("dbStaging", "database") /\ Tail(todo) = Rest(L, 11)
    BY <1>4, <1>8, <1>18
  <2>2. /\ files' = [files EXCEPT !["database"] = files["dbStaging"], !["dbStaging"] = Missing]
        /\ checkpoint' = checkpoint /\ todo' = Rest(L, 11)
    BY <2>1, MoveEffect DEF LeftBehind
  <2>3. RestoringV2(11)'
    BY <1>5, <1>6, <1>7, <1>18, <2>2, RootPlaces DEF RestoringV2, At, Journal, L, Absent, NoCheckpoint
  <2> QED
    BY <1>5, <1>7, <2>2, <2>3, RootPlaces DEF RootTyped
<1>19. CASE k = 11
  <2>1. Head(todo) = Record(2, "database-activated") /\ Tail(todo) = Rest(L, 12)
    BY <1>4, <1>8, <1>19
  <2>2. /\ files' = files /\ checkpoint' = [version |-> 2, phase |-> "database-activated"]
        /\ todo' = Rest(L, 12)
    BY <2>1, RecordEffect
  <2>3. RestoringV2(12)'
    BY <1>5, <1>6, <1>7, <1>19, <2>2, RootPlaces DEF RestoringV2, At, Journal, L, Absent, NoCheckpoint
  <2> QED
    BY <1>5, <1>7, <2>2, <2>3, RootPlaces DEF RootTyped, Checkpoints, PhasesV2, NoCheckpoint
<1>20. CASE k = 12
  <2>1. Head(todo) = Move("setStaging", "settings") /\ Tail(todo) = Rest(L, 13)
    BY <1>4, <1>8, <1>20
  <2>2. /\ files' = [files EXCEPT !["settings"] = files["setStaging"], !["setStaging"] = Hollow]
        /\ checkpoint' = checkpoint /\ todo' = Rest(L, 13)
    BY <2>1, MoveEffect DEF LeftBehind
  <2>3. RestoringV2(13)'
    BY <1>5, <1>6, <1>7, <1>20, <2>2, RootPlaces DEF RestoringV2, At, Journal, L, Absent, NoCheckpoint
  <2> QED
    BY <1>5, <1>7, <2>2, <2>3, RootPlaces DEF RootTyped
<1>21. CASE k = 13
  <2>1. Head(todo) = Discard({"setStaging"}) /\ Tail(todo) = Rest(L, 14)
    BY <1>4, <1>8, <1>21
  <2>2. checkpoint' = checkpoint /\ Lessens({"setStaging"})
    BY <2>1, DiscardEffect
  <2>3. CASE files' = files /\ todo' = Rest(L, 14)
    <3>1. RestoringV2(14)'
      BY <1>5, <1>6, <1>7, <1>21, <2>2, <2>3, RootPlaces DEF RestoringV2, At, Journal, L
    <3> QED
      BY <1>5, <1>7, <2>2, <2>3, <3>1 DEF RootTyped
  <2>4. CASE files' = [files EXCEPT !["setStaging"] = Shrunk("setStaging")] /\ todo' = todo
    <3>1. Shrunk("setStaging") \in {Missing, Hollow}
      BY DEF Shrunk
    <3>2. RestoringV2(13)'
      BY <1>2, <1>5, <1>6, <1>7, <1>21, <2>2, <2>4, <3>1, RootPlaces DEF RestoringV2, At, Journal, L
    <3> QED
      BY <1>5, <1>7, <2>2, <2>4, <3>1, <3>2, RootPlaces DEF RootTyped
  <2> QED
    BY <2>1, <2>2, <2>3, <2>4 DEF Lessens
<1>22. CASE k = 14
  <2>1. Head(todo) = Record(2, "settings-activated") /\ Tail(todo) = Rest(L, 15)
    BY <1>4, <1>8, <1>22
  <2>2. /\ files' = files /\ checkpoint' = [version |-> 2, phase |-> "settings-activated"]
        /\ todo' = Rest(L, 15)
    BY <2>1, RecordEffect
  <2>3. RestoringV2(15)'
    BY <1>5, <1>6, <1>7, <1>22, <2>2, RootPlaces DEF RestoringV2, At, Journal, L, Absent, NoCheckpoint
  <2> QED
    BY <1>5, <1>7, <2>2, <2>3, RootPlaces DEF RootTyped, Checkpoints, PhasesV2, NoCheckpoint
<1>23. CASE k = 15
  <2>1. Head(todo) = Invalidate /\ Tail(todo) = Rest(L, 16)
    BY <1>4, <1>8, <1>23
  <2>2. files' = files /\ checkpoint' = checkpoint /\ todo' = Rest(L, 16)
    BY <2>1, MarkerEffect
  <2>3. RestoringV2(16)'
    BY <1>5, <1>6, <1>7, <1>23, <2>2, RootPlaces DEF RestoringV2, At, Journal, L, Absent, NoCheckpoint
  <2> QED
    BY <1>5, <1>7, <2>2, <2>3, RootPlaces DEF RootTyped
<1>24. CASE k = 16
  <2>1. Head(todo) = Verify /\ Tail(todo) = Rest(L, 17)
    BY <1>4, <1>8, <1>24
  <2>2. files' = files /\ checkpoint' = checkpoint /\ todo' = Rest(L, 17)
    BY <2>1, MarkerEffect
  <2>3. RestoringV2(17)'
    BY <1>5, <1>6, <1>7, <1>24, <2>2, RootPlaces DEF RestoringV2, At, Journal, L, Absent, NoCheckpoint
  <2> QED
    BY <1>5, <1>7, <2>2, <2>3, RootPlaces DEF RootTyped
<1>25. CASE k = 17
  <2>1. Head(todo) = Record(2, "runtime-healthy") /\ Tail(todo) = Rest(L, 18)
    BY <1>4, <1>8, <1>25
  <2>2. /\ files' = files /\ checkpoint' = [version |-> 2, phase |-> "runtime-healthy"]
        /\ todo' = Rest(L, 18)
    BY <2>1, RecordEffect
  <2>3. RestoringV2(18)'
    BY <1>5, <1>6, <1>7, <1>25, <2>2, RootPlaces DEF RestoringV2, At, Journal, L, Absent, NoCheckpoint
  <2> QED
    BY <1>5, <1>7, <2>2, <2>3, RootPlaces DEF RootTyped, Checkpoints, PhasesV2, NoCheckpoint
<1> QED
  BY <1>3, <1>9, <1>10, <1>11, <1>12, <1>13, <1>14, <1>15, <1>16, <1>17, <1>18, <1>19, <1>20, <1>21, <1>22, <1>23, <1>24, <1>25

LEMMA RestoringEnds ==
  ASSUME WellTyped, Restoring, todo = <<>>
  PROVE  Standing /\ Owners = target
<1>1. target.database \in Whole /\ target.database # Missing /\ target.settings # Missing
  BY BackupContent DEF Restoring, WellTyped
<1>2. files["database"] = target.database /\ files["settings"] = target.settings
  <2>1. ASSUME NEW k \in 1 .. 11, RestoringV1(k)
        PROVE  files["database"] = target.database /\ files["settings"] = target.settings
    <3> DEFINE L == RestoreSteps(1)
    <3>1. L \in Seq(AllSteps) /\ Len(L) = 10
      BY <1>1, StepsV1, Zenon
    <3>2. Rest(L, k) = <<>>
      BY <2>1 DEF RestoringV1
    <3> HIDE DEF L
    <3>4. ~(k \in 1 .. Len(L))
      BY <3>1, <3>2, RestOf, Zenon
    <3>3. k = 11
      BY <3>1, <3>4
    <3> QED
      BY <2>1, <3>3 DEF RestoringV1
  <2>2. ASSUME NEW k \in 1 .. 18, RestoringV2(k)
        PROVE  files["database"] = target.database /\ files["settings"] = target.settings
    <3> DEFINE L == RestoreSteps(2)
    <3>1. L \in Seq(AllSteps) /\ Len(L) = 17
      BY <1>1, StepsV2, Zenon
    <3>2. Rest(L, k) = <<>>
      BY <2>2 DEF RestoringV2
    <3> HIDE DEF L
    <3>4. ~(k \in 1 .. Len(L))
      BY <3>1, <3>2, RestOf, Zenon
    <3>3. k = 18
      BY <3>1, <3>4
    <3> QED
      BY <2>2, <3>3 DEF RestoringV2
  <2> QED
    BY <2>1, <2>2 DEF Restoring
<1> QED
  BY <1>1, <1>2 DEF Standing, Absent, Owners, WellTyped

-----------------------------------------------------------------------------
(* What is written back.                                                   *)

LEMMA WritesOf ==
  ASSUME NEW W \in SUBSET Keys
  PROVE  /\ Writes(W) \in Seq(AllSteps)
         /\ W = {} => Writes(W) = <<>>
         /\ W # {} => \E r \in W : Writes(W) = <<WriteKey(r)>> \o Writes(W \ {r})
<1> DEFINE s == WriteKey("secret")  a == WriteKey("admin")  c == WriteKey("account")
           x(V) == When("secret" \in V, s)  y(V) == When("admin" \in V, a)
           z(V) == When("account" \in V, c)
<1>1. s \in AllSteps /\ a \in AllSteps /\ c \in AllSteps
  BY StepKinds DEF WriteKey, Keys
<1>2. \A V : Writes(V) = (x(V) \o y(V)) \o z(V)
  BY DEF Writes
<1> HIDE DEF s, a, c
<1>3. \A V : /\ x(V) = IF "secret" \in V THEN <<s>> ELSE <<>>
             /\ y(V) = IF "admin" \in V THEN <<a>> ELSE <<>>
             /\ z(V) = IF "account" \in V THEN <<c>> ELSE <<>>
  BY DEF When
<1> HIDE DEF x, y, z
<1>4. <<s>> \in Seq(AllSteps) /\ <<a>> \in Seq(AllSteps) /\ <<c>> \in Seq(AllSteps) /\ <<>> \in Seq(AllSteps)
  BY <1>1
<1>5. \A V : x(V) \in Seq(AllSteps) /\ y(V) \in Seq(AllSteps) /\ z(V) \in Seq(AllSteps)
  BY <1>3, <1>4
<1>6. \A V : Writes(V) \in Seq(AllSteps)
  <2> TAKE V
  <2>1. x(V) \o y(V) \in Seq(AllSteps)
    BY <1>5, ConcatLen, Zenon
  <2> QED
    BY <1>2, <1>5, <2>1, ConcatLen, Zenon
<1>7. \A t \in Seq(AllSteps) : <<>> \o t = t /\ t \o <<>> = t
  BY ConcatEmptySeq
<1>8. CASE "secret" \in W
  <2> DEFINE V == W \ {"secret"}
  <2>1. x(W) = <<s>> /\ x(V) = <<>> /\ y(V) = y(W) /\ z(V) = z(W)
    BY <1>3, <1>8
  <2> HIDE DEF V
  <2>2. Writes(W) = <<s>> \o (y(W) \o z(W))
    <3> DEFINE p == <<s>>  q == y(W)  r == z(W)
    <3>1. p \in Seq(AllSteps) /\ q \in Seq(AllSteps) /\ r \in Seq(AllSteps)
      BY <1>4, <1>5, Zenon
    <3>2. Writes(W) = (p \o q) \o r
      BY <1>2, <2>1, Zenon
    <3> HIDE DEF p, q, r
    <3>3. (p \o q) \o r = p \o (q \o r)
      BY <3>1, Assoc, Zenon
    <3> QED
      BY <3>2, <3>3, Zenon DEF p, q, r
  <2>3. Writes(V) = y(W) \o z(W)
    BY <1>2, <1>5, <1>7, <2>1, Zenon
  <2> QED
    BY <1>6, <1>8, <2>2, <2>3, Zenon DEF s, V
<1>9. CASE "secret" \notin W /\ "admin" \in W
  <2> DEFINE V == W \ {"admin"}
  <2>1. x(W) = <<>> /\ x(V) = <<>> /\ y(W) = <<a>> /\ y(V) = <<>> /\ z(V) = z(W)
    BY <1>3, <1>9
  <2> HIDE DEF V
  <2>2. Writes(W) = <<a>> \o z(W)
    BY <1>2, <1>4, <1>7, <2>1, Zenon
  <2>3. Writes(V) = z(W)
    BY <1>2, <1>4, <1>5, <1>7, <2>1, Zenon
  <2> QED
    BY <1>6, <1>9, <2>2, <2>3, Zenon DEF a, V
<1>10. CASE "secret" \notin W /\ "admin" \notin W /\ "account" \in W
  <2> DEFINE V == W \ {"account"}
  <2>1. x(W) = <<>> /\ x(V) = <<>> /\ y(W) = <<>> /\ y(V) = <<>> /\ z(W) = <<c>> /\ z(V) = <<>>
    BY <1>3, <1>10
  <2> HIDE DEF V
  <2>2. Writes(W) = <<c>>
    BY <1>2, <1>4, <1>7, <2>1, Zenon
  <2>3. Writes(V) = <<>>
    BY <1>2, <1>4, <1>7, <2>1, Zenon
  <2>4. <<c>> \o <<>> = <<c>>
    BY <1>4, <1>7, Zenon
  <2> QED
    BY <1>6, <1>10, <2>2, <2>3, <2>4, Zenon DEF c, V
<1>11. CASE W = {}
  <2>1. x(W) = <<>> /\ y(W) = <<>> /\ z(W) = <<>>
    BY <1>3, <1>11
  <2>2. Writes(W) = <<>>
    BY <1>2, <1>4, <1>7, <2>1, Zenon
  <2> QED
    BY <1>6, <1>11, <2>2
<1>12. W = {} \/ "secret" \in W \/ "admin" \in W \/ "account" \in W
  BY DEF Keys
<1> QED
  BY <1>8, <1>9, <1>10, <1>11, <1>12, Zenon

LEMMA WritesOnly ==
  ASSUME NEW W \in SUBSET Keys
  PROVE  Writes(W) \in Seq({WriteKey(r) : r \in Keys})
<1> DEFINE S == {WriteKey(r) : r \in Keys}
           x == When("secret" \in W, WriteKey("secret"))
           y == When("admin" \in W, WriteKey("admin"))
           z == When("account" \in W, WriteKey("account"))
<1>1. WriteKey("secret") \in S /\ WriteKey("admin") \in S /\ WriteKey("account") \in S
  BY DEF Keys
<1> HIDE DEF S
<1>2. x \in Seq(S) /\ y \in Seq(S) /\ z \in Seq(S)
  BY <1>1 DEF When
<1> HIDE DEF x, y, z
<1>3. x \o y \in Seq(S)
  BY <1>2, ConcatLen, Zenon
<1>4. (x \o y) \o z \in Seq(S)
  BY <1>2, <1>3, ConcatLen, Zenon
<1> QED
  BY <1>4, Zenon DEF Writes, x, y, z, S

\* The last step of a roll-back is the return, and nothing but the last.
LEMMA WithoutReturnOf ==
  ASSUME NEW W \in SUBSET Keys
  PROVE  /\ WithoutReturn(Writes(W)) = Writes(W)
         /\ WithoutReturn(Writes(W) \o <<ReturnRoot>>) = Writes(W)
<1> DEFINE s == Writes(W)  t == <<ReturnRoot>>  u == s \o t
<1>1. s \in Seq(AllSteps) /\ t \in Seq(AllSteps) /\ Len(t) = 1 /\ t[1] = ReturnRoot
  BY WritesOf, StepKinds
<1>2. \A r \in Keys : WriteKey(r) # ReturnRoot
  BY DEF WriteKey, ReturnRoot
<1>3. s \in Seq({WriteKey(r) : r \in Keys})
  BY WritesOnly, Zenon
<1> HIDE DEF s, t
<1>4. s # <<>> => s[Len(s)] \in {WriteKey(r) : r \in Keys}
  BY <1>3
<1>5. WithoutReturn(s) = s
  BY <1>2, <1>4 DEF WithoutReturn
<1>6. Joined(AllSteps, u, s, t, Len(s), 1)
  BY <1>1, Concat, Zenon
<1> HIDE DEF u
<1>7. /\ u \in Seq(AllSteps) /\ Len(u) = Len(s) + 1 /\ Len(s) \in Nat
      /\ \A i \in 1 .. Len(s) : u[i] = s[i]
      /\ u[Len(s) + 1] = ReturnRoot
  BY <1>1, <1>6 DEF Joined
<1>8. u # <<>> /\ u[Len(u)] = ReturnRoot
  BY <1>7
<1>9. SubSeq(u, 1, Len(u) - 1) = s
  <2> DEFINE v == SubSeq(u, 1, Len(s))
  <2>1. v \in Seq(AllSteps) /\ Len(v) = Len(s) /\ \A i \in 1 .. Len(s) : v[i] = u[i]
    BY <1>7
  <2> HIDE DEF v
  <2>2. v = s
    BY <1>1, <1>7, <2>1, SameElements
  <2>3. Len(u) - 1 = Len(s)
    BY <1>7
  <2> QED
    BY <2>2, <2>3, Zenon DEF v
<1>10. WithoutReturn(u) = s
  BY <1>8, <1>9, Zenon DEF WithoutReturn
<1> QED
  BY <1>5, <1>10, Zenon DEF s, t, u
-----------------------------------------------------------------------------
(* Each routine has steps of its own.                                      *)

FileOps == {"put", "move", "discard", "record", "forget", "invalidate", "verify"}

LEMMA FileSteps ==
  /\ \A p, c : Put(p, c).op \in FileOps
  /\ \A p, q : Move(p, q).op \in FileOps
  /\ \A ps : Discard(ps).op \in FileOps
  /\ \A v, f : Record(v, f).op \in FileOps
  /\ Forget.op \in FileOps /\ Invalidate.op \in FileOps /\ Verify.op \in FileOps
BY DEF FileOps, Put, Move, Discard, Record, Forget, Invalidate, Verify

LEMMA TailHeads ==
  /\ \A r \in EndTails : Head(r).op \in FileOps
  /\ \A r : UndoTail(r) => Head(r).op \in FileOps
  /\ \A r : FinishTail(r) => Head(r).op \in FileOps
<1>1. \A r \in EndTails : Head(r).op \in FileOps
  <2> TAKE r \in EndTails
  <2>1. /\ Forget \in AllSteps /\ Discard({"dbStaging"}) \in AllSteps
        /\ Discard({"setStaging"}) \in AllSteps
    BY ShortSteps
  <2>2. Head(r) \in {Forget, Discard({"dbStaging"}), Discard({"setStaging"})}
    BY <2>1, Short DEF EndTails
  <2> QED
    BY <2>2, FileSteps
<1>2. \A r \in SetTails : Head(r).op \in FileOps
  <2>1. \A r \in EndTails : r \in Seq(AllSteps)
    BY TailsOfTails
  <2>2. \A r \in EndTails : Head(SetBack(r)).op \in FileOps /\ Head(SetSwap(r)).op \in FileOps
    BY <2>1, TailsOfTails, FileSteps
  <2> QED
    BY <1>1, <2>2 DEF SetTails
<1>3. \A r : UndoTail(r) => Head(r).op \in FileOps
  <2>1. \A r \in SetTails : r \in Seq(AllSteps)
    BY TailsOfTails
  <2>2. \A r \in SetTails : Head(DbBack(r)).op \in FileOps /\ Head(DbSwap(r)).op \in FileOps
    BY <2>1, TailsOfTails, FileSteps
  <2> QED
    BY <1>2, <2>2, KnownTails DEF UndoTail
<1>4. \A r : FinishTail(r) => Head(r).op \in FileOps
  <2> TAKE r
  <2>1. /\ Forget \in AllSteps /\ Discard({"dbDisplaced"}) \in AllSteps
        /\ Discard(FinishPlaces) \in AllSteps /\ Record(2, "finalized") \in AllSteps
    BY ShortSteps
  <2>2. FinishTail(r) => Head(r) \in {Forget, Discard({"dbDisplaced"}), Discard(FinishPlaces), Record(2, "finalized")}
    BY <2>1, Short DEF FinishTail
  <2> QED
    BY <2>2, FileSteps
<1> QED
  BY <1>1, <1>3, <1>4

LEMMA RecoveringHead ==
  ASSUME Recovering \/ Finalizing, todo # <<>>
  PROVE  Head(todo).op \in FileOps
<1> DEFINE all == {"dbStaging", "setStaging", "orphan"}
<1>1. Discard(all) \in AllSteps /\ Discard({"dbStaging"}) \in AllSteps
  BY ShortSteps
<1>2. CASE todo \in {<<Discard(all)>>, <<Discard({"dbStaging"})>>}
  BY <1>1, <1>2, Short, FileSteps
<1>3. CASE UndoTail(todo) \/ FinishTail(todo)
  BY <1>3, TailHeads
<1> QED
  BY <1>2, <1>3 DEF Recovering, Finalizing

LEMMA RestoringHead ==
  ASSUME Restoring, todo # <<>>
  PROVE  Head(todo).op \in FileOps
<1> DEFINE T == {s \in AllSteps : s.op \in FileOps}
           n == target.database
<1>1. target.database \in Contents
  BY BackupContent DEF Restoring
<1>2. /\ \A p \in Places, c \in Contents : Put(p, c) \in T
      /\ \A p \in Places, q \in Places : Move(p, q) \in T
      /\ \A ps \in SUBSET Places : Discard(ps) \in T
      /\ \A v \in {1, 2}, f \in PhasesV1 \cup PhasesV2 : Record(v, f) \in T
      /\ Invalidate \in T /\ Verify \in T
  BY StepKinds, FileSteps
<1> HIDE DEF T
<1>3. /\ Put("dbStaging", Hollow) \in T /\ Put("dbStaging", n) \in T
      /\ Put("setStaging", Hollow) \in T /\ Put("setStaging", n) \in T
      /\ Move("database", "dbDisplaced") \in T /\ Move("dbStaging", "database") \in T
      /\ Move("settings", "setDisplaced") \in T /\ Move("setStaging", "settings") \in T
      /\ Invalidate \in T /\ Verify \in T /\ Discard({"setStaging"}) \in T
  BY <1>1, <1>2, RootPlaces
<1>4. /\ Record(1, "prepared") \in T /\ Record(1, "displaced") \in T
      /\ Record(1, "activated") \in T /\ Record(1, "verified") \in T
      /\ Record(2, "verified") \in T /\ Record(2, "database-displaced") \in T
      /\ Record(2, "settings-displaced") \in T /\ Record(2, "database-activated") \in T
      /\ Record(2, "settings-activated") \in T /\ Record(2, "runtime-healthy") \in T
  BY <1>2 DEF PhasesV1, PhasesV2
<1>5. StageSteps(1, n) \in Seq(T) /\ StageSteps(2, n) \in Seq(T)
  BY <1>3 DEF StageSteps
<1>6. ActivateSteps(1) \in Seq(T)
  BY <1>3, <1>4 DEF ActivateSteps
<1>7. ActivateSteps(2) \in Seq(T)
  BY <1>3, <1>4 DEF ActivateSteps
<1>8. RestoreSteps(1) \in Seq(T) /\ RestoreSteps(2) \in Seq(T)
  BY <1>5, <1>6, <1>7, ConcatLen, Zenon DEF RestoreSteps
<1>9. \A s \in Seq(T), k \in Nat \ {0} : Rest(s, k) \in Seq(T)
  BY DEF Rest
<1>10. todo \in Seq(T)
  <2>1. \A k \in 1 .. 18 : k \in Nat \ {0}
    OBVIOUS
  <2>2. \/ \E k \in 1 .. 18 : todo = Rest(RestoreSteps(1), k)
        \/ \E k \in 1 .. 18 : todo = Rest(RestoreSteps(2), k)
    <3>1. \A k \in 1 .. 11 : k \in 1 .. 18
      OBVIOUS
    <3> QED
      BY <3>1, Zenon DEF Restoring, RestoringV1, RestoringV2
  <2> QED
    BY <1>8, <1>9, <2>1, <2>2, Zenon
<1>11. Head(todo) \in T
  BY <1>10
<1> QED
  BY <1>11 DEF T

LEMMA CleaningHead ==
  ASSUME todo \in {<<Discard({"dbStaging", "setStaging"})>>, <<>>}, todo # <<>>
  PROVE  /\ Head(todo) = Discard({"dbStaging", "setStaging"}) /\ Tail(todo) = <<>>
         /\ Head(todo).op \in FileOps
<1>1. Discard({"dbStaging", "setStaging"}) \in AllSteps
  BY ShortSteps
<1>2. Head(todo) = Discard({"dbStaging", "setStaging"}) /\ Tail(todo) = <<>>
  BY <1>1, Short
<1> QED
  BY <1>2, FileSteps

\* Only a reset and its roll-back touch the root as a whole and the Keychain.
LEMMA ResetOps ==
  ASSUME JournalInv, ResetStep
  PROVE  /\ todo # <<>> /\ Head(todo).op \notin FileOps
         /\ mode \in {"resetting", "reverting"}
<1>1. todo # <<>> /\ Head(todo).op \notin FileOps
  BY DEF ResetStep, BackUpStep, MoveRootStep, ReturnRootStep, ReadKeyStep, DeleteKeyStep,
         WriteKeyStep, Doing, FileOps
<1>2. /\ mode \in {"recovering", "undoing", "backing-out"} => Recovering
      /\ mode = "finalizing" => Finalizing
      /\ mode = "restoring" => Restoring
      /\ mode = "cleaning" => todo \in {<<Discard({"dbStaging", "setStaging"})>>, <<>>}
      /\ mode \notin {"down", "opened", "starting", "serving", "idle", "stopped"}
  BY <1>1 DEF JournalInv, Point
<1>3. /\ mode \notin {"recovering", "undoing", "backing-out", "finalizing"}
      /\ mode # "restoring" /\ mode # "cleaning"
  BY <1>1, <1>2, RecoveringHead, RestoringHead, CleaningHead
<1> QED
  BY <1>1, <1>2, <1>3 DEF JournalInv, WellTyped, Modes

\* The step that a reset has come to.
LEMMA ResettingHead ==
  ASSUME NEW k \in 1 .. 9, todo = Rest(ResetSteps, k), todo # <<>>
  PROVE  /\ k \in 1 .. 8 /\ Tail(todo) = Rest(ResetSteps, k + 1)
         /\ k = 1 => Head(todo) = BackUp
         /\ k = 2 => Head(todo) = MoveRoot
         /\ k \in 3 .. 5 => Head(todo) = KeyStep("readKey", Records[k - 2])
         /\ k \in 6 .. 8 => Head(todo) = KeyStep("deleteKey", Records[k - 5])
<1> DEFINE L == ResetSteps
<1>1. L \in Seq(AllSteps) /\ Len(L) = 8
  BY StepsOfReset
<1>2. Records[1] = "secret" /\ Records[2] = "admin" /\ Records[3] = "account"
  BY DEF Records
<1>3. /\ L[1] = BackUp /\ L[2] = MoveRoot
      /\ L[3] = KeyStep("readKey", Records[1]) /\ L[4] = KeyStep("readKey", Records[2])
      /\ L[5] = KeyStep("readKey", Records[3])
      /\ L[6] = KeyStep("deleteKey", Records[1]) /\ L[7] = KeyStep("deleteKey", Records[2])
      /\ L[8] = KeyStep("deleteKey", Records[3])
  BY <1>2, StepsOfReset, Zenon
<1> HIDE DEF L
<1>4. Rest(L, Len(L) + 1) = <<>>
  BY <1>1, RestEnds, Zenon
<1>5. k \in 1 .. 8 /\ k \in 1 .. Len(L)
  <2>1. k # Len(L) + 1
    BY <1>4, Zenon DEF L
  <2> QED
    BY <1>1, <2>1
<1>6. Head(todo) = L[k] /\ Tail(todo) = Rest(L, k + 1)
  BY <1>1, <1>5, RestOf DEF L
<1>7. Tail(todo) = Rest(ResetSteps, k + 1)
  BY <1>6 DEF L
<1>8. /\ k \in 3 .. 5 => L[k] = KeyStep("readKey", Records[k - 2])
      /\ k \in 6 .. 8 => L[k] = KeyStep("deleteKey", Records[k - 5])
  <2>1. CASE k \in {3, 4, 5}
    BY <1>3, <2>1
  <2>2. CASE k \in {6, 7, 8}
    BY <1>3, <2>2
  <2> QED
    BY <1>5, <2>1, <2>2
<1> QED
  BY <1>3, <1>5, <1>6, <1>7, <1>8

LEMMA RecordsOf ==
  /\ Records[1] = "secret" /\ Records[2] = "admin" /\ Records[3] = "account"
  /\ \A i \in 1 .. 3 : Records[i] \in Keys
  /\ \A i, j \in 1 .. 3 : Records[i] = Records[j] => i = j
  /\ \A r \in Keys : \E i \in 1 .. 3 : Records[i] = r
<1>1. Records[1] = "secret" /\ Records[2] = "admin" /\ Records[3] = "account"
  BY DEF Records
<1>2. \A i \in 1 .. 3 : i = 1 \/ i = 2 \/ i = 3
  OBVIOUS
<1> QED
  BY <1>1, <1>2 DEF Keys
-----------------------------------------------------------------------------
(* Where a step leaves the process.                                        *)

Idle == {"down", "idle"}

LEMMA PointIdle ==
  ASSUME mode' \in Idle, todo' = <<>>
  PROVE  Point'
BY DEF Point, Idle

LEMMA PointRecovering ==
  ASSUME mode' \in {"recovering", "backing-out"}, Recovering'
  PROVE  Point'
BY DEF Point

LEMMA PointUndoing ==
  ASSUME mode' = "undoing", Recovering', ~accepted'
  PROVE  Point'
BY DEF Point

LEMMA PointFinalizing ==
  ASSUME mode' = "finalizing", Finalizing', served' # Unserved
  PROVE  Point'
BY DEF Point

LEMMA PointRestoring ==
  ASSUME mode' = "restoring", Restoring'
  PROVE  Point'
BY DEF Point

LEMMA PointCleaning ==
  ASSUME mode' = "cleaning", ~accepted',
         todo' \in {<<Discard({"dbStaging", "setStaging"})>>, <<>>}
  PROVE  Point'
BY DEF Point

LEMMA PointResetting ==
  ASSUME mode' = "resetting", Resetting'
  PROVE  Point'
BY DEF Point

LEMMA PointReverting ==
  ASSUME mode' = "reverting", Reverting'
  PROVE  Point'
BY DEF Point

\* What leaves all but the process alone leaves the root and its records alone.
LEMMA RootStays ==
  ASSUME WellTyped, RootNow, Credentials, UNCHANGED <<files, checkpoint, accepted, prior, target>>
  PROVE  /\ RootNow'
         /\ UNCHANGED <<keys, served>> => Credentials'
<1>1. RootNow'
  BY SameRoot DEF RootNow
<1>2. UNCHANGED <<keys, served>> => Credentials'
  BY DEF Credentials
<1> QED
  BY <1>1, <1>2

LEMMA QuarantineStays ==
  ASSUME InQuarantine,
         UNCHANGED <<files, checkpoint, accepted, served, quarantine, prior, target>>
  PROVE  InQuarantine'
<1>1. NoRoot'
  BY DEF InQuarantine, NoRoot, Journal
<1>2. Quarantined' = Quarantined
  BY DEF Quarantined
<1>3. RootInv(Quarantined.files, Quarantined.checkpoint, Quarantined.accepted)'
  BY <1>2 DEF InQuarantine, RootInv, RootTyped, Undisturbed, Recoverable, OwnerHeld, Whether
<1> QED
  BY <1>1, <1>2, <1>3 DEF InQuarantine

-----------------------------------------------------------------------------
(* A reset, step by step.                                                  *)

LEMMA UnreadKeys ==
  /\ Unread = MaxResets + 2 /\ Unserved \in [Keys -> 0 .. MaxResets + 2]
  /\ Every(Unread) \in [Keys -> 0 .. MaxResets + 2]
  /\ \A r \in Keys : Every(Unread)[r] = Unread /\ Unserved[r] = Unread
  /\ \A f \in [Keys -> 0 .. MaxResets + 1] : f # Unserved
<1>1. MaxResets \in Nat
  BY BoundsAreNaturals
<1>2. "secret" \in Keys
  BY DEF Keys
<1> QED
  BY <1>1, <1>2 DEF Unread, Unserved, Every

LEMMA EmptyRoot ==
  ASSUME files' = [p \in Places |-> Missing], checkpoint' = NoCheckpoint, accepted' = TRUE
  PROVE  RootNow'
BY RootPlaces DEF RootNow, RootInv, RootTyped, Undisturbed, NoCheckpoint, Checkpoints

LEMMA BackUpKeeps ==
  ASSUME JournalInv, mode = "resetting", BackUpStep
  PROVE  JournalInv'
<1>1. PICK k \in 1 .. 9 : /\ todo = Rest(ResetSteps, k)
                          /\ k <= 2 => values = Every(Unread)
                          /\ k > 2 => InQuarantine
                          /\ k > 2 /\ Quarantined.served # Unserved =>
                               \A i \in 1 .. 3 : RecordKept(i, k)
                          /\ \A i \in 1 .. 3 : k > i + 5 => keys[Records[i]] = 0
  BY DEF JournalInv, Point, Resetting
<1>2. todo # <<>> /\ Head(todo).op = "backUp"
  BY DEF BackUpStep, Doing
<1>3. k = 1 /\ Tail(todo) = Rest(ResetSteps, 2)
  <2>0. /\ k \in 1 .. 8
        /\ k = 1 => Head(todo) = BackUp
        /\ k = 2 => Head(todo) = MoveRoot
        /\ k \in 3 .. 5 => Head(todo) = KeyStep("readKey", Records[k - 2])
        /\ k \in 6 .. 8 => Head(todo) = KeyStep("deleteKey", Records[k - 5])
    BY <1>1, <1>2, ResettingHead
  <2>1. k = 1
    BY <1>2, <2>0 DEF BackUp, MoveRoot, KeyStep
  <2>2. Tail(todo) = Rest(ResetSteps, k + 1) /\ k + 1 = 2
    BY <1>1, <1>2, <2>1, ResettingHead
  <2> QED
    BY <2>1, <2>2
<1>4. /\ todo' = Rest(ResetSteps, 2) /\ mode' = "resetting" /\ values' = values
      /\ UNCHANGED <<files, checkpoint, accepted, prior, target, keys, served>>
      /\ UNCHANGED <<marker, pending, mem, restores, troubles, resets, quarantine>>
  BY <1>3 DEF BackUpStep, StepDone, SameDisk, InRoutine, SameRestore, SameRun, NoTrouble
<1>5. ResetSteps' = ResetSteps
  BY DEF ResetSteps, ForKeys
<1>6. Resetting'
  <2>1. 2 \in 1 .. 9 /\ ~(2 > 2) /\ \A i \in 1 .. 3 : ~(2 > i + 5)
    OBVIOUS
  <2> QED
    BY <1>1, <1>3, <1>4, <1>5, <2>1 DEF Resetting, Rest
<1>7. RootNow' /\ Credentials'
  BY <1>4, RootStays DEF JournalInv, RootNow
<1>8. WellTyped'
  BY <1>4 DEF JournalInv, WellTyped, RootTyped
<1> QED
  BY <1>4, <1>6, <1>7, <1>8, PointResetting DEF JournalInv, RootNow

LEMMA MoveRootKeeps ==
  ASSUME JournalInv, mode = "resetting", MoveRootStep
  PROVE  JournalInv'
<1> DEFINE root == [files |-> files, checkpoint |-> checkpoint, marker |-> marker,
                    accepted |-> accepted, served |-> served]
<1>1. PICK k \in 1 .. 9 : /\ todo = Rest(ResetSteps, k)
                          /\ k <= 2 => values = Every(Unread)
  BY DEF JournalInv, Point, Resetting
<1>2. todo # <<>> /\ Head(todo).op = "moveRoot"
  BY DEF MoveRootStep, Doing
<1>3. k = 2 /\ Tail(todo) = Rest(ResetSteps, 3)
  <2>0. /\ k \in 1 .. 8
        /\ k = 1 => Head(todo) = BackUp
        /\ k = 2 => Head(todo) = MoveRoot
        /\ k \in 3 .. 5 => Head(todo) = KeyStep("readKey", Records[k - 2])
        /\ k \in 6 .. 8 => Head(todo) = KeyStep("deleteKey", Records[k - 5])
    BY <1>1, <1>2, ResettingHead
  <2>1. k = 2
    BY <1>2, <2>0 DEF BackUp, MoveRoot, KeyStep
  <2>2. Tail(todo) = Rest(ResetSteps, k + 1) /\ k + 1 = 3
    BY <1>1, <1>2, <2>1, ResettingHead
  <2> QED
    BY <2>1, <2>2
<1>4. /\ todo' = Rest(ResetSteps, 3) /\ mode' = "resetting" /\ quarantine' = <<root>>
      /\ files' = [p \in Places |-> Missing] /\ checkpoint' = NoCheckpoint /\ marker' = FALSE
      /\ accepted' = TRUE /\ served' = Unserved
      /\ UNCHANGED <<keys, values, prior, target>>
      /\ UNCHANGED <<pending, mem, restores, troubles, resets>>
  BY <1>3 DEF MoveRootStep, StepDone, InReset, NoTrouble
<1>5. ResetSteps' = ResetSteps
  BY DEF ResetSteps, ForKeys
<1>6. RootNow'
  BY <1>4, EmptyRoot
<1>7. Quarantined' = root /\ quarantine' = <<root>>
  BY <1>4 DEF Quarantined
<1>8. RootInv(files, checkpoint, accepted) /\ Credentials /\ WellTyped
  BY DEF JournalInv
<1>9. RootInv(Quarantined.files, Quarantined.checkpoint, Quarantined.accepted)'
  BY <1>4, <1>7, <1>8 DEF RootInv, RootTyped, Undisturbed, Recoverable, OwnerHeld, Whether
<1>10. InQuarantine'
  <2>1. NoRoot'
    BY <1>4 DEF NoRoot, Journal
  <2>2. /\ (Quarantined.marker \in BOOLEAN)'
        /\ (Quarantined.served \in [Keys -> 0 .. MaxResets + 2])'
        /\ (Quarantined.served # Unserved => Usable(Quarantined.served))'
    BY <1>7, <1>8 DEF WellTyped, Credentials, Usable
  <2> QED
    BY <1>7, <1>9, <2>1, <2>2 DEF InQuarantine
<1>11. \A i \in 1 .. 3 : (Quarantined.served # Unserved)' => RecordKept(i, 3)'
  BY <1>1, <1>3, <1>4, <1>7, <1>8, RecordsOf, UnreadKeys DEF RecordKept, Credentials
<1>12. Resetting'
  <2>1. 3 \in 1 .. 9 /\ ~(3 <= 2) /\ \A i \in 1 .. 3 : ~(3 > i + 5)
    OBVIOUS
  <2> QED
    BY <1>4, <1>5, <1>10, <1>11, <2>1 DEF Resetting, Rest
<1>13. WellTyped' /\ Credentials'
  BY <1>4, <1>6, <1>8, UnreadKeys DEF RootNow, RootInv, WellTyped, Credentials
<1> QED
  BY <1>4, <1>6, <1>12, <1>13, PointResetting DEF JournalInv, RootNow

LEMMA ReadKeyKeeps ==
  ASSUME JournalInv, mode = "resetting", ReadKeyStep
  PROVE  JournalInv'
<1>1. PICK k \in 1 .. 9 : /\ todo = Rest(ResetSteps, k)
                          /\ k > 2 => InQuarantine
                          /\ k > 2 /\ Quarantined.served # Unserved =>
                               \A i \in 1 .. 3 : RecordKept(i, k)
                          /\ \A i \in 1 .. 3 : k > i + 5 => keys[Records[i]] = 0
  BY DEF JournalInv, Point, Resetting
<1>2. todo # <<>> /\ Head(todo).op = "readKey"
  BY DEF ReadKeyStep, Doing
<1>3. k \in 3 .. 5 /\ Head(todo) = KeyStep("readKey", Records[k - 2]) /\ Tail(todo) = Rest(ResetSteps, k + 1)
  BY <1>1, <1>2, ResettingHead DEF BackUp, MoveRoot, KeyStep
<1> DEFINE r == Records[k - 2]
<1>4. r \in Keys /\ Head(todo).key = r /\ keys[r] \in 0 .. MaxResets + 2
  BY <1>3, RecordsOf, BoundsAreNaturals DEF KeyStep, JournalInv, WellTyped
<1>5. /\ todo' = Rest(ResetSteps, k + 1) /\ mode' = "resetting"
      /\ values' = [values EXCEPT ![r] = keys[r]]
      /\ UNCHANGED <<files, checkpoint, accepted, prior, target, keys, served, quarantine>>
      /\ UNCHANGED <<marker, pending, mem, restores, troubles, resets>>
  BY <1>3, <1>4 DEF ReadKeyStep, StepDone, SameDisk, InReset, NoTrouble
<1>6. ResetSteps' = ResetSteps
  BY DEF ResetSteps, ForKeys
<1>7. InQuarantine' /\ Quarantined' = Quarantined
  BY <1>1, <1>3, <1>5, QuarantineStays DEF Quarantined
<1>8. values \in [Keys -> 0 .. MaxResets + 2]
  BY DEF JournalInv, WellTyped
<1>9. ASSUME Quarantined.served # Unserved, NEW i \in 1 .. 3
      PROVE  RecordKept(i, k + 1)'
  <2>1. RecordKept(i, k)
    BY <1>1, <1>3, <1>9
  <2>2. Records[i] \in Keys /\ (Records[i] = r <=> k = i + 2)
    BY <1>3, RecordsOf
  <2>3. values'[Records[i]] = IF k = i + 2 THEN keys[Records[i]] ELSE values[Records[i]]
    BY <1>5, <1>8, <2>2
  <2> QED
    BY <1>3, <1>5, <1>7, <2>1, <2>3 DEF RecordKept
<1>10. Resetting'
  <2>1. k + 1 \in 1 .. 9 /\ ~(k + 1 <= 2) /\ \A i \in 1 .. 3 : ~(k + 1 > i + 5)
    BY <1>3
  <2> QED
    BY <1>5, <1>6, <1>7, <1>9, <2>1 DEF Resetting, Rest
<1>11. RootNow' /\ Credentials'
  BY <1>5, RootStays DEF JournalInv, RootNow
<1>12. WellTyped'
  BY <1>4, <1>5, <1>8 DEF JournalInv, WellTyped, RootTyped
<1> QED
  BY <1>5, <1>10, <1>11, <1>12, PointResetting DEF JournalInv, RootNow

LEMMA DeleteKeyKeeps ==
  ASSUME JournalInv, mode = "resetting", DeleteKeyStep
  PROVE  JournalInv'
<1>1. PICK k \in 1 .. 9 : /\ todo = Rest(ResetSteps, k)
                          /\ k > 2 => InQuarantine
                          /\ k > 2 /\ Quarantined.served # Unserved =>
                               \A i \in 1 .. 3 : RecordKept(i, k)
                          /\ \A i \in 1 .. 3 : k > i + 5 => keys[Records[i]] = 0
  BY DEF JournalInv, Point, Resetting
<1>2. todo # <<>> /\ Head(todo).op = "deleteKey"
  BY DEF DeleteKeyStep, Doing
<1>3. k \in 6 .. 8 /\ Head(todo) = KeyStep("deleteKey", Records[k - 5]) /\ Tail(todo) = Rest(ResetSteps, k + 1)
  BY <1>1, <1>2, ResettingHead DEF BackUp, MoveRoot, KeyStep
<1> DEFINE r == Records[k - 5]
<1>4. r \in Keys /\ Head(todo).key = r /\ 0 \in 0 .. MaxResets + 1
  BY <1>3, RecordsOf, BoundsAreNaturals DEF KeyStep
<1>5. /\ todo' = Rest(ResetSteps, k + 1) /\ mode' = "resetting"
      /\ keys' = [keys EXCEPT ![r] = 0]
      /\ UNCHANGED <<files, checkpoint, accepted, prior, target, values, served, quarantine>>
      /\ UNCHANGED <<marker, pending, mem, restores, troubles, resets>>
  BY <1>3, <1>4 DEF DeleteKeyStep, StepDone, SameDisk, InReset, NoTrouble
<1>6. ResetSteps' = ResetSteps
  BY DEF ResetSteps, ForKeys
<1>7. InQuarantine' /\ Quarantined' = Quarantined
  BY <1>1, <1>3, <1>5, QuarantineStays DEF Quarantined
<1>8. keys \in [Keys -> 0 .. MaxResets + 1]
  BY DEF JournalInv, WellTyped
<1>9. ASSUME NEW i \in 1 .. 3
      PROVE  /\ (Quarantined.served # Unserved)' => RecordKept(i, k + 1)'
             /\ k + 1 > i + 5 => keys'[Records[i]] = 0
  <2>1. Quarantined.served # Unserved => RecordKept(i, k)
    BY <1>1, <1>3
  <2>2. Records[i] \in Keys /\ (Records[i] = r <=> k = i + 5)
    BY <1>3, RecordsOf
  <2>3. keys'[Records[i]] = IF k = i + 5 THEN 0 ELSE keys[Records[i]]
    BY <1>5, <1>8, <2>2
  <2>4. k > i + 5 => keys[Records[i]] = 0
    BY <1>1
  <2>5. Quarantined.served # Unserved => RecordKept(i, k + 1)'
    BY <1>3, <1>5, <1>7, <2>1, <2>3 DEF RecordKept
  <2> QED
    BY <1>3, <1>7, <2>3, <2>4, <2>5
<1>10. Resetting'
  <2>1. k + 1 \in 1 .. 9 /\ ~(k + 1 <= 2)
    BY <1>3
  <2> QED
    BY <1>5, <1>6, <1>7, <1>9, <2>1 DEF Resetting, Rest
<1>11. RootNow'
  BY <1>5, RootStays DEF JournalInv, RootNow
<1>12. WellTyped'
  BY <1>4, <1>5, <1>8 DEF JournalInv, WellTyped, RootTyped
<1>13. Credentials'
  BY <1>1, <1>3, <1>5 DEF InQuarantine, NoRoot, Credentials
<1> QED
  BY <1>5, <1>10, <1>11, <1>12, <1>13, PointResetting DEF JournalInv, RootNow
-----------------------------------------------------------------------------
(* The roll-back of a reset, step by step.                                 *)

Known(W) == \A r \in W : values[r] \in 0 .. MaxResets + 1
Returning(W) ==
  Quarantined.served # Unserved =>
    /\ \A r \in W : values[r] = Quarantined.served[r]
    /\ \A r \in Keys \ W : keys[r] = Quarantined.served[r]

LEMMA RevertingHead ==
  ASSUME Reverting, todo # <<>>
  PROVE  \/ \E W \in SUBSET Keys : \E r \in W :
              /\ Head(todo) = WriteKey(r) /\ Tail(todo) = Writes(W \ {r})
              /\ NoRoot /\ Known(W)
         \/ \E W \in SUBSET Keys : \E r \in W :
              /\ Head(todo) = WriteKey(r) /\ Tail(todo) = Writes(W \ {r}) \o <<ReturnRoot>>
              /\ InQuarantine /\ Known(W) /\ Returning(W)
         \/ /\ Head(todo) = ReturnRoot /\ Tail(todo) = <<>>
            /\ InQuarantine /\ Returning({})
<1>1. /\ \A r \in Keys : WriteKey(r) \in AllSteps
      /\ ReturnRoot \in AllSteps /\ <<ReturnRoot>> \in Seq(AllSteps)
  BY StepKinds DEF WriteKey
<1>2. CASE \E W \in SUBSET Keys : todo = Writes(W) /\ NoRoot /\ Known(W)
  <2>1. PICK W \in SUBSET Keys : todo = Writes(W) /\ NoRoot /\ Known(W)
    BY <1>2
  <2>2. W # {}
    BY <2>1, WritesOf
  <2>3. PICK r \in W : todo = <<WriteKey(r)>> \o Writes(W \ {r})
    BY <2>1, <2>2, WritesOf
  <2>4. WriteKey(r) \in AllSteps /\ Writes(W \ {r}) \in Seq(AllSteps)
    BY <1>1, WritesOf
  <2>5. Head(todo) = WriteKey(r) /\ Tail(todo) = Writes(W \ {r})
    BY <2>3, <2>4, Cons, Zenon
  <2> QED
    BY <2>1, <2>5
<1>3. CASE \E W \in SUBSET Keys :
             todo = Writes(W) \o <<ReturnRoot>> /\ InQuarantine /\ Known(W) /\ Returning(W)
  <2>1. PICK W \in SUBSET Keys :
          todo = Writes(W) \o <<ReturnRoot>> /\ InQuarantine /\ Known(W) /\ Returning(W)
    BY <1>3
  <2>2. CASE W = {}
    <3>1. todo = <<ReturnRoot>>
      BY <1>1, <2>1, <2>2, WritesOf, ConcatEmptySeq, Zenon
    <3>2. Head(todo) = ReturnRoot /\ Tail(todo) = <<>>
      BY <1>1, <3>1, Short
    <3> QED
      BY <2>1, <2>2, <3>2
  <2>3. CASE W # {}
    <3>1. PICK r \in W : Writes(W) = <<WriteKey(r)>> \o Writes(W \ {r})
      BY <2>3, WritesOf
    <3> DEFINE a == WriteKey(r)  s == <<a>>  t == Writes(W \ {r})  u == <<ReturnRoot>>
    <3>2. a \in AllSteps /\ s \in Seq(AllSteps) /\ t \in Seq(AllSteps) /\ u \in Seq(AllSteps)
      BY <1>1, WritesOf
    <3>3. todo = (s \o t) \o u
      BY <2>1, <3>1, Zenon
    <3> HIDE DEF t, u, a
    <3>4. t \o u \in Seq(AllSteps)
      BY <3>2, ConcatLen, Zenon
    <3>5. (s \o t) \o u = s \o (t \o u)
      <4> HIDE DEF s
      <4> QED
        BY <3>2, Assoc, Zenon
    <3>6. Head(s \o (t \o u)) = a /\ Tail(s \o (t \o u)) = t \o u
      BY <3>2, <3>4, Cons, Zenon
    <3>7. Head(todo) = WriteKey(r) /\ Tail(todo) = Writes(W \ {r}) \o <<ReturnRoot>>
      BY <3>3, <3>5, <3>6, Zenon DEF a, t, u
    <3> QED
      BY <2>1, <3>7
  <2> QED
    BY <2>2, <2>3
<1> QED
  BY <1>2, <1>3 DEF Reverting, Known, Returning

LEMMA RevertingBy ==
  ASSUME NEW W \in SUBSET Keys, Known(W)',
         \/ todo' = Writes(W) /\ NoRoot'
         \/ todo' = Writes(W) \o <<ReturnRoot>> /\ InQuarantine' /\ Returning(W)'
  PROVE  Reverting'
<1>1. Writes(W)' = Writes(W) /\ ReturnRoot' = ReturnRoot
  BY DEF Writes, ReturnRoot
<1>2. \A r \in W : values'[r] \in 0 .. MaxResets + 1
  BY DEF Known
<1>3. CASE todo' = Writes(W) /\ NoRoot'
  <2> HIDE DEF Writes, NoRoot
  <2> QED
    BY <1>2, <1>3, <1>1 DEF Reverting
<1>4. CASE todo' = Writes(W) \o <<ReturnRoot>> /\ InQuarantine' /\ Returning(W)'
  BY <1>1, <1>2, <1>4 DEF Reverting, Returning
<1> QED
  BY <1>3, <1>4

LEMMA WriteKeyKeeps ==
  ASSUME JournalInv, mode = "reverting", WriteKeyStep
  PROVE  JournalInv'
<1>0. Reverting /\ WellTyped /\ RootNow /\ Credentials
  BY DEF JournalInv, Point, RootNow
<1>1. todo # <<>> /\ Head(todo).op = "writeKey"
  BY DEF WriteKeyStep, Doing
<1>2. /\ todo' = Tail(todo) /\ mode' = "reverting"
      /\ keys' = [keys EXCEPT ![Head(todo).key] = values[Head(todo).key]]
      /\ UNCHANGED <<files, checkpoint, accepted, prior, target, values, served, quarantine>>
      /\ UNCHANGED <<marker, pending, mem, restores, troubles, resets>>
  BY DEF WriteKeyStep, StepDone, SameDisk, InReset, NoTrouble
<1>3. \A r : WriteKey(r).op = "writeKey" /\ WriteKey(r).key = r
  BY DEF WriteKey
<1>4. ReturnRoot.op # "writeKey"
  BY DEF ReturnRoot
<1>15. PICK W \in SUBSET Keys : \E r \in W :
        /\ Head(todo) = WriteKey(r) /\ Known(W)
        /\ \/ Tail(todo) = Writes(W \ {r}) /\ NoRoot
           \/ Tail(todo) = Writes(W \ {r}) \o <<ReturnRoot>> /\ InQuarantine /\ Returning(W)
  BY <1>0, <1>1, <1>4, RevertingHead
<1>5. PICK r \in W :
        /\ Head(todo) = WriteKey(r) /\ Known(W)
        /\ \/ Tail(todo) = Writes(W \ {r}) /\ NoRoot
           \/ Tail(todo) = Writes(W \ {r}) \o <<ReturnRoot>> /\ InQuarantine /\ Returning(W)
  BY <1>15
<1>16. PICK V \in SUBSET Keys : V = W \ {r}
  OBVIOUS
<1>6. /\ keys' = [keys EXCEPT ![r] = values[r]] /\ r \in Keys /\ V \subseteq W
      /\ values[r] \in 0 .. MaxResets + 1 /\ keys \in [Keys -> 0 .. MaxResets + 1]
  BY <1>0, <1>2, <1>3, <1>5, <1>16 DEF Known, WellTyped
<1>7. WellTyped'
  BY <1>0, <1>2, <1>6 DEF WellTyped, RootTyped
<1>8. NoRoot /\ served = Unserved
  BY <1>5 DEF InQuarantine, NoRoot
<1>9. RootNow' /\ Credentials'
  BY <1>0, <1>2, <1>8, RootStays DEF Credentials
<1>10. NoRoot' /\ Known(V)'
  <2>1. NoRoot'
    BY <1>2, <1>8 DEF NoRoot, Journal
  <2>2. \A x \in V : values[x] \in 0 .. MaxResets + 1
    BY <1>5, <1>6 DEF Known
  <2> QED
    BY <1>2, <2>1, <2>2 DEF Known
<1>12. ASSUME Tail(todo) = Writes(V) PROVE Reverting'
  BY <1>2, <1>10, <1>12, RevertingBy
<1>13. ASSUME Tail(todo) = Writes(V) \o <<ReturnRoot>>, InQuarantine, Returning(W)
      PROVE  Reverting'
  <2>1. InQuarantine' /\ Quarantined' = Quarantined
    BY <1>2, <1>13, QuarantineStays DEF Quarantined
  <2>2. Returning(V)'
    <3> SUFFICES ASSUME (Quarantined.served # Unserved)'
                 PROVE  /\ \A x \in V : values'[x] = Quarantined.served[x]
                        /\ \A x \in Keys \ V : keys'[x] = Quarantined.served[x]
      BY <2>1 DEF Returning
    <3>1. /\ \A x \in W : values[x] = Quarantined.served[x]
          /\ \A x \in Keys \ W : keys[x] = Quarantined.served[x]
      BY <1>13, <2>1 DEF Returning
    <3>2. values' = values /\ (Quarantined.served)' = Quarantined.served
      BY <1>2, <2>1
    <3>3. \A x \in Keys \ V : keys'[x] = IF x = r THEN values[r] ELSE keys[x]
      BY <1>6
    <3>4. \A x \in Keys \ V : x = r \/ x \in Keys \ W
      BY <1>16
    <3>5. \A x \in V : x \in W
      BY <1>6
    <3> QED
      BY <3>1, <3>2, <3>3, <3>4, <3>5
  <2>3. todo' = Writes(V) \o <<ReturnRoot>>
    BY <1>2, <1>13
  <2> QED
    BY <1>10, <2>1, <2>2, <2>3, RevertingBy
<1>14. Reverting'
  BY <1>5, <1>12, <1>13, <1>16
<1> QED
  BY <1>2, <1>7, <1>9, <1>14, PointReverting DEF JournalInv, RootNow

LEMMA ReturnRootKeeps ==
  ASSUME JournalInv, mode = "reverting", ReturnRootStep
  PROVE  JournalInv'
<1>0. Reverting /\ WellTyped
  BY DEF JournalInv, Point
<1>1. todo # <<>> /\ Head(todo).op = "returnRoot"
  BY DEF ReturnRootStep, Doing
<1>2. \A r : WriteKey(r).op # "returnRoot"
  BY DEF WriteKey
<1>3. Tail(todo) = <<>> /\ InQuarantine /\ Returning({})
  BY <1>0, <1>1, <1>2, RevertingHead
<1>4. /\ todo' = <<>> /\ mode' = "reverting"
      /\ files' = Quarantined.files /\ checkpoint' = Quarantined.checkpoint
      /\ marker' = Quarantined.marker /\ accepted' = Quarantined.accepted
      /\ served' = Quarantined.served
      /\ UNCHANGED <<prior, target, keys, values, pending, mem, restores, troubles, resets>>
  BY <1>3 DEF ReturnRootStep, StepDone, InReset, NoTrouble, Quarantined
<1>5. /\ RootInv(Quarantined.files, Quarantined.checkpoint, Quarantined.accepted)
      /\ Quarantined.marker \in BOOLEAN
      /\ Quarantined.served \in [Keys -> 0 .. MaxResets + 2]
      /\ Quarantined.served # Unserved => Usable(Quarantined.served)
  BY <1>3 DEF InQuarantine
<1>6. RootInv(files, checkpoint, accepted)'
  BY <1>4, <1>5 DEF RootInv, RootTyped, Undisturbed, Recoverable, OwnerHeld, Whether
<1>7. Credentials'
  <2> SUFFICES ASSUME Quarantined.served # Unserved
               PROVE  keys = Quarantined.served /\ Usable(keys)
    BY <1>4 DEF Credentials, Usable
  <2>1. \A r \in Keys : keys[r] = Quarantined.served[r]
    BY <1>3 DEF Returning
  <2>2. keys \in [Keys -> 0 .. MaxResets + 1] /\ Usable(Quarantined.served)
    BY <1>0, <1>5 DEF WellTyped
  <2>3. keys = Quarantined.served
    BY <2>1, <2>2 DEF Usable
  <2> QED
    BY <2>2, <2>3
<1>8. WellTyped'
  BY <1>0, <1>4, <1>5, <1>6 DEF WellTyped, RootInv
<1>9. Reverting'
  BY <1>4 DEF Reverting
<1> QED
  BY <1>4, <1>6, <1>7, <1>8, <1>9, PointReverting DEF JournalInv

\* A record that cannot be written: the root stays where it is.
LEMMA RevertFailsKeeps ==
  ASSUME JournalInv, RevertFails
  PROVE  JournalInv'
<1>0. Reverting /\ WellTyped /\ RootNow /\ Credentials /\ todo # <<>> /\ mode = "reverting"
  BY DEF JournalInv, Point, RootNow, RevertFails
<1>1. /\ todo' = WithoutReturn(Tail(todo)) /\ mode' = "reverting"
      /\ UNCHANGED <<files, checkpoint, accepted, prior, target, values, served, quarantine, keys>>
      /\ UNCHANGED <<marker, pending, mem, restores, resets>>
      /\ troubles < MaxTroubles /\ troubles' = troubles + 1
  BY DEF RevertFails, GoesTo, SameDisk, SameRestore, SameRun, Trouble
<1>2. WellTyped'
  BY <1>0, <1>1, BoundsAreNaturals DEF WellTyped, RootTyped
<1>3. RootNow' /\ Credentials'
  BY <1>0, <1>1, RootStays
<1>4. ASSUME NoRoot PROVE NoRoot'
  BY <1>1, <1>4 DEF NoRoot, Journal
<1>5. ASSUME NEW W \in SUBSET Keys, Known(W), NEW r \in W, todo' = Writes(W \ {r}), NoRoot
      PROVE  Reverting'
  <2>1. W \ {r} \in SUBSET Keys /\ Known(W \ {r})'
    BY <1>1, <1>5 DEF Known
  <2> QED
    BY <1>4, <1>5, <2>1 DEF Reverting, Known, Writes
<1>6. ASSUME NEW W \in SUBSET Keys, NEW r \in W, NoRoot, Known(W),
             \/ Tail(todo) = Writes(W \ {r})
             \/ Tail(todo) = Writes(W \ {r}) \o <<ReturnRoot>>
      PROVE  Reverting'
  <2>1. W \ {r} \in SUBSET Keys
    OBVIOUS
  <2>2. todo' = Writes(W \ {r})
    BY <1>1, <1>6, <2>1, WithoutReturnOf
  <2> QED
    BY <1>5, <1>6, <2>2
<1>7. ASSUME Tail(todo) = <<>>
      PROVE  Reverting'
  <2>1. todo' = <<>>
    BY <1>1, <1>7 DEF WithoutReturn
  <2> QED
    BY <2>1 DEF Reverting
<1>8. Reverting'
  BY <1>0, <1>6, <1>7, RevertingHead DEF InQuarantine
<1> QED
  BY <1>1, <1>2, <1>3, <1>8, PointReverting DEF JournalInv, RootNow

\* What cannot be read or deleted: what was read is written back.
LEMMA ResetFailsKeeps ==
  ASSUME JournalInv, ResetFails
  PROVE  JournalInv'
<1>0. Resetting /\ WellTyped /\ RootNow /\ Credentials /\ todo # <<>> /\ mode = "resetting"
  BY DEF JournalInv, Point, RootNow, ResetFails
<1>1. /\ UNCHANGED <<files, checkpoint, accepted, prior, target, values, served, quarantine, keys>>
      /\ UNCHANGED <<marker, pending, mem, restores, resets>>
      /\ troubles' \in 0 .. MaxTroubles
  BY <1>0, BoundsAreNaturals DEF ResetFails, SameDisk, SameRestore, SameRun, Trouble, NoTrouble, WellTyped
<1>2. RootNow' /\ Credentials'
  BY <1>0, <1>1, RootStays
<1>3. CASE Head(todo).op \in {"backUp", "moveRoot"}
  <2>1. mode' = "idle" /\ todo' = <<>>
    BY <1>3 DEF ResetFails, GoesTo
  <2>2. WellTyped'
    BY <1>0, <1>1, <2>1 DEF WellTyped, RootTyped, Modes
  <2> QED
    BY <1>2, <2>1, <2>2, PointIdle DEF JournalInv, RootNow, Idle
<1>4. CASE Head(todo).op \notin {"backUp", "moveRoot"}
  <2>10. PICK W \in SUBSET Keys : W = {r \in Keys : values[r] \notin {Unread, 0}}
    OBVIOUS
  <2>1. mode' = "reverting" /\ todo' = Writes(W) \o <<ReturnRoot>>
    BY <1>4, <2>10 DEF ResetFails, GoesTo, RevertSteps
  <2>2. WellTyped'
    BY <1>0, <1>1, <2>1 DEF WellTyped, RootTyped, Modes
  <2>3. PICK k \in 1 .. 9 : /\ todo = Rest(ResetSteps, k)
                            /\ k > 2 => InQuarantine
                            /\ k > 2 /\ Quarantined.served # Unserved =>
                                 \A i \in 1 .. 3 : RecordKept(i, k)
                            /\ \A i \in 1 .. 3 : k > i + 5 => keys[Records[i]] = 0
    BY <1>0 DEF Resetting
  <2>4. k \in 3 .. 8
    <3>1. /\ k \in 1 .. 8
          /\ k = 1 => Head(todo) = BackUp
          /\ k = 2 => Head(todo) = MoveRoot
      BY <1>0, <2>3, ResettingHead
    <3> QED
      BY <1>4, <3>1 DEF BackUp, MoveRoot
  <2>5. InQuarantine' /\ Quarantined' = Quarantined
    BY <1>1, <2>3, <2>4, QuarantineStays DEF Quarantined
  <2>6. values \in [Keys -> 0 .. MaxResets + 2] /\ MaxResets \in Nat
    BY <1>0, BoundsAreNaturals DEF WellTyped
  <2>7. Known(W)'
    BY <1>1, <2>6, <2>10, UnreadKeys DEF Known
  <2>8. Returning(W)'
    <3> SUFFICES ASSUME Quarantined.served # Unserved
                 PROVE  /\ \A r \in W : values[r] = Quarantined.served[r]
                        /\ \A r \in Keys \ W : keys[r] = Quarantined.served[r]
      BY <1>1, <2>5 DEF Returning
    <3>1. Quarantined.served \in [Keys -> 0 .. MaxResets + 1]
      BY <2>3, <2>4 DEF InQuarantine, Usable
    <3>2. ASSUME NEW i \in 1 .. 3
          PROVE  /\ Records[i] \in W => values[Records[i]] = Quarantined.served[Records[i]]
                 /\ Records[i] \notin W => keys[Records[i]] = Quarantined.served[Records[i]]
      <4>1. RecordKept(i, k) /\ Records[i] \in Keys /\ (k > i + 5 => keys[Records[i]] = 0)
        BY <2>3, <2>4, RecordsOf
      <4>2. Quarantined.served[Records[i]] # Unread
        BY <2>6, <3>1, <4>1, UnreadKeys
      <4> QED
        BY <2>4, <4>1, <4>2, <2>10 DEF RecordKept
    <3> QED
      BY <3>2, RecordsOf
  <2>9. Reverting'
    BY <2>1, <2>5, <2>7, <2>8, RevertingBy
  <2> QED
    BY <1>2, <2>1, <2>2, <2>9, PointReverting DEF JournalInv, RootNow
<1> QED
  BY <1>3, <1>4
-----------------------------------------------------------------------------
(* A step of the running routine keeps the invariant.                      *)

LEMMA RoutineModes ==
  ASSUME JournalInv, Step
  PROVE  /\ mode' = mode /\ accepted' = accepted /\ UNCHANGED <<prior, target>>
         /\ mode \in {"recovering", "undoing", "backing-out", "finalizing", "restoring", "cleaning"}
         /\ Credentials'
         /\ RootTyped(files, checkpoint, accepted)' => WellTyped'
<1>1. /\ InRoutine /\ todo # <<>>
      /\ Head(todo).op \notin {"backUp", "moveRoot", "returnRoot", "readKey", "deleteKey", "writeKey"}
  BY RoutineKeeps, StepOps
<1>2. WellTyped /\ Point /\ Credentials
  BY DEF JournalInv
<1>3. /\ UNCHANGED <<mem, mode, pending, accepted, prior, target, restores, values, quarantine>>
      /\ UNCHANGED <<resets, keys, served, troubles>>
  BY <1>1 DEF InRoutine, SameRestore, SameRun, NoTrouble
<1>4. marker' \in BOOLEAN
  BY <1>2 DEF Step, PutStep, MoveStep, RemoveStep, RemovedStep, RecordStep, ForgetStep,
              InvalidateStep, VerifyStep, SameDisk, WellTyped
<1>5. mode # "resetting"
  <2> SUFFICES ASSUME mode = "resetting" PROVE FALSE
    OBVIOUS
  <2>1. PICK k \in 1 .. 9 : todo = Rest(ResetSteps, k)
    BY <1>2 DEF Point, Resetting
  <2>2. \/ Head(todo) = BackUp \/ Head(todo) = MoveRoot
        \/ Head(todo) = KeyStep("readKey", Records[k - 2])
        \/ Head(todo) = KeyStep("deleteKey", Records[k - 5])
    <3>1. /\ k \in 1 .. 8
          /\ k = 1 => Head(todo) = BackUp
          /\ k = 2 => Head(todo) = MoveRoot
          /\ k \in 3 .. 5 => Head(todo) = KeyStep("readKey", Records[k - 2])
          /\ k \in 6 .. 8 => Head(todo) = KeyStep("deleteKey", Records[k - 5])
      BY <1>1, <2>1, ResettingHead
    <3>2. k = 1 \/ k = 2 \/ k \in 3 .. 5 \/ k \in 6 .. 8
      BY <3>1
    <3> QED
      BY <3>1, <3>2
  <2> QED
    BY <1>1, <2>2 DEF BackUp, MoveRoot, KeyStep
<1>6. mode # "reverting"
  <2> SUFFICES ASSUME mode = "reverting" PROVE FALSE
    OBVIOUS
  <2>1. (\E r : Head(todo) = WriteKey(r)) \/ Head(todo) = ReturnRoot
    BY <1>1, <1>2, RevertingHead DEF Point
  <2> QED
    BY <1>1, <2>1 DEF WriteKey, ReturnRoot
<1>7. mode \notin {"down", "opened", "starting", "serving", "idle", "stopped"}
  BY <1>1, <1>2 DEF Point
<1>8. mode \in {"recovering", "undoing", "backing-out", "finalizing", "restoring", "cleaning"}
  BY <1>2, <1>5, <1>6, <1>7 DEF WellTyped, Modes
<1>9. Credentials'
  BY <1>2, <1>3 DEF Credentials, Usable
<1>10. ASSUME RootTyped(files, checkpoint, accepted)' PROVE WellTyped'
  BY <1>2, <1>3, <1>4, <1>10 DEF WellTyped
<1> QED
  BY <1>3, <1>8, <1>9, <1>10

LEMMA RestoringRoot == WellTyped /\ Restoring => RootNow
BY RestoringV1Root, RestoringV2Root DEF Restoring

LEMMA StepKeeps ==
  ASSUME JournalInv, Step
  PROVE  JournalInv'
<1>1. WellTyped /\ RootNow /\ Point
  BY DEF JournalInv, RootNow
<1>2. /\ mode' = mode /\ accepted' = accepted /\ UNCHANGED <<prior, target>>
      /\ mode \in {"recovering", "undoing", "backing-out", "finalizing", "restoring", "cleaning"}
      /\ Credentials'
      /\ RootTyped(files, checkpoint, accepted)' => WellTyped'
  BY RoutineModes
<1>3. RootNow' => WellTyped'
  BY <1>2 DEF RootNow, RootInv
<1>4. ASSUME RootNow', Point' PROVE JournalInv'
  BY <1>2, <1>3, <1>4 DEF JournalInv, RootNow
<1>5. CASE mode \in {"recovering", "undoing", "backing-out"}
  <2>1. Recovering /\ (mode = "undoing" => ~accepted)
    BY <1>1, <1>5 DEF Point
  <2>2. RootNow' /\ Recovering'
    BY <1>1, <2>1, RecoveringStep
  <2>3. Point'
    BY <1>2, <1>5, <2>1, <2>2, PointRecovering, PointUndoing
  <2> QED
    BY <1>4, <2>2, <2>3
<1>6. CASE mode = "finalizing"
  <2>1. Finalizing /\ served # Unserved
    BY <1>1, <1>6 DEF Point
  <2>2. RootNow' /\ Finalizing'
    BY <1>1, <2>1, FinalizingStep
  <2>3. served' # Unserved
    BY <2>1, RoutineKeeps DEF InRoutine, SameRestore, Unserved, Every
  <2> QED
    BY <1>2, <1>4, <1>6, <2>2, <2>3, PointFinalizing
<1>7. CASE mode = "restoring"
  <2>1. Restoring
    BY <1>1, <1>7 DEF Point
  <2>2. /\ ~accepted /\ target.database \in Whole
        /\ (\E k \in 1 .. 11 : RestoringV1(k)) \/ (\E k \in 1 .. 18 : RestoringV2(k))
    BY <2>1 DEF Restoring
  <2>3. ~accepted' /\ (target.database \in Whole)'
    BY <1>2, <2>2 DEF Whole
  <2>4. CASE \E k \in 1 .. 11 : RestoringV1(k)
    <3>1. PICK k \in 1 .. 11 : RestoringV1(k)
      BY <2>4
    <3>2. RootTyped(files, checkpoint, accepted)' /\ \E j \in 1 .. 11 : RestoringV1(j)'
      BY <1>1, <2>2, <3>1, RestoringV1Step
    <3>3. PICK j \in 1 .. 11 : RestoringV1(j)'
      BY <3>2
    <3>4. WellTyped'
      BY <1>2, <3>2
    <3>6. Restoring'
      BY <2>3, <3>3 DEF Restoring
    <3>5. RootNow'
      BY <3>4, <3>6, RestoringRoot, PTL
    <3> QED
      BY <1>2, <1>4, <1>7, <3>5, <3>6, PointRestoring
  <2>5. CASE \E k \in 1 .. 18 : RestoringV2(k)
    <3>1. PICK k \in 1 .. 18 : RestoringV2(k)
      BY <2>5
    <3>2. RootTyped(files, checkpoint, accepted)' /\ \E j \in 1 .. 18 : RestoringV2(j)'
      BY <1>1, <2>2, <3>1, RestoringV2Step
    <3>3. PICK j \in 1 .. 18 : RestoringV2(j)'
      BY <3>2
    <3>4. WellTyped'
      BY <1>2, <3>2
    <3>6. Restoring'
      BY <2>3, <3>3 DEF Restoring
    <3>5. RootNow'
      BY <3>4, <3>6, RestoringRoot, PTL
    <3> QED
      BY <1>2, <1>4, <1>7, <3>5, <3>6, PointRestoring
  <2> QED
    BY <2>2, <2>4, <2>5
<1>8. CASE mode = "cleaning"
  <2>1. ~accepted /\ todo \in {<<Discard({"dbStaging", "setStaging"})>>, <<>>}
    BY <1>1, <1>8 DEF Point
  <2>2. Head(todo) = Discard({"dbStaging", "setStaging"}) /\ Tail(todo) = <<>>
    BY <2>1, RoutineKeeps, CleaningHead
  <2>3. RootNow' /\ (todo' = todo \/ todo' = Tail(todo))
    BY <1>1, <2>2, StagedStep
  <2>4. todo' \in {<<Discard({"dbStaging", "setStaging"})>>, <<>>}
    BY <2>1, <2>2, <2>3
  <2> QED
    BY <1>2, <1>4, <1>8, <2>1, <2>3, <2>4, PointCleaning
<1> QED
  BY <1>2, <1>5, <1>6, <1>7, <1>8

LEMMA ResetStepKeeps ==
  ASSUME JournalInv, ResetStep
  PROVE  JournalInv'
<1>1. mode \in {"resetting", "reverting"} /\ todo # <<>> /\ Point
  BY ResetOps DEF JournalInv
<1>2. CASE mode = "resetting"
  <2>1. PICK k \in 1 .. 9 : todo = Rest(ResetSteps, k)
    BY <1>1, <1>2 DEF Point, Resetting
  <2>2. \/ Head(todo) = BackUp \/ Head(todo) = MoveRoot
        \/ Head(todo) = KeyStep("readKey", Records[k - 2])
        \/ Head(todo) = KeyStep("deleteKey", Records[k - 5])
    <3>1. /\ k \in 1 .. 8
          /\ k = 1 => Head(todo) = BackUp
          /\ k = 2 => Head(todo) = MoveRoot
          /\ k \in 3 .. 5 => Head(todo) = KeyStep("readKey", Records[k - 2])
          /\ k \in 6 .. 8 => Head(todo) = KeyStep("deleteKey", Records[k - 5])
      BY <1>1, <2>1, ResettingHead
    <3>2. k = 1 \/ k = 2 \/ k \in 3 .. 5 \/ k \in 6 .. 8
      BY <3>1
    <3> QED
      BY <3>1, <3>2
  <2>3. Head(todo).op \in {"backUp", "moveRoot", "readKey", "deleteKey"}
    BY <2>2 DEF BackUp, MoveRoot, KeyStep
  <2>4. BackUpStep \/ MoveRootStep \/ ReadKeyStep \/ DeleteKeyStep
    BY <2>3 DEF ResetStep, ReturnRootStep, WriteKeyStep, Doing
  <2> QED
    BY <1>2, <2>4, BackUpKeeps, MoveRootKeeps, ReadKeyKeeps, DeleteKeyKeeps
<1>3. CASE mode = "reverting"
  <2>1. (\E r : Head(todo) = WriteKey(r)) \/ Head(todo) = ReturnRoot
    BY <1>1, <1>3, RevertingHead DEF Point
  <2>2. Head(todo).op \in {"writeKey", "returnRoot"}
    BY <2>1 DEF WriteKey, ReturnRoot
  <2>3. WriteKeyStep \/ ReturnRootStep
    BY <2>2 DEF ResetStep, BackUpStep, MoveRootStep, ReadKeyStep, DeleteKeyStep, Doing
  <2> QED
    BY <1>3, <2>3, WriteKeyKeeps, ReturnRootKeeps
<1> QED
  BY <1>1, <1>2, <1>3
-----------------------------------------------------------------------------
(* The start, the fate of a restore in it, and its roll-back.              *)

LEMMA Troubled ==
  ASSUME WellTyped, Trouble \/ NoTrouble
  PROVE  troubles' \in 0 .. MaxTroubles
BY BoundsAreNaturals DEF WellTyped, Trouble, NoTrouble

\* What only goes to another mode, with or without a trouble.
LEMMA OnlyGoes ==
  ASSUME JournalInv, SameDisk, SameRestore, UNCHANGED <<mem, accepted>>,
         pending' \in BOOLEAN, troubles' \in 0 .. MaxTroubles, mode' \in Modes
  PROVE  /\ WellTyped' /\ RootNow' /\ Credentials' /\ served' = served /\ keys' = keys
         /\ UNCHANGED <<prior, target, files, checkpoint, accepted>>
         /\ Point' => JournalInv'
<1>1. WellTyped /\ RootNow /\ Credentials
  BY DEF JournalInv, RootNow
<1>2. /\ UNCHANGED <<files, checkpoint, marker, mem, accepted, prior, target, restores>>
      /\ UNCHANGED <<values, quarantine, resets, keys, served>>
  BY DEF SameDisk, SameRestore, SameRun
<1>3. RootNow' /\ Credentials'
  BY <1>1, <1>2, RootStays
<1>4. WellTyped'
  BY <1>1, <1>2 DEF WellTyped, RootTyped
<1> QED
  BY <1>2, <1>3, <1>4 DEF JournalInv, RootNow

\* A process that ends, or a routine that ends in a process that goes on.
LEMMA ToIdleKeeps ==
  ASSUME JournalInv, SameDisk, SameRestore, UNCHANGED <<mem, accepted>>,
         pending' \in BOOLEAN, Trouble \/ NoTrouble, mode' \in Idle, todo' = <<>>
  PROVE  JournalInv'
<1>1. mode' \in Modes
  BY DEF Idle, Modes
<1>2. troubles' \in 0 .. MaxTroubles
  BY Troubled DEF JournalInv
<1> QED
  BY <1>1, <1>2, OnlyGoes, PointIdle

LEMMA CreatedRoot ==
  ASSUME NEW f, NEW c, NEW a, NEW g \in [Places -> Contents], RootInv(f, c, a),
         prior.database # Missing, prior.settings # Missing,
         target.database # Missing, target.settings # Missing,
         Elsewhere(f, g, {"database", "settings"}),
         g["database"] = IF f["database"] = Missing THEN Hollow ELSE f["database"],
         g["settings"] = IF f["settings"] = Missing THEN Default ELSE f["settings"]
  PROVE  RootInv(g, c, a)
<1>1. /\ g["dbDisplaced"] = f["dbDisplaced"] /\ g["setDisplaced"] = f["setDisplaced"]
      /\ g["setStaging"] = f["setStaging"]
      /\ Hollow # Missing /\ Default # Missing
  BY RootPlaces, ContentsDiffer DEF Elsewhere
<1>2. RootTyped(g, c, a)
  BY DEF RootInv, RootTyped
<1>3. Undisturbed(g, c)
  BY <1>1 DEF RootInv, Undisturbed
<1>4. ASSUME ~a PROVE Recoverable(g, c)
  <2>1. Recoverable(f, c)
    BY <1>4 DEF RootInv
  <2>2. c = NoCheckpoint => g["database"] = prior.database /\ g["settings"] = prior.settings
    BY <2>1 DEF Recoverable
  <2>3. c # NoCheckpoint =>
          /\ OwnerHeld(g, "database", "dbDisplaced", prior.database, {Missing, Hollow, target.database})
          /\ OwnerHeld(g, "settings", "setDisplaced", prior.settings, {Missing, Default, target.settings})
    BY <1>1, <2>1 DEF Recoverable, OwnerHeld
  <2> QED
    BY <1>1, <2>1, <2>2, <2>3 DEF Recoverable
<1> QED
  BY <1>2, <1>3, <1>4 DEF RootInv

LEMMA OpenStoresKeeps ==
  ASSUME JournalInv, OpenStores
  PROVE  JournalInv'
<1>1. WellTyped /\ RootNow /\ Credentials
  BY DEF JournalInv, RootNow
<1>2. /\ files' = [files EXCEPT !["database"] = Created("database", Hollow),
                                !["settings"] = Created("settings", Default)]
      /\ mem' = files'["settings"] /\ mode' = "opened" /\ todo' = <<>>
      /\ UNCHANGED <<checkpoint, marker, pending, accepted, prior, target, restores>>
      /\ UNCHANGED <<values, quarantine, resets, keys, served, troubles>>
  BY DEF OpenStores, GoesTo, SameRestore, SameRun, NoTrouble
<1>3. files \in [Places -> Contents] /\ {"database", "settings"} \subseteq Places
      /\ Hollow \in Contents /\ Default \in Contents /\ Hollow # Missing /\ Default # Missing
  BY <1>1, RootPlaces, ContentsDiffer DEF WellTyped, RootTyped
<1>4. /\ files' \in [Places -> Contents]
      /\ Elsewhere(files, files', {"database", "settings"})
      /\ files'["database"] = IF files["database"] = Missing THEN Hollow ELSE files["database"]
      /\ files'["settings"] = IF files["settings"] = Missing THEN Default ELSE files["settings"]
  BY <1>2, <1>3 DEF Created, Exists, Elsewhere
<1>5. /\ prior.database # Missing /\ prior.settings # Missing
      /\ target.database # Missing /\ target.settings # Missing
  BY <1>1 DEF WellTyped
<1>6. RootInv(files', checkpoint, accepted)
  BY <1>1, <1>4, <1>5, CreatedRoot DEF RootNow
<1>7. RootNow'
  BY <1>2, <1>6, SameRoot
<1>8. WellTyped'
  BY <1>1, <1>2, <1>3, <1>4 DEF WellTyped, RootTyped, Modes
<1>9. Credentials'
  BY <1>1, <1>2 DEF Credentials, Usable
<1>10. Point'
  BY <1>2, <1>3, <1>4 DEF Point, Standing, Absent
<1> QED
  BY <1>7, <1>8, <1>9, <1>10 DEF JournalInv, RootNow

LEMMA RecoverKeeps ==
  ASSUME JournalInv, Recover
  PROVE  JournalInv'
<1>1. /\ WellTyped /\ RootNow /\ Standing
  BY DEF JournalInv, Point, Recover, RootNow
<1>2. /\ SameDisk /\ SameRestore /\ UNCHANGED <<mem, accepted>> /\ pending' = VerifiedPending
      /\ mode' = "recovering" /\ todo' = RecoverSteps /\ NoTrouble /\ ~Unavailable
  BY DEF Recover, GoesTo
<1>3. Recovering'
  BY <1>1, <1>2, RecoverShape
<1>4. pending' \in BOOLEAN
  BY <1>2 DEF VerifiedPending
<1>5. troubles' \in 0 .. MaxTroubles
  BY <1>1, <1>2, Troubled
<1>6. mode' \in Modes /\ Point'
  BY <1>2, <1>3, PointRecovering DEF Modes
<1> QED
  BY <1>2, <1>4, <1>5, <1>6, OnlyGoes

LEMMA RecoveredDisk ==
  ASSUME Recovering, todo = <<>>
  PROVE  SettledDisk
<1>1. \A ps \in SUBSET Places : <<Discard(ps)>> # <<>>
  OBVIOUS
<1> QED
  BY <1>1, LastSteps, ShortSteps DEF Recovering

LEMMA RecoveredKeeps ==
  ASSUME JournalInv, Recovered
  PROVE  JournalInv'
<1>1. /\ WellTyped /\ RootNow /\ Credentials /\ SettledDisk
  BY RecoveredDisk DEF JournalInv, Point, Recovered, RootNow
<1>2. /\ UNCHANGED <<files, checkpoint, marker, mem, accepted, pending, prior, target, restores>>
      /\ UNCHANGED <<values, quarantine, resets, served, troubles>>
      /\ mode' = "starting" /\ todo' = <<>> /\ keys' = KeysOfStartup
  BY DEF Recovered, GoesTo, SameDisk, SameRun, NoTrouble
<1>3. keys \in [Keys -> 0 .. MaxResets + 1] /\ resets \in 0 .. MaxResets /\ MaxResets \in Nat
      /\ {"secret", "admin"} \subseteq Keys
  BY <1>1, BoundsAreNaturals DEF WellTyped, Keys
<1>4. resets + 1 \in 0 .. MaxResets + 1 /\ resets + 1 # 0
  BY <1>3
<1>5. keys' \in [Keys -> 0 .. MaxResets + 1] /\ keys'["secret"] # 0
  BY <1>2, <1>3, <1>4 DEF KeysOfStartup
<1>6. Credentials'
  <2> SUFFICES ASSUME served # Unserved PROVE keys' = keys
    BY <1>1, <1>2 DEF Credentials, Usable
  <2>1. keys["secret"] # 0 /\ keys["admin"] # 0
    BY <1>1 DEF Credentials, Usable
  <2> QED
    BY <1>2, <1>3, <2>1 DEF KeysOfStartup
<1>7. WellTyped'
  BY <1>1, <1>2, <1>5 DEF WellTyped, RootTyped, Modes
<1>8. RootNow'
  BY <1>1, <1>2, RootStays
<1>9. SettledDisk'
  BY <1>1, <1>2 DEF SettledDisk, Standing, Absent
<1>10. Point'
  BY <1>2, <1>5, <1>9 DEF Point
<1> QED
  BY <1>6, <1>7, <1>8, <1>10 DEF JournalInv, RootNow

LEMMA HealthyKeeps ==
  ASSUME JournalInv, Healthy
  PROVE  JournalInv'
<1>1. /\ WellTyped /\ RootNow /\ SettledDisk /\ keys["secret"] # 0
  BY DEF JournalInv, Point, Healthy, RootNow
<1>2. /\ files' = [files EXCEPT !["database"] =
                    IF files["database"] = Hollow THEN Fresh ELSE files["database"]]
      /\ marker' = TRUE /\ accepted' = TRUE /\ served' = keys
      /\ mode' = "finalizing" /\ todo' = FinalizeSteps /\ keys["admin"] = keys["secret"]
      /\ UNCHANGED <<checkpoint, mem, pending, keys, prior, target, restores>>
      /\ UNCHANGED <<values, quarantine, resets, troubles>>
  BY DEF Healthy, Startable, GoesTo, SameRun, NoTrouble
<1>3. files \in [Places -> Contents] /\ "database" \in Places /\ Fresh \in Contents /\ Fresh # Missing
  BY <1>1, RootPlaces, ContentsDiffer DEF WellTyped, RootTyped
<1>4. files["database"] # Missing
  BY <1>1 DEF SettledDisk, Standing, Absent
<1>5. /\ files' \in [Places -> Contents] /\ Elsewhere(files, files', {"database"})
      /\ files'["database"] # Missing
  BY <1>2, <1>3, <1>4 DEF Elsewhere
<1>6. RootNow' /\ Finalizing'
  BY <1>1, <1>2, <1>5, FinalizeShape
<1>7. keys \in [Keys -> 0 .. MaxResets + 1] /\ MaxResets \in Nat
  BY <1>1, BoundsAreNaturals DEF WellTyped
<1>8. keys # Unserved /\ Usable(keys)
  BY <1>1, <1>2, <1>7, UnreadKeys DEF Usable
<1>9. Credentials'
  BY <1>2, <1>8 DEF Credentials, Usable
<1>10. served' # Unserved
  BY <1>2, <1>8
<1>11. keys \in [Keys -> 0 .. MaxResets + 2]
  BY <1>7
<1>12. WellTyped'
  BY <1>1, <1>2, <1>5, <1>11 DEF WellTyped, RootTyped, Modes
<1> QED
  BY <1>2, <1>6, <1>9, <1>10, <1>12, PointFinalizing DEF JournalInv, RootNow
LEMMA StartupFailsKeeps ==
  ASSUME JournalInv, NEW m \in {"starting", "finalizing"}, StartupFails(m), Trouble \/ NoTrouble
  PROVE  JournalInv'
<1>1. WellTyped /\ RootNow /\ Point /\ mode = m
  BY DEF JournalInv, RootNow, StartupFails
<1>2. Standing
  BY <1>1 DEF Point, SettledDisk, Finalizing, FinishTail
<1>3. /\ SameDisk /\ SameRestore /\ UNCHANGED <<mem, accepted>> /\ pending' = FALSE
  BY DEF StartupFails
<1>4. CASE pending /\ ~BackOutUnavailable
  <2>1. mode' = "backing-out" /\ todo' = BackOutSteps
    BY <1>4 DEF StartupFails, GoesTo
  <2>2. Recovering'
    BY <1>1, <1>2, <1>3, <1>4, <2>1, BackOutShape DEF Standing
  <2>3. troubles' \in 0 .. MaxTroubles
    BY <1>1, Troubled
  <2>4. mode' \in Modes /\ Point'
    BY <2>1, <2>2, PointRecovering DEF Modes
  <2> QED
    BY <1>3, <2>3, <2>4, OnlyGoes
<1>5. CASE ~(pending /\ ~BackOutUnavailable)
  <2>1. mode' \in Idle /\ todo' = <<>>
    BY <1>5 DEF StartupFails, GoesTo, Idle
  <2> QED
    BY <1>3, <2>1, ToIdleKeeps
<1> QED
  BY <1>4, <1>5

LEMMA FinalizedKeeps ==
  ASSUME JournalInv, Finalized
  PROVE  JournalInv'
<1>1. WellTyped /\ Finalizing /\ served # Unserved /\ todo = <<>>
  BY DEF JournalInv, Point, Finalized
<1>2. accepted /\ ~Journal /\ Standing /\ Bare
  BY <1>1, LastSteps DEF Finalizing
<1>3. /\ SameDisk /\ SameRestore /\ UNCHANGED <<mem, accepted>> /\ pending' = FALSE
      /\ mode' = "serving" /\ todo' = <<>> /\ NoTrouble
  BY DEF Finalized, GoesTo
<1>4. troubles' \in 0 .. MaxTroubles /\ mode' \in Modes
  BY <1>1, <1>3, Troubled DEF Modes
<1>5. (accepted /\ ~Journal /\ Standing /\ Bare)' /\ served' # Unserved
  BY <1>1, <1>2, <1>3 DEF SameDisk, SameRestore, Journal, Standing, Bare, Absent
<1>6. Point'
  BY <1>3, <1>5 DEF Point
<1> QED
  BY <1>3, <1>4, <1>6, OnlyGoes

LEMMA PatchKeeps ==
  ASSUME JournalInv, PatchSettings
  PROVE  JournalInv'
<1>1. /\ WellTyped /\ RootNow /\ Credentials /\ mode = "serving" /\ todo = <<>> /\ served # Unserved
      /\ accepted /\ ~Journal /\ Standing /\ Bare
  BY DEF JournalInv, Point, PatchSettings, RootNow
<1>2. /\ files' = [files EXCEPT !["settings"] = mem]
      /\ UNCHANGED <<checkpoint, marker, mem, mode, todo, pending, accepted, prior, target>>
      /\ UNCHANGED <<restores, values, quarantine, resets, keys, served, troubles>>
  BY DEF PatchSettings, SameRestore, SameRun, NoTrouble
<1>3. files \in [Places -> Contents] /\ mem \in Contents /\ mem # Missing
  BY <1>1 DEF WellTyped, RootTyped
<1>4. /\ files' \in [Places -> Contents] /\ files'["settings"] # Missing
      /\ \A q \in Places \ {"settings"} : files'[q] = files[q]
  BY <1>2, <1>3, RootPlaces
<1>5. \A q \in Places : Absent(q)' <=> Absent(q)
  BY <1>1, <1>4 DEF Absent, Standing
<1>6. (Standing /\ Bare /\ ~Journal)'
  BY <1>1, <1>2, <1>5, RootPlaces DEF Standing, Bare, Journal
<1>7. RootNow'
  BY <1>1, <1>2, <1>4, <1>6
     DEF RootNow, RootInv, RootTyped, Undisturbed, Journal, NoCheckpoint, Standing, Bare, Absent
<1>8. WellTyped'
  BY <1>1, <1>2, <1>4 DEF WellTyped, RootTyped
<1>9. Credentials' /\ Point'
  BY <1>1, <1>2, <1>6 DEF Credentials, Usable, Point, Unserved, Every
<1> QED
  BY <1>7, <1>8, <1>9 DEF JournalInv, RootNow

LEMMA BeginRestoreKeeps ==
  ASSUME JournalInv, NEW v \in {1, 2}, BeginRestore(v)
  PROVE  JournalInv'
<1>1. WellTyped /\ RootNow /\ Credentials
  BY DEF JournalInv, RootNow
<1>2. /\ checkpoint = NoCheckpoint /\ files["database"] # Missing /\ restores < MaxBegun
      /\ restores' = restores + 1
      /\ files' = [files EXCEPT !["orphan"] = IF Leftover THEN Hollow ELSE Missing,
                                !["dbStaging"] = Missing, !["setStaging"] = Missing]
      /\ mode' = "restoring" /\ todo' = StageSteps(v, restores + 2) \o ActivateSteps(v)
      /\ prior' = Owners
      /\ target' = IF v = 1 THEN [Owners EXCEPT !.database = restores + 2]
                   ELSE [database |-> restores + 2, settings |-> restores + 2]
      /\ accepted' = FALSE
      /\ UNCHANGED <<checkpoint, marker, mem, pending, troubles>>
      /\ UNCHANGED <<keys, values, served, quarantine, resets>>
  BY DEF BeginRestore, Exists, GoesTo, resetVars, NoTrouble
<1>3. /\ files \in [Places -> Contents] /\ restores \in 0 .. MaxBegun /\ MaxBegun \in Nat
      /\ Hollow \in Contents /\ Missing \in Contents
  BY <1>1, RootPlaces, BoundsAreNaturals DEF WellTyped, RootTyped
<1>4. /\ files["dbDisplaced"] = Missing /\ files["setDisplaced"] = Missing /\ files["settings"] # Missing
  BY <1>1, <1>2 DEF RootNow, RootInv, Undisturbed
<1>5. /\ files' \in [Places -> Contents]
      /\ files'["database"] = files["database"] /\ files'["settings"] = files["settings"]
      /\ files'["dbDisplaced"] = Missing /\ files'["setDisplaced"] = Missing
      /\ files'["setStaging"] = Missing /\ files'["dbStaging"] = Missing
  BY <1>2, <1>3, <1>4, RootPlaces
<1>6. restores + 2 \in Whole /\ restores + 2 \in Contents \ {Missing} /\ restores' \in 0 .. MaxBegun
  <2>1. restores + 2 \in Whole /\ restores' \in 0 .. MaxBegun
    BY <1>2, <1>3 DEF Whole
  <2>2. restores + 2 # Missing
    BY <1>3, ContentsDiffer
  <2> QED
    BY <2>1, <2>2 DEF Contents
<1>7. files["database"] \in Contents \ {Missing} /\ files["settings"] \in Contents \ {Missing}
  BY <1>2, <1>3, <1>4, RootPlaces
<1>8. /\ prior' = [database |-> files["database"], settings |-> files["settings"]]
      /\ target' = [database |-> restores + 2,
                    settings |-> IF v = 1 THEN files["settings"] ELSE restores + 2]
  BY <1>2 DEF Owners
<1>9. /\ prior' \in [database : Contents \ {Missing}, settings : Contents \ {Missing}]
      /\ target' \in [database : Contents \ {Missing}, settings : Contents \ {Missing}]
  BY <1>6, <1>7, <1>8
<1>10. WellTyped'
  BY <1>1, <1>2, <1>5, <1>6, <1>9 DEF WellTyped, RootTyped, Modes
<1>11. Credentials'
  BY <1>1, <1>2 DEF Credentials, Usable
<1>12. (~accepted /\ target.database \in Whole)' /\ target'.database = restores + 2
  BY <1>2, <1>6, <1>8 DEF Whole
<1>13. todo' = RestoreSteps(v)'
  BY <1>2, <1>12 DEF RestoreSteps, StageSteps, ActivateSteps, Put, Move, Discard, Record,
     Invalidate, Verify
<1>14. ASSUME v = 1 PROVE Restoring'
  <2>1. (RestoreSteps(1) \in Seq(AllSteps))'
    BY <1>12, StepsV1, PTL
  <2>2. todo' = Rest(RestoreSteps(1), 1)'
    BY <1>13, <1>14, <2>1, RestEnds DEF Rest
  <2>3. RestoringV1(1)'
    BY <1>2, <1>5, <1>8, <1>14, <2>2 DEF RestoringV1, Journal, Absent
  <2>4. Restoring'
    BY <1>12, <2>3 DEF Restoring
  <2> QED
    BY <2>4
<1>15. ASSUME v = 2 PROVE Restoring'
  <2>1. (RestoreSteps(2) \in Seq(AllSteps))'
    BY <1>12, StepsV2, PTL
  <2>2. todo' = Rest(RestoreSteps(2), 1)'
    BY <1>13, <1>15, <2>1, RestEnds DEF Rest
  <2>3. RestoringV2(1)'
    <3>1. /\ ~Journal' /\ target'.settings = target'.database
          /\ files'["database"] = prior'.database /\ files'["settings"] = prior'.settings
          /\ files'["dbDisplaced"] = Missing /\ files'["setDisplaced"] = Missing
      BY <1>2, <1>5, <1>8, <1>15 DEF Journal
    <3>2. /\ 1 \notin 6 .. 7 /\ 1 \notin 8 .. 9 /\ 1 \notin 10 .. 11 /\ 1 \notin 12 .. 14
          /\ 1 \notin 15 .. 17 /\ 1 # 18 /\ 1 \notin 4 .. 10 /\ 1 \notin 5 .. 12
          /\ 1 <= 5 /\ 1 <= 6 /\ 1 <= 8
      OBVIOUS
    <3> QED
      BY <2>2, <3>1, <3>2, Zenon DEF RestoringV2, Absent
  <2> QED
    BY <1>12, <2>3 DEF Restoring
<1>16. Restoring'
  BY <1>14, <1>15
<1>17. RootNow'
  BY <1>10, <1>16, RestoringRoot, PTL
<1> QED
  BY <1>2, <1>10, <1>11, <1>16, <1>17, PointRestoring DEF JournalInv, RootNow
LEMMA RestoredKeeps ==
  ASSUME JournalInv, Restored
  PROVE  JournalInv'
<1>1. WellTyped /\ Restoring /\ todo = <<>> /\ ~accepted
  BY DEF JournalInv, Point, Restored, Restoring
<1>2. Standing /\ Owners = target
  BY <1>1, RestoringEnds
<1>3. /\ SameDisk /\ SameRestore /\ UNCHANGED <<mem, accepted, pending>>
      /\ mode' = "stopped" /\ todo' = <<>> /\ NoTrouble
  BY DEF Restored, GoesTo
<1>4. troubles' \in 0 .. MaxTroubles /\ mode' \in Modes /\ pending' \in BOOLEAN
  BY <1>1, <1>3, Troubled DEF Modes, WellTyped
<1>5. (~accepted /\ Standing /\ Owners = target)'
  BY <1>1, <1>2, <1>3 DEF SameDisk, SameRestore, SameRun, Standing, Absent, Owners
<1>6. Point'
  BY <1>3, <1>5 DEF Point
<1> QED
  BY <1>3, <1>4, <1>6, OnlyGoes

LEMMA RestoreFailsKeeps ==
  ASSUME JournalInv, RestoreFails
  PROVE  JournalInv'
<1>1. WellTyped /\ RootNow /\ ~accepted
  BY DEF JournalInv, Point, RestoreFails, Restoring, RootNow
<1>2. /\ SameDisk /\ SameRestore /\ UNCHANGED <<mem, accepted, pending>> /\ Trouble
  BY DEF RestoreFails
<1>3. troubles' \in 0 .. MaxTroubles /\ pending' \in BOOLEAN /\ ~accepted'
  BY <1>1, <1>2, Troubled DEF WellTyped
<1>4. CASE mode' = "cleaning" /\ todo' = <<Discard({"dbStaging", "setStaging"})>>
  <2>1. mode' \in Modes /\ Point'
    BY <1>3, <1>4, PointCleaning DEF Modes
  <2> QED
    BY <1>2, <1>3, <2>1, OnlyGoes
<1>5. CASE mode' = "idle" /\ todo' = <<>>
  BY <1>2, <1>3, <1>5, ToIdleKeeps DEF Idle
<1>6. CASE Journaled /\ ~Unavailable /\ mode' = "undoing" /\ todo' = RecoverSteps
  <2>1. Recovering'
    BY <1>1, <1>2, <1>6, RecoverShape DEF Journaled, Journal
  <2>2. mode' \in Modes /\ Point'
    BY <1>3, <1>6, <2>1, PointUndoing DEF Modes
  <2> QED
    BY <1>2, <1>3, <2>2, OnlyGoes
<1> QED
  BY <1>4, <1>5, <1>6 DEF RestoreFails, GoesTo

LEMMA ConnectKeeps ==
  ASSUME JournalInv, ConnectOrDisconnect
  PROVE  JournalInv'
<1>1. /\ WellTyped /\ RootNow /\ Credentials /\ mode = "serving" /\ todo = <<>> /\ served # Unserved
      /\ accepted /\ ~Journal /\ Standing /\ Bare
  BY DEF JournalInv, Point, ConnectOrDisconnect, RootNow
<1>2. /\ keys' = [keys EXCEPT !["account"] = IF @ = 0 THEN resets + 1 ELSE 0] /\ served' = keys'
      /\ UNCHANGED <<files, checkpoint, marker, mem, mode, todo, pending, accepted>>
      /\ UNCHANGED <<prior, target, restores, values, quarantine, resets, troubles>>
  BY DEF ConnectOrDisconnect, SameDisk, SameRun, NoTrouble
<1>3. /\ keys \in [Keys -> 0 .. MaxResets + 1] /\ resets \in 0 .. MaxResets /\ MaxResets \in Nat
      /\ {"secret", "admin", "account"} \subseteq Keys
      /\ Usable(keys)
  BY <1>1, BoundsAreNaturals DEF WellTyped, Keys, Credentials
<1>4. resets + 1 \in 0 .. MaxResets + 1 /\ 0 \in 0 .. MaxResets + 1
  BY <1>3
<1>5. /\ keys' \in [Keys -> 0 .. MaxResets + 1]
      /\ keys'["secret"] = keys["secret"] /\ keys'["admin"] = keys["admin"]
  BY <1>2, <1>3, <1>4
<1>6. Credentials' /\ served' # Unserved' /\ served' \in [Keys -> 0 .. MaxResets + 2]
  <2>1. Usable(keys')
    BY <1>3, <1>5 DEF Usable
  <2>2. keys' # Unserved
    BY <1>5, UnreadKeys
  <2>3. keys' \in [Keys -> 0 .. MaxResets + 2]
    BY <1>3, <1>5
  <2> QED
    BY <1>2, <2>1, <2>2, <2>3 DEF Credentials, Usable, Unserved, Every
<1>7. WellTyped'
  BY <1>1, <1>2, <1>5, <1>6 DEF WellTyped, RootTyped
<1>8. RootNow'
  BY <1>1, <1>2, RootStays
<1>9. Point'
  BY <1>1, <1>2, <1>6 DEF Point, Journal, Standing, Bare, Absent
<1> QED
  BY <1>6, <1>7, <1>8, <1>9 DEF JournalInv, RootNow

LEMMA BeginResetKeeps ==
  ASSUME JournalInv, BeginReset
  PROVE  JournalInv'
<1>1. WellTyped /\ RootNow /\ Credentials
  BY DEF JournalInv, RootNow
<1>2. /\ resets < MaxResets /\ resets' = resets + 1 /\ values' = Every(Unread)
      /\ mode' = "resetting" /\ todo' = ResetSteps
      /\ UNCHANGED <<files, checkpoint, marker, mem, pending, accepted, prior, target>>
      /\ UNCHANGED <<restores, keys, served, quarantine, troubles>>
  BY DEF BeginReset, GoesTo, SameDisk, NoTrouble
<1>3. resets' \in 0 .. MaxResets /\ values' \in [Keys -> 0 .. MaxResets + 2]
  BY <1>1, <1>2, UnreadKeys, BoundsAreNaturals DEF WellTyped
<1>4. WellTyped'
  BY <1>1, <1>2, <1>3 DEF WellTyped, RootTyped, Modes
<1>5. RootNow' /\ Credentials'
  BY <1>1, <1>2, RootStays
<1>6. todo' = Rest(ResetSteps, 1)
  BY <1>2, StepsOfReset, RestEnds, Zenon
<1>7. (todo = Rest(ResetSteps, 1) /\ values = Every(Unread))'
  BY <1>2, <1>6 DEF Rest, ResetSteps, ForKeys, BackUp, MoveRoot, Records, Every, Unread
<1>8. Resetting'
  <2>1. 1 \in 1 .. 9 /\ ~(1 > 2) /\ \A i \in 1 .. 3 : ~(1 > i + 5)
    OBVIOUS
  <2> QED
    BY <1>7, <2>1 DEF Resetting
<1> QED
  BY <1>2, <1>4, <1>5, <1>8, PointResetting DEF JournalInv, RootNow

LEMMA ResetDoneKeeps ==
  ASSUME JournalInv, ResetDone
  PROVE  JournalInv'
<1>1. WellTyped /\ Resetting /\ todo = <<>>
  BY DEF JournalInv, Point, ResetDone
<1>2. PICK k \in 1 .. 9 : /\ todo = Rest(ResetSteps, k)
                          /\ k > 2 => InQuarantine
                          /\ \A i \in 1 .. 3 : k > i + 5 => keys[Records[i]] = 0
  BY <1>1 DEF Resetting
<1>3. k = 9
  <2>1. ResetSteps \in Seq(AllSteps) /\ Len(ResetSteps) = 8
    BY StepsOfReset
  <2>2. ASSUME k \in 1 .. 8 PROVE FALSE
    <3>1. k \in 1 .. Len(ResetSteps)
      BY <2>1, <2>2
    <3>2. Rest(ResetSteps, k) # <<>>
      BY <2>1, <3>1, RestOf, Zenon
    <3> QED
      BY <1>1, <1>2, <3>2
  <2> QED
    BY <2>2
<1>4. accepted /\ \A i \in 1 .. 3 : keys[Records[i]] = 0
  BY <1>2, <1>3 DEF InQuarantine, NoRoot
<1>5. keys = Every(0)
  <2>1. \A r \in Keys : keys[r] = 0
    BY <1>4, RecordsOf
  <2>2. keys \in [Keys -> 0 .. MaxResets + 1]
    BY <1>1 DEF WellTyped
  <2> QED
    BY <2>1, <2>2 DEF Every
<1>6. /\ SameDisk /\ SameRestore /\ UNCHANGED <<mem, accepted, pending>>
      /\ mode' = "stopped" /\ todo' = <<>> /\ NoTrouble
  BY DEF ResetDone, GoesTo
<1>7. troubles' \in 0 .. MaxTroubles /\ mode' \in Modes /\ pending' \in BOOLEAN
  BY <1>1, <1>6, Troubled DEF Modes, WellTyped
<1>8. (accepted /\ keys = Every(0))'
  BY <1>4, <1>5, <1>6 DEF SameRestore, Every
<1>9. Point'
  BY <1>6, <1>8 DEF Point
<1> QED
  BY <1>6, <1>7, <1>9, OnlyGoes

LEMMA UpdateKeeps ==
  ASSUME JournalInv, Update
  PROVE  JournalInv'
<1>1. WellTyped /\ RootNow /\ Credentials /\ mode = "down" /\ todo = <<>>
  BY DEF JournalInv, Point, Update, RootNow
<1>2. /\ marker' = FALSE
      /\ UNCHANGED <<files, checkpoint, mem, mode, todo, pending, accepted, prior, target>>
      /\ UNCHANGED <<restores, values, quarantine, resets, keys, served, troubles>>
  BY DEF Update, SameRestore, SameRun, NoTrouble
<1>3. WellTyped'
  BY <1>1, <1>2 DEF WellTyped, RootTyped
<1>4. RootNow' /\ Credentials' /\ Point'
  BY <1>1, <1>2, RootStays, PointIdle DEF Idle
<1> QED
  BY <1>3, <1>4 DEF JournalInv, RootNow
-----------------------------------------------------------------------------
(* The invariant holds, and with it the properties.                        *)

LEMMA InitHolds == RestoreInit => JournalInv
<1> SUFFICES ASSUME RestoreInit PROVE JournalInv
  OBVIOUS
<1>1. 1 \in Contents /\ Missing \in Contents /\ 1 # Missing
  BY BoundsAreNaturals, ContentsDiffer DEF Contents, Whole
<1>2. /\ files \in [Places -> Contents]
      /\ files["database"] = 1 /\ files["settings"] = 1
      /\ files["dbDisplaced"] = Missing /\ files["setDisplaced"] = Missing
  BY <1>1, RootPlaces DEF RestoreInit
<1>3. prior = [database |-> 1, settings |-> 1] /\ target = [database |-> 1, settings |-> 1]
  BY <1>2 DEF RestoreInit, Owners
<1>4. /\ keys \in [Keys -> 0 .. MaxResets + 1] /\ served \in [Keys -> 0 .. MaxResets + 2]
      /\ values \in [Keys -> 0 .. MaxResets + 2]
  <2>1. 1 \in 0 .. MaxResets + 1
    BY BoundsAreNaturals
  <2>2. keys = Every(1) /\ served = Unserved /\ values = Every(Unread)
    BY DEF RestoreInit
  <2>3. Every(1) \in [Keys -> 0 .. MaxResets + 1]
    BY <2>1 DEF Every
  <2> QED
    BY <2>2, <2>3, UnreadKeys
<1>5. WellTyped
  <2>1. RootTyped(files, checkpoint, accepted)
    BY <1>2 DEF RestoreInit, RootTyped, Checkpoints
  <2>2. /\ marker \in BOOLEAN /\ pending \in BOOLEAN /\ mem \in Contents \ {Missing} /\ mode \in Modes
    BY <1>1 DEF RestoreInit, Modes
  <2>3. restores \in 0 .. MaxBegun /\ troubles \in 0 .. MaxTroubles /\ resets \in 0 .. MaxResets
    BY BoundsAreNaturals DEF RestoreInit
  <2> QED
    BY <1>1, <1>3, <1>4, <2>1, <2>2, <2>3 DEF WellTyped
<1>6. RootInv(files, checkpoint, accepted)
  BY <1>1, <1>2, <1>3, <1>5 DEF RestoreInit, RootInv, WellTyped, Undisturbed, Recoverable, Whether, NoCheckpoint
<1>7. Credentials /\ Point
  BY DEF RestoreInit, Credentials, Point
<1> QED
  BY <1>5, <1>6, <1>7 DEF JournalInv

LEMMA StutterHolds ==
  ASSUME JournalInv, UNCHANGED rootVars
  PROVE  JournalInv'
<1>1. WellTyped /\ RootNow /\ Credentials /\ Point
  BY DEF JournalInv, RootNow
<1>2. /\ UNCHANGED <<files, checkpoint, marker, mem, mode, todo, pending, prior, target>>
      /\ UNCHANGED <<accepted, restores, troubles, keys, values, served, quarantine, resets>>
  BY DEF rootVars, restoreVars, resetVars
<1>3. WellTyped'
  BY <1>1, <1>2 DEF WellTyped, RootTyped
<1>4. RootNow' /\ Credentials'
  BY <1>1, <1>2, RootStays
<1>5. Point'
  <2>1. (SettledDisk' <=> SettledDisk) /\ (Recovering' <=> Recovering) /\ (Finalizing' <=> Finalizing)
    BY <1>2 DEF SettledDisk, Recovering, Finalizing, Standing, Journal, Absent, Whether, Bare,
       UndoTail, SetTail, EndTail, FinishTail, SetTails, EndTails, SetBack, SetSwap, DbBack, DbSwap,
       FinishPlaces, Discard, Forget, Record, Move, NoCheckpoint
  <2>2. Restoring' <=> Restoring
    BY <1>2 DEF Restoring, RestoringV1, RestoringV2, RestoreSteps, StageSteps, ActivateSteps, Rest,
       At, Absent, Journal, NoCheckpoint, Whole, Put, Move, Record, Discard, Invalidate, Verify
  <2>3. (Resetting' <=> Resetting) /\ (Reverting' <=> Reverting)
    BY <1>2 DEF Resetting, Reverting, InQuarantine, NoRoot, RecordKept, Quarantined, Journal,
       RootInv, RootTyped, Undisturbed, Recoverable, OwnerHeld, Whether, Usable, Rest, ResetSteps,
       ForKeys, BackUp, MoveRoot, ReturnRoot, Records, Every, Unread, Unserved, Writes, WriteKey,
       When, Keys, NoCheckpoint, Contents, Whole, Checkpoints
  <2>4. /\ (Standing' <=> Standing) /\ (Journal' <=> Journal) /\ (Bare' <=> Bare)
        /\ Owners' = Owners /\ Unserved' = Unserved /\ Every(0)' = Every(0)
    BY <1>2 DEF Standing, Journal, Bare, Absent, NoCheckpoint, Owners, Unserved, Every
  <2> QED
    BY <1>1, <1>2, <2>1, <2>2, <2>3, <2>4 DEF Point
<1> QED
  BY <1>3, <1>4, <1>5 DEF JournalInv, RootNow

LEMMA NextHolds ==
  ASSUME JournalInv, RestoreNext
  PROVE  JournalInv'
<1>1. CASE Step
  BY <1>1, StepKeeps
<1>2. CASE Startup
  <2>1. CASE RecoveryThrows
    <3>1. SameDisk /\ SameRestore /\ UNCHANGED <<mem, accepted, pending>> /\ NoTrouble
          /\ mode' \in Idle /\ todo' = <<>>
      BY <2>1 DEF RecoveryThrows, GoesTo, Idle
    <3>2. pending' \in BOOLEAN
      BY <3>1 DEF JournalInv, WellTyped
    <3> QED
      BY <3>1, <3>2, ToIdleKeeps
  <2>2. CASE BackedOut
    <3>1. SameDisk /\ SameRestore /\ UNCHANGED <<mem, accepted, pending>> /\ NoTrouble
          /\ mode' \in Idle /\ todo' = <<>>
      BY <2>2 DEF BackedOut, GoesTo, Idle
    <3>2. pending' \in BOOLEAN
      BY <3>1 DEF JournalInv, WellTyped
    <3> QED
      BY <3>1, <3>2, ToIdleKeeps
  <2> QED
    BY <1>2, <2>1, <2>2, OpenStoresKeeps, RecoverKeeps, RecoveredKeeps, HealthyKeeps, FinalizedKeeps
       DEF Startup
<1>3. CASE RestoreEnds \/ UndoFails \/ DrainFails \/ Reverted
  <2>1. CASE Restored
    BY <2>1, RestoredKeeps
  <2>2. CASE RestoreUndone \/ UndoFails \/ DrainFails \/ Reverted
    <3>1. SameDisk /\ SameRestore /\ UNCHANGED <<mem, accepted, pending>> /\ (Trouble \/ NoTrouble)
          /\ mode' \in Idle /\ todo' = <<>>
      BY <2>2 DEF RestoreUndone, UndoFails, DrainFails, Reverted, GoesTo, Idle
    <3>2. pending' \in BOOLEAN
      BY <3>1 DEF JournalInv, WellTyped
    <3> QED
      BY <3>1, <3>2, ToIdleKeeps
  <2> QED
    BY <1>3, <2>1, <2>2 DEF RestoreEnds
<1>4. CASE Unhealthy \/ FinalizeFails
  BY <1>4, StartupFailsKeeps DEF Unhealthy, FinalizeFails
<1>5. CASE Ends
  <2>1. SameDisk /\ SameRestore /\ UNCHANGED <<mem, accepted>> /\ pending' = FALSE
        /\ (Trouble \/ NoTrouble) /\ mode' \in Idle /\ todo' = <<>>
    BY <1>5 DEF Ends, GoesTo, Idle
  <2> QED
    BY <2>1, ToIdleKeeps
<1>6. CASE Reset
  BY <1>3, <1>6, BeginResetKeeps, ResetStepKeeps, ResetDoneKeeps, ResetFailsKeeps, RevertFailsKeeps
     DEF Reset
<1>7. CASE \E v \in {1, 2} : BeginRestore(v)
  BY <1>7, BeginRestoreKeeps
<1> QED
  BY <1>1, <1>2, <1>3, <1>4, <1>5, <1>6, <1>7, RestoreFailsKeeps, PatchKeeps, ConnectKeeps, UpdateKeeps
     DEF RestoreNext

LEMMA RestoreInvariant == RestoreSpec => []JournalInv
<1>1. JournalInv /\ [RestoreNext]_rootVars => JournalInv'
  BY NextHolds, StutterHolds
<1> QED
  BY <1>1, InitHolds, PTL DEF RestoreSpec

LEMMA PriorIsKept == JournalInv => PriorKept
<1> SUFFICES ASSUME JournalInv PROVE PriorKept
  OBVIOUS
<1>1. WellTyped /\ RootNow /\ Point
  BY DEF JournalInv, RootNow
<1>2. prior.database # Missing /\ prior.settings # Missing
  BY <1>1 DEF WellTyped
<1>3. ASSUME Journal, ~accepted
      PROVE  /\ OwnerHeld(files, "database", "dbDisplaced", prior.database, {Missing, Hollow, target.database})
             /\ OwnerHeld(files, "settings", "setDisplaced", prior.settings, {Missing, Default, target.settings})
             /\ checkpoint.version = 2 /\ checkpoint.phase \notin {"verified", "database-displaced"}
                /\ files["setDisplaced"] = Missing => files["dbDisplaced"] = Missing
  BY <1>1, <1>3 DEF RootNow, RootInv, Recoverable, Journal
<1>4. ASSUME checkpoint # NoCheckpoint, ~accepted
      PROVE  /\ prior.database \in {files["database"], files["dbDisplaced"]}
             /\ prior.settings \in {files["settings"], files["setDisplaced"]}
  BY <1>3, <1>4 DEF OwnerHeld, Journal
<1>5. ASSUME mode = "opened", Unavailable
      PROVE  checkpoint.version = 2 /\ (~accepted => files["database"] = prior.database)
  <2>1. files["database"] # Missing /\ files["settings"] # Missing
    BY <1>1, <1>5 DEF Point, Standing, Absent
  <2>2. checkpoint # NoCheckpoint /\ checkpoint.version # 1 /\ UndoV2Unavailable
    BY <1>5, <2>1 DEF Unavailable, Exists
  <2>3. checkpoint.version = 2 /\ Journal
    BY <1>1, <2>2, Versions DEF Journal
  <2>4. \/ checkpoint.phase # "verified" /\ files["dbDisplaced"] = Missing
        \/ /\ checkpoint.phase \notin {"verified", "database-displaced"}
           /\ files["setDisplaced"] = Missing
    BY <2>1, <2>2 DEF UndoV2Unavailable, Exists
  <2>5. ASSUME ~accepted PROVE files["database"] = prior.database
    <3>1. files["dbDisplaced"] = Missing
      BY <1>3, <2>3, <2>4, <2>5
    <3> QED
      BY <1>2, <1>3, <2>3, <2>5, <3>1 DEF OwnerHeld
  <2> QED
    BY <2>3, <2>5
<1> QED
  BY <1>4, <1>5 DEF PriorKept

LEMMA PairIsOneOfTheTwo == JournalInv => OneOfTheTwo
<1> SUFFICES ASSUME JournalInv PROVE OneOfTheTwo
  OBVIOUS
<1>1. WellTyped /\ RootNow /\ Point
  BY DEF JournalInv, RootNow
<1>2. ASSUME checkpoint = NoCheckpoint, ~accepted PROVE Owners = prior
  <2>1. files["database"] = prior.database /\ files["settings"] = prior.settings
    BY <1>1, <1>2 DEF RootNow, RootInv, Recoverable
  <2> QED
    BY <1>1, <2>1 DEF Owners, WellTyped
<1>3. ASSUME VerifiedPending, ~accepted
      PROVE  /\ files["database"] \in {target.database, Hollow}
             /\ files["settings"] = target.settings
             /\ mode = "stopped" => Owners = target
  <2>1. /\ Whether(checkpoint) /\ checkpoint # NoCheckpoint
        /\ files["database"] # Missing /\ files["dbDisplaced"] # Missing
    BY <1>3 DEF VerifiedPending, Whether, Exists, NoCheckpoint
  <2>2. /\ OwnerHeld(files, "database", "dbDisplaced", prior.database, {Missing, Hollow, target.database})
        /\ files["settings"] = target.settings
    BY <1>1, <1>3, <2>1 DEF RootNow, RootInv, Recoverable
  <2> QED
    BY <1>1, <1>3, <2>1, <2>2 DEF OwnerHeld, Point
<1>4. ASSUME mode = "serving"
      PROVE  \A p \in {"dbStaging", "dbDisplaced", "setStaging", "setDisplaced"} : ~Exists(p)
  BY <1>1, <1>4 DEF Point, Bare, Absent, Exists
<1> QED
  BY <1>2, <1>3, <1>4 DEF OneOfTheTwo

LEMMA RecordsFollow == JournalInv => CredentialsFollowRoot
<1> SUFFICES ASSUME JournalInv PROVE CredentialsFollowRoot
  OBVIOUS
<1>1. mode = "stopped" /\ ~Exists("database") => keys = Every(0)
  BY DEF JournalInv, Point, Standing, Absent, Exists
<1> QED
  BY <1>1 DEF JournalInv, Credentials, CredentialsFollowRoot

\* Whatever a restore, a reset, a start or a crash does, every place of the
\* data root has a known content and the journal one of the phases that
\* restore.ts writes.
THEOREM RestoreTyped == RestoreSpec => []RestoreTypeOK
<1>1. JournalInv => RestoreTypeOK
  BY DEF JournalInv, WellTyped, RootTyped, RestoreTypeOK
<1> QED
  BY <1>1, RestoreInvariant, PTL

\* However many restores, resets and crashes: until a startup accepts the
\* outcome of a restore, the prior database and settings are in their place or
\* under the name the journal has for them, a settled restore leaves the prior
\* pair or the backup's pair and never one of each, and a startup can only be
\* stuck on a version 2 roll-back that has put the prior database back.
THEOREM OwnersNeverLost == RestoreSpec => []OwnersKept
<1>1. JournalInv => OwnersKept
  BY PriorIsKept, PairIsOneOfTheTwo DEF OwnersKept
<1> QED
  BY <1>1, RestoreInvariant, PTL

\* A root that a startup was healthy with is never in its place without the
\* very Keychain records it was served with, wherever resetLocalData or its
\* roll-back is cut short, and a reset that ends well leaves no record.
THEOREM RecordsFollowRoot == RestoreSpec => []CredentialsFollowRoot
BY RestoreInvariant, RecordsFollow, PTL
=============================================================================
