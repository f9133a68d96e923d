---------------------------- MODULE CodexHostProofs ----------------------------
(***************************************************************************)
(* Proofs about CodexHost, for any number of attempts, generations and     *)
(* troubles.                                                               *)
(***************************************************************************)
EXTENDS CodexHost, TLAPS

\* The attempt has its lease, and has not let go of it.
Taken(a) == attempt[a].pc \in {"threading", "starting", "quarantining", "running", "settling"}

\* A refresh brings a generation up.
Starting == refresh.pc \in {"spawning", "initializing"}

\* What the run, the turn and the interrupt of one attempt say of one another.
RunOK(a) ==
  /\ attempt[a].pc \in {"idle", "acquiring", "threading"} => turn[a] = "none" /\ attempt[a].phase = 0
  /\ attempt[a].pc \in {"idle", "acquiring", "threading"} => interrupt[a].pc \in {"none", "over"}
  /\ attempt[a].outcome # "none" => attempt[a].pc \in {"settling", "over"}
  /\ interrupt[a].pc # "over" => interrupt[a].terminal = "none"
  /\ attempt[a].pc \in {"idle", "acquiring", "threading"} /\ ~attempt[a].cancelled =>
       interrupt[a].terminal = "none"
  /\ Active(a) => interrupt[a].terminal \notin {"completed", "interrupted"}
  /\ attempt[a].outcome # "unknown" /\ attempt[a].pc \in {"settling", "over"} => turn[a] # "open"
  /\ attempt[a].outcome # "unknown" /\ interrupt[a].terminal \in {"completed", "interrupted"} =>
       turn[a] # "open"

\* Where an attempt stands with the host: it has the slot while it waits, and the lease until
\* it ends or the host is closed, and nobody starts a generation under a number it holds.
PlaceOK(a) ==
  /\ attempt[a].pc = "acquiring" /\ host.accepting => host.active = a
  /\ Taken(a) => attempt[a].own \in Gens
  /\ Taken(a) /\ ~host.closed => host.lease = a
  /\ host.active = a => attempt[a].pc \notin {"idle", "over"}
  /\ host.lease = a => Taken(a) /\ host.active = a
  /\ Starting /\ attempt[a].own = refresh.gen => attempt[a].pc = "over"
  /\ attempt[a].pc = "quarantining" => host.client # attempt[a].own
  /\ attempt[a].pc = "settling" /\ attempt[a].outcome = "unknown" => host.client # attempt[a].own

\* The host, its client and the refresh in flight.
HostOK ==
  /\ host.closed => ~host.accepting /\ host.client = None
  /\ host.stale /\ host.accepting => host.lease # None
  /\ host.active = Login => login.pc \notin {"idle", "over"}
  /\ Starting => refresh.gen \in Gens
  /\ refresh.pc = "spawning" => gen[refresh.gen] = "spawning"
  /\ refresh.pc = "initializing" => gen[refresh.gen] # "spawning"
  /\ refresh.pc \in {"closing", "dropping", "spawning", "initializing", "discarding"} =>
       host.client = None

GenOK(g) ==
  /\ host.client = g => gen[g] # "spawning"
  /\ gen[g] \in {"spawning", "up"} => host.client = g \/ (Starting /\ refresh.gen = g)

IInv ==
  /\ TypeOK
  /\ HostOK
  /\ \A g \in Gens : GenOK(g)
  /\ \A a \in Attempts : RunOK(a)
  /\ \A a \in Attempts : PlaceOK(a)

-----------------------------------------------------------------------------

LEMMA Names == None \notin Gens /\ None \notin Attempts /\ None # Login /\ Login \notin Attempts
BY NoneAssumption, RoomAssumption DEF Attempts, Login

LEMMA InitIInv == Init => IInv
<1> SUFFICES ASSUME Init PROVE IInv
  OBVIOUS
<1>1. TypeOK
  BY RoomAssumption, Names DEF Init, TypeOK, Idle, NoAttempt, Generation, HostState, RefreshState,
     Run, InterruptState, LoginState
<1>2. HostOK /\ (\A g \in Gens : GenOK(g))
  BY Names DEF Init, HostOK, GenOK, Starting, Idle
<1>3. ASSUME NEW a \in Attempts PROVE RunOK(a) /\ PlaceOK(a)
  BY Names DEF Init, RunOK, PlaceOK, Taken, Starting, Active, Idle, NoAttempt
<1> QED
  BY <1>1, <1>2, <1>3 DEF IInv

-----------------------------------------------------------------------------
(* What ends a generation. *)

\* The client is closed, and host goes on as h without it.
LEMMA Closes ==
  ASSUME IInv, NEW h \in HostState, h.client = host.client, CloseClient(h)
  PROVE  /\ gen' \in [Gens -> Generation]
         /\ host' \in HostState
         /\ host'.client = None
         /\ host'.active = h.active /\ host'.lease = h.lease /\ host'.stale = h.stale
         /\ host'.accepting = h.accepting /\ host'.closed = h.closed
         /\ \A g \in Gens : gen'[g] = IF g = host.client /\ gen[g] = "up" THEN "gone" ELSE gen[g]
<1>1. gen \in [Gens -> Generation] /\ host \in HostState
  BY DEF IInv, TypeOK
<1>2. /\ host' \in HostState
      /\ host'.client = None
      /\ host'.active = h.active /\ host'.lease = h.lease /\ host'.stale = h.stale
      /\ host'.accepting = h.accepting /\ host'.closed = h.closed
  BY DEF CloseClient, Without, HostState
<1>3. gen' = Ended(host.client)
  BY DEF CloseClient
<1> QED
  BY <1>1, <1>2, <1>3, Names DEF Ended, Up, Generation, HostState

-----------------------------------------------------------------------------
(* refresh *)

\* What the end of a refresh does to an attempt that waited for it.
LEMMA Ends ==
  ASSUME NEW h, NEW status, RefreshEnds(h, status)
  PROVE  /\ attempt' = [a \in Attempts |->
              IF ~Waits(a) THEN attempt[a]
              ELSE IF status = "ready" THEN Serves(attempt[a], h.client)
              ELSE [attempt[a] EXCEPT !.pc = "over"]]
         /\ interrupt' = [a \in Attempts |->
              IF Waits(a) /\ status = "ready" THEN Hears(attempt[a], interrupt[a])
              ELSE interrupt[a]]
BY DEF RefreshEnds

LEMMA ServesRun ==
  ASSUME NEW run \in Run, NEW g \in Gens \cup {None}
  PROVE  /\ Serves(run, g) \in Run
         /\ Serves(run, g).own = g
         /\ Serves(run, g).phase = run.phase /\ Serves(run, g).cancelled = run.cancelled
         /\ run.cancelled => Serves(run, g).pc = "settling" /\ Serves(run, g).outcome = "failed"
         /\ ~run.cancelled => Serves(run, g).pc = "threading" /\ Serves(run, g).outcome = run.outcome
<1>1. CASE run.cancelled
  <2>1. Serves(run, g) = [run EXCEPT !.own = g, !.pc = "settling", !.outcome = "failed"]
    BY <1>1 DEF Serves
  <2> QED
    BY <1>1, <2>1 DEF Run
<1>2. CASE ~run.cancelled
  <2>1. Serves(run, g) = [run EXCEPT !.own = g, !.pc = "threading", !.outcome = run.outcome]
    BY <1>2 DEF Serves
  <2> QED
    BY <1>2, <2>1 DEF Run
<1> QED
  BY <1>1, <1>2

LEMMA Joined ==
  ASSUME IInv, NEW h \in HostState, h.client = host.client, h.lease = host.lease,
         h.active = host.active,
         NEW status \in {"ready", "failed", "needs-reprobe", "unavailable", "signed-out"},
         status = "ready" => host.accepting,
         RefreshEnds(h, status), NEW a \in Attempts, attempt[a].pc = "acquiring", turn' = turn
  PROVE  /\ attempt'[a] \in Run
         /\ interrupt'[a] \in InterruptState
         /\ attempt'[a].pc = "over" \/ (status = "ready" /\ Taken(a)' /\ attempt'[a].own = h.client)
         /\ status = "ready" => Taken(a)'
         /\ attempt'[a].pc \in {"threading", "settling", "over"}
         /\ attempt'[a].outcome \in {"none", "failed"}
         /\ RunOK(a)'
<1>1. attempt[a] \in Run /\ interrupt[a] \in InterruptState /\ RunOK(a)
  BY DEF IInv, TypeOK
<1>2. CASE status = "ready"
  <2>1. attempt'[a] = Serves(attempt[a], h.client)
    BY <1>2, Ends DEF Waits
  <2>3. interrupt'[a] = Hears(attempt[a], interrupt[a])
    BY <1>2, Ends DEF Waits
  <2>2. attempt'[a] \in Run /\ interrupt'[a] \in InterruptState
    BY <1>1, <2>1, <2>3, ServesRun DEF InterruptState, HostState, Hears
  <2> QED
    BY <1>1, <1>2, <2>1, <2>2, <2>3, ServesRun DEF Run, HostState, Hears, Taken, RunOK, Active
<1>3. CASE status # "ready"
  <2>1. attempt'[a] = [attempt[a] EXCEPT !.pc = "over"] /\ interrupt'[a] = interrupt[a]
    BY <1>3, Ends DEF Waits
  <2> QED
    BY <1>1, <1>3, <2>1 DEF Run, InterruptState, Taken, RunOK, Active
<1> QED
  BY <1>2, <1>3

LEMMA RefreshEndsKeeps ==
  ASSUME IInv, NEW h \in HostState, h.client = host.client, h.lease = host.lease,
         h.active = host.active, h.accepting = host.accepting, h.closed = host.closed,
         h.stale # host.stale => h.lease # None,
         NEW status \in {"ready", "failed", "needs-reprobe", "unavailable", "signed-out"},
         status = "ready" => host.accepting /\ host.client # None,
         RefreshEnds(h, status),
         gen' \in [Gens -> Generation],
         \A g \in Gens : gen'[g] # "gone" => gen'[g] = gen[g] /\ host.client = g,
         UNCHANGED <<machine, turn, troubles>>
  PROVE  IInv'
<1>1. \A a \in Attempts : attempt[a].pc # "acquiring" =>
        attempt'[a] = attempt[a] /\ interrupt'[a] = interrupt[a]
  BY Ends DEF Waits
<1>2. ASSUME NEW a \in Attempts, attempt[a].pc = "acquiring"
      PROVE  /\ attempt'[a] \in Run /\ interrupt'[a] \in InterruptState
             /\ attempt'[a].pc = "over" \/ (status = "ready" /\ Taken(a)' /\ attempt'[a].own = h.client)
             /\ status = "ready" => Taken(a)'
             /\ attempt'[a].pc \in {"threading", "settling", "over"}
             /\ attempt'[a].outcome \in {"none", "failed"}
             /\ RunOK(a)'
  BY <1>2, Joined
<1>3. refresh' = Idle
  BY DEF RefreshEnds
<1>4. /\ host'.client = h.client /\ host'.identity = h.identity /\ host'.stale = h.stale
      /\ host'.accepting = h.accepting /\ host'.closed = h.closed
      /\ host' \in HostState
  <2>1. ASSUME NEW S \in SUBSET Attempts, S # {} PROVE (CHOOSE a \in S : TRUE) \in Attempts
    BY <2>1
  <2>2. {a \in Attempts : Waits(a)} \in SUBSET Attempts
    OBVIOUS
  <2> QED
    BY <2>1, <2>2 DEF RefreshEnds, HostState
<1>5. login' \in LoginState
  BY DEF IInv, TypeOK, RefreshEnds, SignsOn, LoginState, HostState
<1>6. attempt' \in [Attempts -> Run] /\ interrupt' \in [Attempts -> InterruptState]
  <2>1. attempt \in [Attempts -> Run] /\ interrupt \in [Attempts -> InterruptState]
    BY DEF IInv, TypeOK
  <2>2. \A a \in Attempts : attempt'[a] \in Run /\ interrupt'[a] \in InterruptState
    BY <1>1, <1>2, <2>1
  <2>3. /\ attempt' = [a \in Attempts |-> attempt'[a]]
        /\ interrupt' = [a \in Attempts |-> interrupt'[a]]
    BY Ends, Zenon
  <2>4. ASSUME NEW f, NEW S, f = [a \in Attempts |-> f[a]], \A a \in Attempts : f[a] \in S
        PROVE  f \in [Attempts -> S]
    BY <2>4, Zenon
  <2>5. attempt' \in [Attempts -> Run]
    BY <2>2, <2>3, <2>4, Zenon
  <2>6. interrupt' \in [Attempts -> InterruptState]
    BY <2>2, <2>3, <2>4, Zenon
  <2> QED
    BY <2>5, <2>6
<1>7. TypeOK'
  BY <1>3, <1>4, <1>5, <1>6 DEF IInv, TypeOK, Idle, RefreshState
<1>8. ASSUME NEW a \in Attempts PROVE RunOK(a)'
  <2>1. CASE attempt[a].pc = "acquiring"
    BY <1>2, <2>1
  <2>2. CASE attempt[a].pc # "acquiring"
    BY <1>1, <2>2 DEF IInv, RunOK, Active
  <2> QED
    BY <2>1, <2>2
<1>9. ASSUME NEW g \in Gens PROVE GenOK(g)'
  BY <1>3, <1>4 DEF IInv, TypeOK, GenOK, Starting, Idle, Generation
<1> DEFINE waits == {a \in Attempts : Waits(a)}
            gone  == IF status = "ready" THEN {} ELSE waits
            over  == IF SignsOn(h, status).pc = "over" THEN gone \cup {Login} ELSE gone
<1>10. /\ host'.lease = IF status = "ready" /\ waits # {} THEN CHOOSE a \in waits : TRUE ELSE h.lease
       /\ host'.active = IF h.active \in over THEN None ELSE h.active
       /\ login' = SignsOn(h, status)
  BY DEF RefreshEnds, HostState
<1>11. ASSUME status = "ready", NEW a \in Attempts, attempt[a].pc = "acquiring"
       PROVE  host.active = a /\ host'.lease = a /\ host'.active = a
  <2>1. \A b \in waits : host.active = b
    BY <1>11 DEF IInv, PlaceOK, Waits
  <2>2. a \in waits
    BY <1>11 DEF Waits
  <2>3. (CHOOSE b \in waits : TRUE) \in waits
    BY <2>2
  <2>4. a \notin over
    BY <1>11, Names
  <2> HIDE DEF waits, over
  <2> QED
    BY <1>10, <1>11, <2>1, <2>2, <2>3, <2>4
<1>12. ASSUME ~(status = "ready" /\ waits # {}) PROVE host'.lease = host.lease
  BY <1>10, <1>12
<1>13. /\ host'.active = host.active \/ host'.active = None
       /\ \A a \in Attempts : attempt[a].pc = "acquiring" /\ status # "ready" => host'.active # a
       /\ login'.pc = "over" => host'.active # Login
       /\ host'.active # host.active => host.active \in waits \cup {Login}
  BY <1>10, Names DEF Waits
<1> HIDE DEF waits, over, gone
<1>14. HostOK'
  <2>1. host'.closed => ~host'.accepting /\ host'.client = None
    BY <1>4 DEF IInv, HostOK
  <2>2. host'.stale /\ host'.accepting => host'.lease # None
    <3>1. CASE status = "ready" /\ waits # {}
      BY <1>11, <3>1, Names DEF waits, Waits
    <3>2. CASE ~(status = "ready" /\ waits # {})
      BY <1>4, <1>12, <3>2 DEF IInv, HostOK
    <3> QED
      BY <3>1, <3>2
  <2>3. host'.active = Login => login'.pc \notin {"idle", "over"}
    BY <1>10, <1>13, Names DEF IInv, HostOK, SignsOn
  <2> QED
    BY <1>3, <2>1, <2>2, <2>3 DEF HostOK, Starting, Idle
<1>15. ASSUME NEW a \in Attempts PROVE PlaceOK(a)'
  <2>1. ~Starting'
    BY <1>3 DEF Starting, Idle
  <2>2. CASE attempt[a].pc = "acquiring" /\ status = "ready"
    BY <1>2, <1>4, <1>11, <2>1, <2>2, Names DEF PlaceOK, Taken, HostState
  <2>3. CASE attempt[a].pc = "acquiring" /\ status # "ready"
    BY <1>2, <1>12, <1>13, <2>1, <2>3 DEF IInv, PlaceOK, Taken
  <2>4. CASE attempt[a].pc # "acquiring"
    BY <1>1, <1>4, <1>10, <1>11, <1>12, <1>13, <2>1, <2>4, Names DEF IInv, PlaceOK, Taken, waits, Waits
  <2> QED
    BY <2>2, <2>3, <2>4
<1> QED
  BY <1>7, <1>8, <1>9, <1>14, <1>15 DEF IInv

-----------------------------------------------------------------------------
(* The steps that leave the generations alone. *)

\* The refresh in flight, or a new one, goes on; nobody's generation is touched.
Joins == refresh' = refresh \/ (refresh.pc = "idle" /\ refresh' = [Idle EXCEPT !.pc = "resolving"])

LEMMA BeginsJoins == ASSUME refresh' = Begins PROVE Joins
BY DEF Begins, Joins

LEMMA JoinsKeep ==
  ASSUME IInv, Joins
  PROVE  /\ refresh' \in RefreshState
         /\ Starting' <=> Starting
         /\ Starting => refresh' = refresh
         /\ refresh'.pc \in {"closing", "dropping", "spawning", "initializing", "discarding"} =>
              refresh' = refresh
BY DEF IInv, TypeOK, Joins, Idle, Starting, RefreshState

\* A step of one attempt, its turn and its interrupt alone.
LEMMA RunMoves ==
  ASSUME IInv, NEW a \in Attempts, Joins,
         attempt' \in [Attempts -> Run], turn' \in [Attempts -> {"none", "open", "completed", "interrupted"}],
         interrupt' \in [Attempts -> InterruptState],
         \A b \in Attempts \ {a} :
           attempt'[b] = attempt[b] /\ turn'[b] = turn[b] /\ interrupt'[b] = interrupt[b],
         RunOK(a)', PlaceOK(a)',
         UNCHANGED <<gen, machine, host, login, troubles>>
  PROVE  IInv'
<1>1. TypeOK'
  BY JoinsKeep DEF IInv, TypeOK
<1>2. HostOK' /\ \A g \in Gens : GenOK(g)'
  BY JoinsKeep DEF IInv, HostOK, GenOK, Starting
<1>3. ASSUME NEW b \in Attempts PROVE RunOK(b)' /\ PlaceOK(b)'
  <2>1. CASE b = a
    BY <2>1
  <2>2. CASE b # a
    BY <2>2, JoinsKeep DEF IInv, RunOK, PlaceOK, Taken, Active
  <2> QED
    BY <2>1, <2>2
<1> QED
  BY <1>1, <1>2, <1>3 DEF IInv

\* A step of the sign-in, the machine or the refresh.
LEMMA OtherMoves ==
  ASSUME IInv, Joins, machine' \in [installed : Versions \cup {None}, signedIn : BOOLEAN],
         host' \in HostState, login' \in LoginState, troubles' \in 0..MaxTroubles,
         host'.client = host.client, host'.lease = host.lease, host'.stale = host.stale,
         host'.closed = host.closed, host'.accepting => host.accepting,
         host.closed => ~host'.accepting,
         host'.active = host.active
           \/ (host.active \in {None, Login} /\ host'.active \in {None, Login}),
         host'.active = Login => login'.pc \notin {"idle", "over"},
         UNCHANGED <<gen, attempt, turn, interrupt>>
  PROVE  IInv'
<1>1. TypeOK'
  BY JoinsKeep DEF IInv, TypeOK
<1>2. HostOK' /\ \A g \in Gens : GenOK(g)'
  BY JoinsKeep DEF IInv, HostOK, GenOK, Starting
<1>3. ASSUME NEW b \in Attempts PROVE RunOK(b)' /\ PlaceOK(b)'
  BY JoinsKeep, Names DEF IInv, RunOK, PlaceOK, Taken, Active
<1> QED
  BY <1>1, <1>2, <1>3 DEF IInv

LEMMA SignInKeeps ==
  ASSUME IInv, Status \/ SignIn \/ SignInGoesOn \/ SignInEnds \/ SignsIn \/ Changes
  PROVE  IInv'
<1>0. /\ host \in HostState /\ login \in LoginState /\ troubles \in 0..MaxTroubles
      /\ machine \in [installed : Versions \cup {None}, signedIn : BOOLEAN]
      /\ host.closed => ~host.accepting
      /\ host.active = Login => login.pc \notin {"idle", "over"}
  BY DEF IInv, TypeOK, HostOK
<1>1. CASE Status
  BY <1>0, <1>1, BeginsJoins, OtherMoves, RoomAssumption DEF Status
<1>2. CASE SignIn
  <2>1. host' \in HostState /\ login' \in LoginState
    BY <1>0, <1>2 DEF SignIn, HostState, LoginState
  <2> QED
    BY <1>0, <1>2, <2>1, BeginsJoins, OtherMoves DEF SignIn, HostState, LoginState
<1>3. CASE SignInGoesOn
  <2>1. login' \in LoginState /\ login'.pc \notin {"idle", "over"}
    BY <1>0, <1>3 DEF SignInGoesOn, LoginState
  <2>2. Joins
    BY <1>3, BeginsJoins DEF SignInGoesOn, Joins
  <2> QED
    BY <1>0, <1>3, <2>1, <2>2, OtherMoves DEF SignInGoesOn
<1>4. CASE SignInEnds
  <2>1. host' \in HostState /\ login' \in LoginState /\ host'.active # Login
    BY <1>0, <1>4, Names DEF SignInEnds, HostState, LoginState
  <2> QED
    BY <1>0, <1>4, <2>1, OtherMoves DEF SignInEnds, HostState, Joins
<1>5. CASE SignsIn
  BY <1>0, <1>5, OtherMoves DEF SignsIn, Joins
<1>6. CASE Changes
  <2>1. machine' \in [installed : Versions \cup {None}, signedIn : BOOLEAN]
    BY <1>0, <1>6 DEF Changes
  <2>2. troubles' \in 0..MaxTroubles
    BY <1>0, <1>6, RoomAssumption DEF Changes
  <2>3. UNCHANGED <<gen, host, refresh, attempt, turn, interrupt, login>>
    BY <1>6 DEF Changes
  <2> QED
    BY <1>0, <2>1, <2>2, <2>3, OtherMoves DEF Joins
<1> QED
  BY <1>1, <1>2, <1>3, <1>4, <1>5, <1>6

LEMMA AcquireKeeps == ASSUME IInv, NEW a \in Attempts, Acquire(a) PROVE IInv'
<1>1. Joins
  BY BeginsJoins DEF Acquire
<1>2. host \in HostState /\ attempt \in [Attempts -> Run]
  BY DEF IInv, TypeOK
<1>3. /\ host' \in HostState /\ host'.active = a
      /\ host'.client = host.client /\ host'.lease = host.lease /\ host'.stale = host.stale
      /\ host'.closed = host.closed /\ host'.accepting = host.accepting
      /\ host.active = None /\ host.lease = None /\ host.accepting
  BY <1>2, Names DEF IInv, PlaceOK, Acquire, HostState
<1>4. /\ attempt' \in [Attempts -> Run]
      /\ attempt'[a] = [attempt[a] EXCEPT !.pc = "acquiring"]
      /\ \A b \in Attempts \ {a} : attempt'[b] = attempt[b]
      /\ attempt[a].pc = "idle"
  BY <1>2 DEF Acquire, Run
<1>5. TypeOK'
  BY <1>1, <1>3, <1>4, JoinsKeep DEF IInv, TypeOK, Acquire
<1>6. HostOK' /\ \A g \in Gens : GenOK(g)'
  BY <1>1, <1>3, JoinsKeep, Names DEF IInv, HostOK, GenOK, Starting, Acquire
<1>7. ASSUME NEW b \in Attempts PROVE RunOK(b)' /\ PlaceOK(b)'
  <2>1. CASE b = a
    BY <1>1, <1>2, <1>3, <1>4, <2>1, JoinsKeep, Names
    DEF IInv, RunOK, PlaceOK, Taken, Active, Acquire, Run
  <2>2. CASE b # a
    BY <1>1, <1>3, <1>4, <2>2, JoinsKeep, Names DEF IInv, RunOK, PlaceOK, Taken, Active, Acquire
  <2> QED
    BY <2>1, <2>2
<1> QED
  BY <1>5, <1>6, <1>7 DEF IInv

-----------------------------------------------------------------------------
(* The steps of one attempt that end no generation. *)

LEMMA TurnKeeps ==
  ASSUME IInv, NEW a \in Attempts,
         Threaded(a) \/ Finalize(a) \/ Admitted(a) \/ Rejected(a) \/ Quarantined(a) \/ TurnEnds(a)
           \/ Reported(a) \/ Acknowledged(a) \/ EndsInGrace(a) \/ Finishes(a)
  PROVE  IInv'
<1>0. /\ attempt \in [Attempts -> Run] /\ interrupt \in [Attempts -> InterruptState]
      /\ turn \in [Attempts -> {"none", "open", "completed", "interrupted"}]
      /\ attempt[a] \in Run /\ interrupt[a] \in InterruptState
      /\ RunOK(a) /\ PlaceOK(a)
  BY DEF IInv, TypeOK
<1> DEFINE Moves ==
      /\ attempt' \in [Attempts -> Run]
      /\ turn' \in [Attempts -> {"none", "open", "completed", "interrupted"}]
      /\ interrupt' \in [Attempts -> InterruptState]
      /\ \A b \in Attempts \ {a} :
           attempt'[b] = attempt[b] /\ turn'[b] = turn[b] /\ interrupt'[b] = interrupt[b]
      /\ RunOK(a)' /\ PlaceOK(a)'
      /\ UNCHANGED <<gen, machine, host, refresh, login, troubles>>
<1>1. ASSUME Threaded(a) PROVE Moves
  <2>1. CASE StartTurn(a)
    BY <1>0, <1>1, <2>1 DEF Threaded, StartTurn, Run, RunOK, PlaceOK, Taken, Active, Starting
  <2>2. CASE attempt' = Settled(a, "failed") /\ turn' = turn
    BY <1>0, <1>1, <2>2 DEF Threaded, Settled, Settle, Run, RunOK, PlaceOK, Taken, Active, Starting
  <2> QED
    BY <1>1, <2>1, <2>2 DEF Threaded
<1>2. ASSUME Finalize(a) PROVE Moves
  BY <1>0, <1>2 DEF Finalize, StartTurn, Run, RunOK, PlaceOK, Taken, Active, Starting
<1>3. ASSUME Admitted(a) PROVE Moves
  BY <1>0, <1>3 DEF Admitted, Run, RunOK, PlaceOK, Taken, Active, Starting
<1>4. ASSUME Rejected(a) PROVE Moves
  BY <1>0, <1>4 DEF Rejected, Settled, Settle, Run, RunOK, PlaceOK, Taken, Active, Starting
<1>5. ASSUME Quarantined(a) PROVE Moves
  BY <1>0, <1>5 DEF Quarantined, Settled, Settle, Run, RunOK, PlaceOK, Taken, Active, Starting
<1>6. ASSUME TurnEnds(a) PROVE Moves
  BY <1>0, <1>6 DEF TurnEnds, Settled, Settle, Run, RunOK, PlaceOK, Taken, Active, Starting
<1>7. ASSUME Reported(a) \/ Acknowledged(a) PROVE Moves
  <2>1. CASE Reported(a)
    BY <1>0, <2>1 DEF Reported, InterruptState, RunOK, PlaceOK, Taken, Active, Starting
  <2>2. CASE Acknowledged(a)
    BY <1>0, <2>2 DEF Acknowledged, InterruptState, RunOK, PlaceOK, Taken, Active, Starting
  <2> QED
    BY <1>7, <2>1, <2>2
<1>8. ASSUME EndsInGrace(a) PROVE Moves
  BY <1>0, <1>8 DEF EndsInGrace, End, Answered, InterruptState, RunOK, PlaceOK, Taken, Active, Starting
<1>9. ASSUME Finishes(a) PROVE Moves
  BY <1>0, <1>9 DEF Finishes, RunOK, PlaceOK, Taken, Active, Starting
<1>10. Moves
  BY <1>1, <1>2, <1>3, <1>4, <1>5, <1>6, <1>7, <1>8, <1>9
<1> QED
  BY <1>10, RunMoves DEF Joins

-----------------------------------------------------------------------------
(* The steps that end generations: the client's, or one that fails. *)

\* Generations end, and the client with the one that is its own.
Loses ==
  /\ refresh' = refresh /\ machine' = machine /\ login' = login
  /\ gen' \in [Gens -> Generation]
  /\ \A g \in Gens : gen'[g] = gen[g] \/ (gen[g] = "up" /\ gen'[g] = "gone")
  /\ host' \in HostState
  /\ \/ host'.client = host.client
     \/ host'.client = None /\ \A g \in Gens : host.client = g => gen'[g] # "up"
  /\ troubles' \in 0..MaxTroubles

SameFlags ==
  /\ host'.active = host.active /\ host'.lease = host.lease /\ host'.stale = host.stale
  /\ host'.accepting = host.accepting /\ host'.closed = host.closed

LEMMA LosesGen ==
  ASSUME IInv, Loses
  PROVE  \A g \in Gens : GenOK(g)'
BY Names DEF IInv, TypeOK, HostOK, GenOK, Loses, Starting, Generation, HostState

LEMMA LosesHost ==
  ASSUME IInv, Loses, host'.closed => ~host'.accepting /\ host'.client = None,
         host'.stale /\ host'.accepting => host'.lease # None,
         host'.active = host.active \/ host'.active = None
  PROVE  HostOK'
BY Names DEF IInv, TypeOK, HostOK, GenOK, Loses, Starting, Generation, HostState, RefreshState

\* One attempt moves while generations end.
LEMMA LosesMoves ==
  ASSUME IInv, Loses, SameFlags, NEW a \in Attempts,
         attempt' \in [Attempts -> Run], turn' = turn, interrupt' \in [Attempts -> InterruptState],
         \A b \in Attempts \ {a} : attempt'[b] = attempt[b] /\ interrupt'[b] = interrupt[b],
         RunOK(a)', PlaceOK(a)'
  PROVE  IInv'
<1>1. TypeOK'
  BY DEF IInv, TypeOK, Loses
<1>2. HostOK'
  BY LosesHost DEF IInv, HostOK, Loses, SameFlags
<1>3. ASSUME NEW b \in Attempts PROVE RunOK(b)' /\ PlaceOK(b)'
  <2>1. CASE b = a
    BY <2>1
  <2>2. CASE b # a
    <3>1. RunOK(b)'
      BY <2>2 DEF IInv, RunOK, Active
    <3>2. PlaceOK(b)'
      BY <2>2, Names DEF IInv, PlaceOK, Taken, Loses, SameFlags, Starting
    <3> QED
      BY <3>1, <3>2
  <2> QED
    BY <2>1, <2>2
<1> QED
  BY <1>1, <1>2, <1>3, LosesGen DEF IInv

\* Closing the client is such an end.
LEMMA ClosesLoses ==
  ASSUME IInv, NEW h \in HostState, h.client = host.client, CloseClient(h),
         UNCHANGED <<refresh, machine, login, troubles>>
  PROVE  /\ Loses
         /\ host'.client = None
         /\ host'.active = h.active /\ host'.lease = h.lease /\ host'.stale = h.stale
         /\ host'.accepting = h.accepting /\ host'.closed = h.closed
<1>1. /\ gen' \in [Gens -> Generation] /\ host' \in HostState /\ host'.client = None
      /\ host'.active = h.active /\ host'.lease = h.lease /\ host'.stale = h.stale
      /\ host'.accepting = h.accepting /\ host'.closed = h.closed
      /\ \A g \in Gens : gen'[g] = IF g = host.client /\ gen[g] = "up" THEN "gone" ELSE gen[g]
  BY Closes
<1> QED
  BY <1>1 DEF Loses, IInv, TypeOK

LEMMA LossKeeps ==
  ASSUME IInv, NEW a \in Attempts,
         Unadmitted(a) \/ ModelDeadline(a) \/ Bereft(a) \/ GivesUp(a)
  PROVE  IInv'
<1>0. /\ attempt \in [Attempts -> Run] /\ interrupt \in [Attempts -> InterruptState]
      /\ attempt[a] \in Run /\ interrupt[a] \in InterruptState
      /\ RunOK(a) /\ PlaceOK(a) /\ host \in HostState
  BY DEF IInv, TypeOK
<1>1. CloseClient(host) /\ UNCHANGED <<machine, refresh, turn, login, troubles>>
  BY DEF Unadmitted, ModelDeadline, Bereft, GivesUp
<1>2. Loses /\ SameFlags /\ host'.client = None
  BY <1>0, <1>1, ClosesLoses DEF SameFlags
<1> DEFINE Moves ==
      /\ attempt' \in [Attempts -> Run]
      /\ interrupt' \in [Attempts -> InterruptState]
      /\ \A b \in Attempts \ {a} : attempt'[b] = attempt[b] /\ interrupt'[b] = interrupt[b]
      /\ RunOK(a)' /\ PlaceOK(a)'
<1>3. ASSUME Unadmitted(a) PROVE Moves
  <2>1. /\ attempt' \in [Attempts -> Run] /\ interrupt' = interrupt
        /\ \A b \in Attempts \ {a} : attempt'[b] = attempt[b]
    BY <1>0, <1>3 DEF Unadmitted, Run
  <2>2. RunOK(a)'
    BY <1>0, <1>1, <1>3 DEF Unadmitted, Run, RunOK, Active
  <2>3. PlaceOK(a)'
    BY <1>0, <1>1, <1>2, <1>3, Names DEF Unadmitted, Run, PlaceOK, Taken, Active, Starting, SameFlags
  <2> QED
    BY <1>0, <2>1, <2>2, <2>3
<1>4. ASSUME ModelDeadline(a) PROVE Moves
  <2>1. /\ attempt' \in [Attempts -> Run] /\ interrupt' = interrupt
        /\ \A b \in Attempts \ {a} : attempt'[b] = attempt[b]
    BY <1>0, <1>4 DEF ModelDeadline, Settled, Settle, Run
  <2>2. RunOK(a)'
    BY <1>0, <1>1, <1>4 DEF ModelDeadline, Settled, Settle, Run, RunOK, Active
  <2>3. PlaceOK(a)'
    BY <1>0, <1>1, <1>2, <1>4, Names
    DEF ModelDeadline, Settled, Settle, Run, PlaceOK, Taken, Active, Starting, SameFlags
  <2> QED
    BY <1>0, <2>1, <2>2, <2>3
<1>5. ASSUME Bereft(a) PROVE Moves
  <2>1. /\ attempt' \in [Attempts -> Run] /\ interrupt' = interrupt
        /\ \A b \in Attempts \ {a} : attempt'[b] = attempt[b]
    BY <1>0, <1>5 DEF Bereft, Settled, Settle, Run
  <2>2. RunOK(a)'
    BY <1>0, <1>1, <1>5 DEF Bereft, Settled, Settle, Run, RunOK, Active
  <2>3. PlaceOK(a)'
    BY <1>0, <1>1, <1>2, <1>5, Names
    DEF Bereft, Settled, Settle, Run, PlaceOK, Taken, Active, Starting, SameFlags
  <2> QED
    BY <1>0, <2>1, <2>2, <2>3
<1>6. ASSUME GivesUp(a) PROVE Moves
  <2>1. /\ attempt' \in [Attempts -> Run]
        /\ attempt'[a] = IF attempt[a].pc = "running" THEN Settle(attempt[a], "unknown") ELSE attempt[a]
        /\ \A b \in Attempts \ {a} : attempt'[b] = attempt[b]
    BY <1>0, <1>6 DEF GivesUp, Settled, Settle, Run
  <2>2. /\ interrupt' \in [Attempts -> InterruptState]
        /\ interrupt'[a] = [pc |-> "over", terminal |-> "unknown"]
        /\ \A b \in Attempts \ {a} : interrupt'[b] = interrupt[b]
    BY <1>0, <1>6 DEF GivesUp, Answered, InterruptState
  <2>5. interrupt[a].pc \in {"asking", "grace"} /\ turn' = turn
    BY <1>6 DEF GivesUp
  <2>3. RunOK(a)'
    <3>1. CASE attempt[a].pc = "running"
      <4>1. attempt'[a].pc = "settling" /\ attempt'[a].outcome = "unknown"
        BY <1>0, <2>1, <3>1 DEF Settle, Run
      <4> QED
        BY <2>2, <4>1 DEF RunOK, Active
    <3>2. CASE attempt[a].pc # "running"
      BY <1>0, <2>1, <2>2, <2>5, <3>2 DEF RunOK, Active
    <3> QED
      BY <3>1, <3>2
  <2>4. PlaceOK(a)'
    BY <1>0, <1>1, <1>2, <2>1, Names DEF Settle, Run, PlaceOK, Taken, Starting, SameFlags
  <2> QED
    BY <2>1, <2>2, <2>3, <2>4
<1>7. Moves
  BY <1>3, <1>4, <1>5, <1>6
<1> QED
  BY <1>1, <1>2, <1>7, LosesMoves

LEMMA FailureKeeps == ASSUME IInv, NEW g \in Gens, TransportFails(g) PROVE IInv'
<1>1. Loses /\ SameFlags
  BY RoomAssumption DEF IInv, TypeOK, TransportFails, Ended, Up, Generation, Loses, SameFlags
<1>2. TypeOK'
  BY <1>1 DEF IInv, TypeOK, TransportFails, Loses
<1>3. HostOK'
  BY <1>1, LosesHost DEF IInv, HostOK, TransportFails
<1>4. ASSUME NEW b \in Attempts PROVE RunOK(b)' /\ PlaceOK(b)'
  BY DEF IInv, RunOK, PlaceOK, Taken, Active, Starting, TransportFails
<1> QED
  BY <1>1, <1>2, <1>3, <1>4, LosesGen DEF IInv

-----------------------------------------------------------------------------
(* Interrupts and the close of the host. *)

\* What the first steps of an interrupt do to the attempt. run is its record, with or without
\* the note that it is cancelled.
LEMMA InterruptsMove ==
  ASSUME IInv, NEW a \in Attempts, Taken(a), interrupt[a].pc = "none",
         NEW run \in Run, run.pc = attempt[a].pc, run.own = attempt[a].own,
         run.outcome = attempt[a].outcome, run.phase = attempt[a].phase,
         attempt[a].cancelled => run.cancelled, run.cancelled \/ Active(a),
         Interrupts(a, run), turn' = turn
  PROVE  /\ attempt' \in [Attempts -> Run] /\ interrupt' \in [Attempts -> InterruptState]
         /\ \A b \in Attempts \ {a} : attempt'[b] = attempt[b] /\ interrupt'[b] = interrupt[b]
         /\ RunOK(a)'
         /\ attempt'[a].own = attempt[a].own
         /\ IF attempt[a].pc = "starting"
            THEN attempt'[a].pc = "settling"
            ELSE attempt'[a].pc = attempt[a].pc /\ attempt'[a].outcome = attempt[a].outcome
         /\ gen' = IF Drops(a) THEN Ended(host.client) ELSE gen
<1>0. /\ attempt \in [Attempts -> Run] /\ interrupt \in [Attempts -> InterruptState]
      /\ attempt[a] \in Run /\ interrupt[a] \in InterruptState /\ RunOK(a)
  BY DEF IInv, TypeOK
<1> DEFINE Moves ==
      /\ attempt' \in [Attempts -> Run] /\ interrupt' \in [Attempts -> InterruptState]
      /\ \A b \in Attempts \ {a} : attempt'[b] = attempt[b] /\ interrupt'[b] = interrupt[b]
<1>1. CASE ~Active(a)
  <2>1. /\ Moves /\ attempt'[a] = run /\ gen' = gen
        /\ interrupt'[a] = [pc |-> "over", terminal |-> "completed"]
    BY <1>0, <1>1 DEF Interrupts, Answered, InterruptState, Active
  <2> QED
    BY <1>0, <1>1, <2>1 DEF RunOK, Active, Taken, Drops
<1>2. CASE attempt[a].pc = "starting"
  <2>3. Settle(run, "unknown") \in Run
    BY DEF Settle, Run
  <2>4. /\ attempt' = [attempt EXCEPT ![a] = Settle(run, "unknown")]
        /\ interrupt' = Answered(a, "unknown") /\ gen' = Ended(host.client)
    BY <1>2 DEF Interrupts, Active
  <2>1. /\ Moves /\ attempt'[a] = Settle(run, "unknown") /\ gen' = Ended(host.client)
        /\ interrupt'[a] = [pc |-> "over", terminal |-> "unknown"]
    BY <1>0, <2>3, <2>4 DEF Answered, InterruptState
  <2>2. /\ attempt'[a].pc = "settling" /\ attempt'[a].outcome = "unknown"
        /\ attempt'[a].own = attempt[a].own
    BY <2>1 DEF Settle, Run
  <2> QED
    BY <1>2, <2>1, <2>2 DEF RunOK, Active, Drops
<1>3. CASE attempt[a].pc = "quarantining"
  <2>1. /\ Moves /\ attempt'[a] = run /\ gen' = Ended(host.client)
        /\ interrupt'[a] = [pc |-> "over", terminal |-> "unknown"]
    BY <1>0, <1>3 DEF Interrupts, Answered, InterruptState, Active
  <2> QED
    BY <1>0, <1>3, <2>1 DEF RunOK, Active, Drops
<1>4. CASE attempt[a].pc = "running"
  <2>1. /\ Moves /\ attempt'[a] = run /\ gen' = gen
        /\ interrupt'[a] = [interrupt[a] EXCEPT !.pc = "reporting"]
    BY <1>0, <1>4 DEF Interrupts, InterruptState, Active
  <2> QED
    BY <1>0, <1>4, <2>1 DEF RunOK, Active, Drops, InterruptState
<1> QED
  BY <1>1, <1>2, <1>3, <1>4 DEF Active

LEMMA CancelKeeps == ASSUME IInv, NEW a \in Attempts, Cancel(a) PROVE IInv'
<1>0. /\ attempt \in [Attempts -> Run] /\ interrupt \in [Attempts -> InterruptState]
      /\ attempt[a] \in Run /\ interrupt[a] \in InterruptState
      /\ RunOK(a) /\ PlaceOK(a) /\ host \in HostState
  BY DEF IInv, TypeOK
<1> DEFINE run == [attempt[a] EXCEPT !.cancelled = TRUE]
<1>1. /\ run \in Run /\ run.cancelled
      /\ run.pc = attempt[a].pc /\ run.own = attempt[a].own /\ run.outcome = attempt[a].outcome
      /\ run.phase = attempt[a].phase
  BY <1>0 DEF Run
<1>2. UNCHANGED <<machine, refresh, turn, login, troubles>>
  BY DEF Cancel
<1> HIDE DEF run
<1>3. CASE attempt' = [attempt EXCEPT ![a] = run] /\ UNCHANGED <<gen, host, interrupt>>
  <2>1. /\ attempt' \in [Attempts -> Run] /\ attempt'[a] = run
        /\ \A b \in Attempts \ {a} : attempt'[b] = attempt[b]
    BY <1>0, <1>1, <1>3
  <2>2. RunOK(a)' /\ PlaceOK(a)'
    BY <1>0, <1>1, <1>2, <1>3, <2>1 DEF RunOK, PlaceOK, Taken, Active, Starting
  <2>3. turn' \in [Attempts -> {"none", "open", "completed", "interrupted"}]
    BY <1>2 DEF IInv, TypeOK
  <2> QED
    BY <1>0, <1>2, <1>3, <2>1, <2>2, <2>3, RunMoves DEF Joins
<1>4. CASE /\ HasLease(a) /\ interrupt[a].pc = "none" /\ Interrupts(a, run)
           /\ host' = IF Drops(a) THEN Without(host) ELSE host
  <2>1. Taken(a)
    BY <1>0, <1>4 DEF HasLease, Taken, Run
  <2>2. /\ attempt' \in [Attempts -> Run] /\ interrupt' \in [Attempts -> InterruptState]
        /\ \A b \in Attempts \ {a} : attempt'[b] = attempt[b] /\ interrupt'[b] = interrupt[b]
        /\ RunOK(a)'
        /\ attempt'[a].own = attempt[a].own
        /\ IF attempt[a].pc = "starting"
           THEN attempt'[a].pc = "settling"
           ELSE attempt'[a].pc = attempt[a].pc /\ attempt'[a].outcome = attempt[a].outcome
        /\ gen' = IF Drops(a) THEN Ended(host.client) ELSE gen
    BY <1>1, <1>2, <1>4, <2>1, InterruptsMove
  <2>3. CASE Drops(a)
    <3>1. CloseClient(host)
      BY <1>4, <2>2, <2>3 DEF CloseClient
    <3>2. Loses /\ SameFlags /\ host'.client = None
      BY <1>0, <1>2, <3>1, ClosesLoses DEF SameFlags
    <3>3. PlaceOK(a)'
      BY <1>0, <1>2, <2>1, <2>2, <3>2, Names DEF PlaceOK, Taken, Starting, SameFlags
    <3> QED
      BY <1>2, <2>2, <3>2, <3>3, LosesMoves
  <2>4. CASE ~Drops(a)
    <3>1. UNCHANGED <<gen, host>>
      BY <1>4, <2>2, <2>4
    <3>2. Loses /\ SameFlags
      BY <1>2, <3>1 DEF IInv, TypeOK, Loses, SameFlags
    <3>3. PlaceOK(a)'
      BY <1>0, <1>2, <2>1, <2>2, <2>4, <3>1 DEF PlaceOK, Taken, Starting, Drops
    <3> QED
      BY <1>2, <2>2, <3>2, <3>3, LosesMoves
  <2> QED
    BY <2>3, <2>4
<1> QED
  BY <1>3, <1>4 DEF Cancel, run

LEMMA CloseKeeps == ASSUME IInv, Close PROVE IInv'
<1> DEFINE h == [host EXCEPT !.accepting = FALSE]
<1>0. /\ attempt \in [Attempts -> Run] /\ interrupt \in [Attempts -> InterruptState]
      /\ host \in HostState /\ HostOK
  BY DEF IInv, TypeOK
<1>1. /\ h \in HostState /\ ~h.accepting
      /\ h.client = host.client /\ h.active = host.active /\ h.lease = host.lease
      /\ h.stale = host.stale /\ h.closed = host.closed
  BY <1>0 DEF HostState
<1>2. UNCHANGED <<machine, refresh, turn, login, troubles>> /\ ~host.closed
  BY <1>0 DEF Close, HostOK
<1>3. \/ host' = h /\ UNCHANGED <<gen, attempt, interrupt>>
      \/ \E a \in Attempts :
           /\ Active(a) /\ interrupt[a].pc = "none" /\ Interrupts(a, attempt[a])
           /\ host' = IF Drops(a) THEN Without(h) ELSE h
  BY <1>0 DEF Close, HostState
<1> HIDE DEF h
<1>4. CASE host' = h /\ UNCHANGED <<gen, attempt, interrupt>>
  <2>1. Loses
    BY <1>0, <1>1, <1>2, <1>4 DEF IInv, TypeOK, Loses
  <2>2. TypeOK'
    BY <1>2, <1>4, <2>1 DEF IInv, TypeOK, Loses
  <2>3. HostOK'
    BY <1>0, <1>1, <1>2, <1>4, <2>1, LosesHost DEF HostOK
  <2>4. ASSUME NEW b \in Attempts PROVE RunOK(b)' /\ PlaceOK(b)'
    BY <1>1, <1>2, <1>4 DEF IInv, RunOK, PlaceOK, Taken, Active, Starting
  <2> QED
    BY <2>1, <2>2, <2>3, <2>4, LosesGen DEF IInv
<1>5. ASSUME NEW a \in Attempts, Active(a), interrupt[a].pc = "none", Interrupts(a, attempt[a]),
             host' = IF Drops(a) THEN Without(h) ELSE h
      PROVE  IInv'
  <2>1. attempt[a] \in Run /\ Taken(a) /\ RunOK(a) /\ PlaceOK(a)
    BY <1>0, <1>5 DEF IInv, HostState, Active, Taken
  <2>2. /\ attempt' \in [Attempts -> Run] /\ interrupt' \in [Attempts -> InterruptState]
        /\ \A b \in Attempts \ {a} : attempt'[b] = attempt[b] /\ interrupt'[b] = interrupt[b]
        /\ RunOK(a)'
        /\ attempt'[a].own = attempt[a].own
        /\ IF attempt[a].pc = "starting"
           THEN attempt'[a].pc = "settling"
           ELSE attempt'[a].pc = attempt[a].pc /\ attempt'[a].outcome = attempt[a].outcome
        /\ gen' = IF Drops(a) THEN Ended(host.client) ELSE gen
    BY <1>2, <1>5, <2>1, InterruptsMove
  <2>3. Loses /\ (Drops(a) => host'.client = None) /\ (~Drops(a) => host'.client = host.client)
    <3>1. CASE Drops(a)
      <4>1. CloseClient(h)
        BY <1>1, <1>5, <2>2, <3>1 DEF CloseClient
      <4> QED
        BY <1>1, <1>2, <3>1, <4>1, ClosesLoses
    <3>2. CASE ~Drops(a)
      BY <1>0, <1>1, <1>2, <1>5, <2>2, <3>2 DEF IInv, TypeOK, Loses
    <3> QED
      BY <3>1, <3>2
  <2>4. /\ host'.active = h.active /\ host'.lease = h.lease /\ host'.stale = h.stale
        /\ host'.accepting = h.accepting /\ host'.closed = h.closed
    BY <1>1, <1>5 DEF Without, HostState
  <2>5. TypeOK'
    BY <1>2, <2>2, <2>3 DEF IInv, TypeOK, Loses
  <2>6. HostOK'
    BY <1>0, <1>1, <1>2, <2>3, <2>4, LosesHost DEF HostOK
  <2>7. PlaceOK(a)'
    BY <1>1, <1>2, <2>1, <2>2, <2>3, <2>4, Names DEF PlaceOK, Taken, Starting, Drops
  <2>8. ASSUME NEW b \in Attempts, b # a PROVE RunOK(b)' /\ PlaceOK(b)'
    <3>1. RunOK(b)'
      BY <1>2, <2>2, <2>8 DEF IInv, RunOK, Active
    <3>2. PlaceOK(b)'
      BY <1>1, <1>2, <2>2, <2>3, <2>4, <2>8, Names DEF IInv, PlaceOK, Taken, Starting
    <3> QED
      BY <3>1, <3>2
  <2> QED
    BY <2>2, <2>3, <2>5, <2>6, <2>7, <2>8, LosesGen DEF IInv
<1> QED
  BY <1>3, <1>4, <1>5

LEMMA ClosedKeeps == ASSUME IInv, Closed PROVE IInv'
<1> DEFINE h == [host EXCEPT !.active = None, !.lease = None, !.closed = TRUE]
<1>0. host \in HostState /\ HostOK
  BY DEF IInv, TypeOK
<1>1. /\ h \in HostState /\ h.closed /\ h.lease = None /\ h.active = None
      /\ h.client = host.client /\ h.stale = host.stale /\ h.accepting = host.accepting
  BY <1>0 DEF HostState
<1>2. /\ CloseClient(h) /\ ~host.accepting
      /\ UNCHANGED <<machine, refresh, attempt, turn, interrupt, login, troubles>>
  BY DEF Closed
<1> HIDE DEF h
<1>3. /\ Loses /\ host'.client = None
      /\ host'.active = None /\ host'.lease = None /\ host'.stale = host.stale
      /\ ~host'.accepting /\ host'.closed
  BY <1>1, <1>2, ClosesLoses
<1>4. TypeOK'
  BY <1>2, <1>3 DEF IInv, TypeOK, Loses
<1>5. HostOK'
  BY <1>3, LosesHost
<1>6. ASSUME NEW b \in Attempts PROVE RunOK(b)' /\ PlaceOK(b)'
  BY <1>2, <1>3, Names DEF IInv, RunOK, PlaceOK, Taken, Active, Starting
<1> QED
  BY <1>3, <1>4, <1>5, <1>6, LosesGen DEF IInv

LEMMA ReleaseKeeps == ASSUME IInv, NEW a \in Attempts, Release(a) PROVE IInv'
<1>0. host \in HostState /\ HostOK /\ attempt \in [Attempts -> Run] /\ PlaceOK(a) /\ RunOK(a)
  BY DEF IInv, TypeOK
<1>1. /\ LetGo(a) \in HostState
      /\ LetGo(a).client = host.client /\ LetGo(a).accepting = host.accepting
      /\ LetGo(a).closed = host.closed /\ ~LetGo(a).stale
      /\ LetGo(a).active = IF host.active = a THEN None ELSE host.active
      /\ LetGo(a).lease = IF host.lease = a THEN None ELSE host.lease
  BY <1>0 DEF LetGo, HostState
<1>2. /\ attempt[a].pc = "settling" /\ attempt' = [attempt EXCEPT ![a].pc = "over"]
      /\ UNCHANGED <<machine, refresh, turn, interrupt, login, troubles>>
      /\ CloseClient(LetGo(a)) \/ (host' = LetGo(a) /\ gen' = gen)
  BY DEF Release
<1>3. /\ Loses
      /\ host'.client = host.client \/ host'.client = None
      /\ host'.active = LetGo(a).active /\ host'.lease = LetGo(a).lease /\ ~host'.stale
      /\ host'.accepting = host.accepting /\ host'.closed = host.closed
  <2>1. CASE CloseClient(LetGo(a))
    BY <1>1, <1>2, <2>1, ClosesLoses
  <2>2. CASE host' = LetGo(a) /\ gen' = gen
    BY <1>1, <1>2, <2>2 DEF IInv, TypeOK, Loses
  <2> QED
    BY <1>2, <2>1, <2>2
<1>4. /\ attempt' \in [Attempts -> Run]
      /\ attempt'[a] = [attempt[a] EXCEPT !.pc = "over"]
      /\ \A b \in Attempts \ {a} : attempt'[b] = attempt[b]
  BY <1>0, <1>2 DEF Run
<1>5. TypeOK'
  BY <1>2, <1>3, <1>4 DEF IInv, TypeOK, Loses
<1>6. HostOK'
  BY <1>0, <1>1, <1>2, <1>3, LosesHost, Names DEF HostOK, Loses
<1>7. RunOK(a)' /\ PlaceOK(a)'
  BY <1>0, <1>1, <1>2, <1>3, <1>4, Names DEF RunOK, PlaceOK, Taken, Active, Starting, Run
<1>8. ASSUME NEW b \in Attempts \ {a} PROVE RunOK(b)' /\ PlaceOK(b)'
  <2>1. RunOK(b)'
    BY <1>2, <1>4 DEF IInv, RunOK, Active
  <2>2. PlaceOK(b)'
    BY <1>1, <1>2, <1>3, <1>4, Names DEF IInv, PlaceOK, Taken, Starting
  <2> QED
    BY <2>1, <2>2
<1> QED
  BY <1>3, <1>5, <1>6, <1>7, <1>8, LosesGen DEF IInv

-----------------------------------------------------------------------------
(* The steps of a refresh. *)

\* A generation under a free number is begun while there is no client.
LEMMA Begun ==
  ASSUME IInv, NEW g \in Gens, Free(g), host.client = None, ~Starting,
         gen' = [gen EXCEPT ![g] = "spawning"],
         refresh' \in RefreshState, refresh'.pc = "spawning", refresh'.gen = g,
         UNCHANGED <<machine, host, attempt, turn, interrupt, login, troubles>>
  PROVE  IInv'
<1>1. TypeOK'
  BY DEF IInv, TypeOK, Generation
<1>2. HostOK' /\ \A f \in Gens : GenOK(f)'
  BY Names DEF IInv, TypeOK, HostOK, GenOK, Starting, Generation
<1>3. ASSUME NEW b \in Attempts PROVE RunOK(b)' /\ PlaceOK(b)'
  BY DEF IInv, RunOK, PlaceOK, Taken, Active, Starting, Free
<1> QED
  BY <1>1, <1>2, <1>3 DEF IInv

\* The refresh goes on while there is no client to lose.
LEMMA GoesOn ==
  ASSUME IInv, refresh' \in RefreshState, refresh'.pc \notin {"spawning", "initializing"},
         refresh'.pc \in {"closing", "dropping", "discarding"} => host'.client = None,
         gen' \in [Gens -> Generation],
         \A g \in Gens : gen'[g] # "gone" => gen'[g] = gen[g] /\ host'.client = g,
         host' \in HostState, host'.client \in {host.client, None}, SameFlags,
         UNCHANGED <<machine, attempt, turn, interrupt, login, troubles>>
  PROVE  IInv'
<1>1. TypeOK'
  BY DEF IInv, TypeOK
<1>2. HostOK' /\ \A f \in Gens : GenOK(f)'
  BY Names DEF IInv, TypeOK, HostOK, GenOK, Starting, Generation, SameFlags
<1>3. ASSUME NEW b \in Attempts PROVE RunOK(b)' /\ PlaceOK(b)'
  BY Names DEF IInv, RunOK, PlaceOK, Taken, Active, Starting, SameFlags
<1> QED
  BY <1>1, <1>2, <1>3 DEF IInv

\* Outside of a start, what is not gone is the client's.
LEMMA OnlyClient ==
  ASSUME IInv, ~Starting
  PROVE  \A g \in Gens : gen[g] # "gone" => host.client = g
BY DEF IInv, TypeOK, GenOK, Generation

LEMMA EndsPlainly ==
  ASSUME IInv, ~Starting, NEW status \in {"failed", "unavailable"}, RefreshEnds(host, status),
         UNCHANGED <<gen, machine, turn, troubles>>
  PROVE  IInv'
BY OnlyClient, RefreshEndsKeeps DEF IInv, TypeOK

LEMMA ResolvedKeeps == ASSUME IInv, Resolved PROVE IInv'
<1> DEFINE found == machine.installed
           changed == host.client # None /\ found # host.identity
<1>0. /\ host \in HostState /\ gen \in [Gens -> Generation] /\ refresh \in RefreshState
      /\ found \in Versions \cup {None} /\ refresh.pc = "resolving" /\ ~Starting
      /\ UNCHANGED <<machine, turn, troubles>>
  BY DEF IInv, TypeOK, Resolved, Starting
<1>1. CASE ~host.accepting
  BY <1>0, <1>1, EndsPlainly DEF Resolved
<1>2. CASE host.accepting /\ changed /\ Held
  <2> DEFINE h == [host EXCEPT !.stale = TRUE]
  <2>1. RefreshEnds(h, "needs-reprobe") /\ gen' = gen
    BY <1>2 DEF Resolved
  <2>2. /\ h \in HostState
        /\ h.client = host.client /\ h.lease = host.lease /\ h.active = host.active
        /\ h.accepting = host.accepting /\ h.closed = host.closed
        /\ h.lease # None
    BY <1>0, <1>2 DEF HostState, Held
  <2> HIDE DEF h
  <2> QED
    BY <1>0, <2>1, <2>2, OnlyClient, RefreshEndsKeeps
<1>3. CASE host.accepting /\ changed /\ ~Held
  <2>1. /\ CloseClient(host)
        /\ refresh' = [pc |-> IF found = None THEN "dropping" ELSE "closing",
                       found |-> found, gen |-> host.client]
        /\ UNCHANGED <<attempt, interrupt, login>>
    BY <1>3 DEF Resolved
  <2>2. /\ gen' \in [Gens -> Generation] /\ host' \in HostState /\ host'.client = None /\ SameFlags
        /\ \A g \in Gens : gen'[g] = IF g = host.client /\ gen[g] = "up" THEN "gone" ELSE gen[g]
    BY <1>0, <2>1, Closes DEF SameFlags
  <2>3. \A g \in Gens : gen'[g] = "gone"
    BY <1>0, <2>2, OnlyClient DEF IInv, GenOK, Generation
  <2>4. refresh' \in RefreshState /\ refresh'.pc \in {"dropping", "closing"}
    BY <1>0, <2>1 DEF RefreshState, HostState
  <2> QED
    BY <1>0, <2>1, <2>2, <2>3, <2>4, GoesOn
<1>4. CASE host.accepting /\ ~changed /\ found = None
  BY <1>0, <1>4, EndsPlainly DEF Resolved
<1>5. CASE host.accepting /\ ~changed /\ found # None /\ host.client # None
  <2>1. /\ refresh' = [pc |-> "account", found |-> found, gen |-> host.client]
        /\ UNCHANGED <<gen, host, attempt, interrupt, login>>
    BY <1>5 DEF Resolved
  <2>2. refresh' \in RefreshState /\ refresh'.pc = "account"
    BY <1>0, <2>1 DEF RefreshState, HostState
  <2> QED
    BY <1>0, <2>1, <2>2, OnlyClient, GoesOn DEF SameFlags
<1>6. CASE host.accepting /\ ~changed /\ found # None /\ host.client = None
  <2>1. PICK g \in Gens :
          /\ Free(g) /\ gen' = [gen EXCEPT ![g] = "spawning"]
          /\ refresh' = [pc |-> "spawning", found |-> found, gen |-> g]
          /\ UNCHANGED <<host, attempt, interrupt, login>>
    BY <1>6 DEF Resolved
  <2>2. refresh' \in RefreshState /\ refresh'.pc = "spawning" /\ refresh'.gen = g
    BY <1>0, <2>1 DEF RefreshState
  <2> QED
    BY <1>0, <1>6, <2>1, <2>2, Begun
<1> QED
  BY <1>1, <1>2, <1>3, <1>4, <1>5, <1>6

LEMMA RefreshKeeps ==
  ASSUME IInv, Respawns \/ Dropped \/ Spawned \/ SpawnFails \/ Initialized \/ AccountRead
  PROVE  IInv'
<1>0. /\ host \in HostState /\ gen \in [Gens -> Generation] /\ refresh \in RefreshState
      /\ HostOK
  BY DEF IInv, TypeOK
<1>1. CASE Respawns
  <2>1. PICK g \in Gens :
          /\ Free(g) /\ gen' = [gen EXCEPT ![g] = "spawning"]
          /\ refresh' = [pc |-> "spawning", found |-> refresh.found, gen |-> g]
    BY <1>1 DEF Respawns
  <2>2. refresh' \in RefreshState /\ refresh'.pc = "spawning" /\ refresh'.gen = g
    BY <1>0, <2>1 DEF RefreshState
  <2>3. /\ ~Starting /\ host.client = None
        /\ UNCHANGED <<machine, host, attempt, turn, interrupt, login, troubles>>
    BY <1>0, <1>1 DEF Respawns, Starting, HostOK
  <2> QED
    BY <2>1, <2>2, <2>3, Begun
<1>2. CASE Dropped
  <2>1. ~Starting /\ UNCHANGED <<gen, machine, turn, troubles>>
    BY <1>2 DEF Dropped, Starting
  <2>2. RefreshEnds(host, "unavailable") \/ RefreshEnds(host, "failed")
    BY <1>2 DEF Dropped
  <2> QED
    BY <2>1, <2>2, EndsPlainly
<1>3. ASSUME refresh.pc \in {"spawning", "initializing"}, host.client = None,
             refresh' = [refresh EXCEPT !.pc = "discarding"],
             gen' \in [Gens -> Generation], \A g \in Gens : gen'[g] = "gone",
             UNCHANGED <<machine, host, attempt, turn, interrupt, login, troubles>>
      PROVE  IInv'
  <2>1. refresh' \in RefreshState /\ refresh'.pc = "discarding"
    BY <1>0, <1>3 DEF RefreshState
  <2> QED
    BY <1>0, <1>3, <2>1, GoesOn DEF SameFlags
<1>4. Starting => /\ host.client = None /\ refresh.gen \in Gens
                  /\ \A g \in Gens : g # refresh.gen => gen[g] = "gone"
  BY <1>0, Names DEF IInv, HostOK, GenOK, Starting, Generation
<1>5. CASE Spawned
  <2>1. CASE host.accepting
    <3>1. /\ gen' = [gen EXCEPT ![refresh.gen] = "up"]
          /\ refresh' = [refresh EXCEPT !.pc = "initializing"]
          /\ refresh.pc = "spawning"
          /\ UNCHANGED <<machine, host, attempt, turn, interrupt, login, troubles>>
      BY <1>5, <2>1 DEF Spawned
    <3>2. /\ refresh' \in RefreshState /\ refresh'.pc = "initializing" /\ refresh'.gen = refresh.gen
          /\ gen' \in [Gens -> Generation] /\ gen'[refresh.gen] = "up" /\ Starting /\ Starting'
          /\ \A g \in Gens : g # refresh.gen => gen'[g] = gen[g]
      BY <1>0, <1>4, <3>1 DEF RefreshState, Generation, Starting
    <3>3. TypeOK'
      BY <3>1, <3>2 DEF IInv, TypeOK
    <3>4. HostOK' /\ \A g \in Gens : GenOK(g)'
      BY <1>0, <1>4, <3>1, <3>2, Names DEF IInv, HostOK, GenOK, Starting
    <3>5. ASSUME NEW b \in Attempts PROVE RunOK(b)' /\ PlaceOK(b)'
      BY <3>1, <3>2 DEF IInv, RunOK, PlaceOK, Taken, Active
    <3> QED
      BY <3>3, <3>4, <3>5 DEF IInv
  <2>2. CASE ~host.accepting
    <3>1. /\ gen' = [gen EXCEPT ![refresh.gen] = "gone"]
          /\ refresh' = [refresh EXCEPT !.pc = "discarding"]
          /\ refresh.pc = "spawning"
          /\ UNCHANGED <<machine, host, attempt, turn, interrupt, login, troubles>>
      BY <1>5, <2>2 DEF Spawned
    <3>2. gen' \in [Gens -> Generation] /\ \A g \in Gens : gen'[g] = "gone"
      BY <1>0, <1>4, <3>1 DEF Starting, Generation
    <3> QED
      BY <1>3, <1>4, <3>1, <3>2 DEF Starting
  <2> QED
    BY <2>1, <2>2
<1>6. CASE SpawnFails
  <2>1. /\ refresh.pc = "spawning" /\ gen' = [gen EXCEPT ![refresh.gen] = "gone"]
        /\ RefreshEnds(host, "failed") /\ UNCHANGED <<machine, turn, troubles>>
    BY <1>6 DEF SpawnFails
  <2>2. gen' \in [Gens -> Generation] /\ \A g \in Gens : gen'[g] = "gone"
    BY <1>0, <1>4, <2>1 DEF Starting, Generation
  <2> QED
    BY <1>0, <2>1, <2>2, RefreshEndsKeeps
<1>7. CASE Initialized
  <2>1. CASE Takes(refresh.gen)
    <3>1. /\ host' = [host EXCEPT !.client = refresh.gen, !.identity = refresh.found]
          /\ refresh' = [refresh EXCEPT !.pc = "account"]
          /\ refresh.pc = "initializing" /\ Starting /\ gen[refresh.gen] = "up" /\ host.accepting
          /\ UNCHANGED <<gen, machine, attempt, turn, interrupt, login, troubles>>
      BY <1>7, <2>1 DEF Initialized, Takes, Up, Starting
    <3>2. /\ refresh' \in RefreshState /\ refresh'.pc = "account" /\ ~Starting'
          /\ host' \in HostState /\ SameFlags /\ host'.client = refresh.gen
      BY <1>0, <1>4, <3>1 DEF RefreshState, HostState, SameFlags, Starting
    <3>3. TypeOK'
      BY <3>1, <3>2 DEF IInv, TypeOK
    <3>4. HostOK' /\ \A g \in Gens : GenOK(g)'
      BY <1>0, <1>4, <3>1, <3>2, Names DEF IInv, HostOK, GenOK, SameFlags, Starting
    <3>5. ASSUME NEW b \in Attempts PROVE RunOK(b)' /\ PlaceOK(b)'
      BY <1>4, <3>1, <3>2, Names DEF IInv, RunOK, PlaceOK, Taken, Active, SameFlags
    <3> QED
      BY <3>3, <3>4, <3>5 DEF IInv
  <2>2. CASE ~Takes(refresh.gen)
    <3>1. /\ gen' = Ended(refresh.gen) /\ host' = host
          /\ refresh' = [refresh EXCEPT !.pc = "discarding"]
          /\ refresh.pc = "initializing" /\ Starting
          /\ UNCHANGED <<machine, attempt, turn, interrupt, login, troubles>>
      BY <1>7, <2>2 DEF Initialized, Starting
    <3>2. gen' \in [Gens -> Generation] /\ \A g \in Gens : gen'[g] = "gone"
      BY <1>0, <1>4, <3>1, Names DEF HostOK, Starting, Generation, Ended, Up
    <3> QED
      BY <1>3, <1>4, <3>1, <3>2
  <2> QED
    BY <2>1, <2>2
<1>8. CASE AccountRead
  <2>1. refresh.pc = "account" /\ ~Starting /\ UNCHANGED <<gen, machine, turn, troubles>>
    BY <1>8 DEF AccountRead, Starting
  <2>2. PICK status \in {"failed", "ready", "signed-out"} :
          /\ RefreshEnds(host, status)
          /\ status = "ready" => Up(refresh.gen) /\ host.accepting
    BY <1>8 DEF AccountRead
  <2>3. status = "ready" => host.accepting /\ host.client # None
    BY <1>0, <2>1, <2>2, OnlyClient, Names DEF Up, RefreshState
  <2> QED
    BY <1>0, <2>1, <2>2, <2>3, OnlyClient, RefreshEndsKeeps
<1> QED
  BY <1>1, <1>2, <1>5, <1>6, <1>7, <1>8

-----------------------------------------------------------------------------
(* The theorems. *)

LEMMA StepIInv == ASSUME IInv, [Next]_vars PROVE IInv'
<1>1. CASE Status \/ SignIn \/ SignInGoesOn \/ SignInEnds \/ SignsIn \/ Changes
  BY <1>1, SignInKeeps
<1>2. CASE RefreshStep
  BY <1>2, ResolvedKeeps, RefreshKeeps DEF RefreshStep
<1>3. CASE Close \/ Closed
  BY <1>3, CloseKeeps, ClosedKeeps
<1>4. ASSUME NEW a \in Attempts,
             Acquire(a) \/ RunStep(a) \/ Cancel(a) \/ InterruptStep(a) \/ Finishes(a)
      PROVE  IInv'
  BY <1>4, AcquireKeeps, TurnKeeps, LossKeeps, ReleaseKeeps, CancelKeeps DEF RunStep, InterruptStep
<1>5. ASSUME NEW g \in Gens, TransportFails(g) PROVE IInv'
  BY <1>5, FailureKeeps
<1>6. CASE UNCHANGED vars
  BY <1>6 DEF vars, IInv, TypeOK, HostOK, GenOK, RunOK, PlaceOK, Starting, Taken, Active
<1> QED
  BY <1>1, <1>2, <1>3, <1>4, <1>5, <1>6 DEF Next

\* The inductive invariant: who holds the slot, the lease and a generation, and what a run, its
\* turn and its interrupt say of one another (app-server-provider.ts, createCodexAppServerHost).
THEOREM Invariance == Spec => []IInv
<1>1. IInv /\ [Next]_vars => IInv'
  BY StepIInv
<1> QED
  BY <1>1, InitIInv, PTL DEF Spec

\* The host's state keeps its types, for any number of attempts and generations.
THEOREM TypesHold == Spec => []TypeOK
BY Invariance, PTL DEF IInv

\* No generation is left running that nobody would close, and a closed host has no client
\* (refresh and close).
THEOREM NoneIsOrphaned == Spec => []NoOrphans
<1>1. IInv => NoOrphans
  BY DEF IInv, TypeOK, HostOK, GenOK, NoOrphans, Starting
<1> QED
  BY <1>1, Invariance, PTL

\* A run or an interrupt says that a turn has ended only when it has (runTurn, interrupt).
THEOREM EndsAreTrue == Spec => []TruthfulEnds
<1>1. IInv => TruthfulEnds
  BY DEF IInv, RunOK, TruthfulEnds
<1> QED
  BY <1>1, Invariance, PTL

\* A generation with a turn of unknown outcome is not the client when the run ends (runTurn).
THEOREM LostIsQuarantined == Spec => []UnknownIsQuarantined
<1>1. IInv => UnknownIsQuarantined
  BY DEF IInv, PlaceOK, UnknownIsQuarantined
<1> QED
  BY <1>1, Invariance, PTL

\* The slot is held by somebody who lets go of it, and a stale generation by a lease (reserve,
\* acquireAttempt, login, release).
THEOREM SlotIsNeverLost == Spec => []SlotIsHeld
<1>1. IInv => SlotIsHeld
  BY Names DEF IInv, TypeOK, HostState, HostOK, PlaceOK, SlotIsHeld
<1> QED
  BY <1>1, Invariance, PTL

-----------------------------------------------------------------------------
(* A turn and what ends its generation. *)

\* The generation of a turn is the client, and its attempt has the lease.
LEMMA TurnHasLease ==
  ASSUME IInv, NEW a \in Attempts, Active(a), Up(attempt[a].own)
  PROVE  /\ attempt[a].own \in Gens /\ gen[attempt[a].own] = "up"
         /\ host.client = attempt[a].own /\ host.lease = a /\ ~host.closed
         /\ Starting => refresh.gen # attempt[a].own
<1>1. attempt[a].own \in Gens /\ gen[attempt[a].own] = "up"
  BY DEF IInv, PlaceOK, Taken, Active, Up
<1>2. Starting => refresh.gen # attempt[a].own
  BY DEF IInv, PlaceOK, Active
<1>3. host.client = attempt[a].own
  BY <1>1, <1>2 DEF IInv, GenOK
<1>4. ~host.closed
  BY <1>1, <1>3, Names DEF IInv, HostOK
<1> QED
  BY <1>1, <1>2, <1>3, <1>4 DEF IInv, PlaceOK, Taken, Active

\* What nobody else may do to the turn of a.
Spares(a) ==
  Active(a) /\ Up(attempt[a].own) /\ gen'[attempt[a].own] # "up" =>
    \/ attempt'[a] # attempt[a] \/ interrupt'[a] # interrupt[a]
    \/ troubles' # troubles \/ host'.closed
    \/ \E b \in Attempts \ {a} : GivesUp(b)

LEMMA StepSpares ==
  ASSUME IInv, [Next]_vars, NEW a \in Attempts
  PROVE  Spares(a)
<1> SUFFICES ASSUME Active(a), Up(attempt[a].own), gen'[attempt[a].own] # "up",
                    attempt'[a] = attempt[a], interrupt'[a] = interrupt[a], troubles' = troubles,
                    ~host'.closed, \A b \in Attempts \ {a} : ~GivesUp(b)
             PROVE  FALSE
  BY DEF Spares
<1>0. /\ attempt[a].own \in Gens /\ gen[attempt[a].own] = "up"
      /\ host.client = attempt[a].own /\ host.lease = a /\ ~host.closed
      /\ Starting => refresh.gen # attempt[a].own
      /\ gen \in [Gens -> Generation] /\ attempt \in [Attempts -> Run]
      /\ interrupt \in [Attempts -> InterruptState] /\ host \in HostState
  BY TurnHasLease DEF IInv, TypeOK
<1>1. \A b \in Attempts : Taken(b) => b = a
  BY <1>0 DEF IInv, PlaceOK
<1>2. gen' # gen
  BY <1>0
<1>3. CASE RefreshStep
  <2>1. CASE Resolved
    BY <1>0, <1>2, <2>1, Names DEF Resolved, Held
  <2>2. CASE Respawns
    BY <1>0, <2>2, Names DEF IInv, HostOK, Respawns
  <2>3. CASE Spawned \/ SpawnFails \/ Initialized
    BY <1>0, <2>3, Names DEF IInv, HostOK, Spawned, SpawnFails, Initialized
  <2>4. CASE Dropped \/ AccountRead
    BY <1>2, <2>4 DEF Dropped, AccountRead
  <2> QED
    BY <1>3, <2>1, <2>2, <2>3, <2>4 DEF RefreshStep
<1>4. CASE Status \/ SignIn \/ SignInGoesOn \/ SignInEnds \/ SignsIn \/ Changes
  BY <1>2, <1>4 DEF Status, SignIn, SignInGoesOn, SignInEnds, SignsIn, Changes
<1>5. ASSUME NEW run, Interrupts(a, run), interrupt[a].pc = "none" PROVE FALSE
  <2>1. interrupt' = Answered(a, "unknown")
    BY <1>2, <1>5 DEF Interrupts
  <2>2. interrupt'[a].pc = "over"
    BY <1>0, <2>1 DEF Answered
  <2> QED
    BY <1>5, <2>2
<1>6. CASE Close
  BY <1>0, <1>2, <1>5, <1>6 DEF Close
<1>7. CASE Closed
  <2>1. host'.closed
    BY <1>0, <1>7 DEF Closed, CloseClient, Without, HostState
  <2> QED
    BY <2>1
<1>8. ASSUME NEW g \in Gens, TransportFails(g) PROVE FALSE
  BY <1>8, RoomAssumption DEF TransportFails, IInv, TypeOK
<1>9. ASSUME NEW b \in Attempts, RunStep(b) PROVE FALSE
  <2>1. b = a
    BY <1>1, <1>9
    DEF RunStep, Threaded, Finalize, Admitted, Rejected, Unadmitted, Quarantined, TurnEnds,
        ModelDeadline, Bereft, Release, Active, Taken
  <2>2. gen' = gen \/ ModelDeadline(a)
    BY <1>9, <2>1
    DEF RunStep, Threaded, Finalize, Admitted, Rejected, Unadmitted, Quarantined, TurnEnds,
        Bereft, Release, Active
  <2>3. ASSUME ModelDeadline(a) PROVE attempt'[a].pc = "settling"
    BY <1>0, <2>3 DEF ModelDeadline, Settled, Settle, Run
  <2> QED
    BY <1>2, <2>2, <2>3 DEF ModelDeadline
<1>10. ASSUME NEW b \in Attempts, Cancel(b) PROVE FALSE
  <2>1. HasLease(b) /\ interrupt[b].pc = "none" /\ Interrupts(b, [attempt[b] EXCEPT !.cancelled = TRUE])
    BY <1>2, <1>10 DEF Cancel
  <2>2. b = a
    BY <1>0, <1>1, <2>1 DEF HasLease, Taken, Run
  <2> QED
    BY <1>5, <2>1, <2>2
<1>11. ASSUME NEW b \in Attempts, InterruptStep(b) PROVE FALSE
  <2>1. GivesUp(b)
    BY <1>2, <1>11 DEF InterruptStep, Reported, Acknowledged, EndsInGrace
  <2>2. b = a
    BY <2>1
  <2>3. interrupt'[a].pc = "over" /\ interrupt[a].pc # "over"
    BY <1>0, <2>1, <2>2 DEF GivesUp, Answered
  <2> QED
    BY <2>3
<1>12. ASSUME NEW b \in Attempts, Acquire(b) \/ Finishes(b) PROVE FALSE
  BY <1>2, <1>12 DEF Acquire, Finishes
<1> QED
  BY <1>2, <1>3, <1>4, <1>6, <1>7, <1>8, <1>9, <1>10, <1>11, <1>12 DEF Next, vars

\* While a turn runs, its generation ends by the attempt's own doing, by a failure, at the close
\* of the host, or by an earlier attempt's interrupt that gives up late (closeClient).
THEOREM TurnsAreSpared == Spec => TurnsLeftAlone
<1>1. IInv /\ [Next]_vars =>
        [\A a \in Attempts :
           Active(a) /\ Up(attempt[a].own) /\ gen'[attempt[a].own] # "up" =>
             \/ attempt'[a] # attempt[a] \/ interrupt'[a] # interrupt[a]
             \/ troubles' # troubles \/ host'.closed
             \/ \E b \in Attempts \ {a} : GivesUp(b)]_vars
  BY StepSpares DEF Spares
<1> QED
  BY <1>1, Invariance, PTL DEF Spec, TurnsLeftAlone

===============================================================================
