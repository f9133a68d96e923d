------------------------------- MODULE CodexHost -------------------------------
(***************************************************************************)
(* The host of the Codex App Server: one generation of the process at a    *)
(* time, one attempt at a time on it, and everything that may end either   *)
(* of them: interrupts, deadlines, the installation changing under it, the *)
(* process failing, a sign-in, and the host being closed.                  *)
(*                                                                         *)
(* A step goes from one await to the next. A generation is the contained   *)
(* process with its transport and client: what is asked of it is answered  *)
(* while it is "up", and rejected as soon as it is closed or has failed;   *)
(* that its process group is gone is heard later.                          *)
(***************************************************************************)
EXTENDS Naturals, FiniteSets

CONSTANTS
  MaxAttempts,   \* how many attempts the coordinator makes
  MaxUses,       \* how many of them, and of the sign-in, come to be
  Gens,          \* room for generations; a number is used again when nobody holds it
  Versions,      \* what the installed binary may be
  MaxTroubles,   \* how often a process fails, the installation changes, the account signs out or
                 \* somebody asks for the status
  None

Attempts == 1..MaxAttempts
Login    == 0               \* the attempt id of a sign-in

ASSUME RoomAssumption ==
  Gens \subseteq Nat /\ MaxAttempts \in Nat /\ MaxUses \in Nat /\ MaxTroubles \in Nat
ASSUME NoneAssumption ==
  None \notin Attempts \cup {Login} /\ None \notin Gens /\ None \notin Versions

VARIABLES
  gen,         \* the generations
  machine,     \* what is installed, and whether Codex is signed in
  host,        \* client, activeAttemptId, activeLease, staleGeneration, accepting
  refresh,     \* refreshInFlight
  attempt,     \* each attempt's lease, and its run through the adapter
  turn,        \* each attempt's turn as the provider knows it
  interrupt,   \* the interrupt of each attempt
  login,       \* the device sign-in
  troubles

vars == <<gen, machine, host, refresh, attempt, turn, interrupt, login, troubles>>

Idle      == [pc |-> "idle", found |-> None, gen |-> None]
NoAttempt == [pc |-> "idle", own |-> None, outcome |-> "none", phase |-> 0, cancelled |-> FALSE]

Generation == {"gone", "spawning", "up"}

HostState ==
  [client : Gens \cup {None}, identity : Versions \cup {None},
   active : Attempts \cup {Login, None}, lease : Attempts \cup {None},
   stale : BOOLEAN, accepting : BOOLEAN, closed : BOOLEAN]

RefreshState ==
  [pc : {"idle", "resolving", "closing", "dropping", "spawning", "initializing",
         "discarding", "account"},
   found : Versions \cup {None}, gen : Gens \cup {None}]

Run ==
  [pc : {"idle", "acquiring", "threading", "starting", "quarantining", "running", "settling", "over"},
   own : Gens \cup {None},
   outcome : {"none", "completed", "interrupted", "unknown", "failed"},
   phase : 0..2, cancelled : BOOLEAN]

InterruptState ==
  [pc : {"none", "reporting", "asking", "grace", "over"},
   terminal : {"none", "completed", "interrupted", "unknown"}]

LoginState ==
  [pc : {"idle", "refreshing", "starting", "waiting", "confirming", "over"}, gen : Gens \cup {None}]

TypeOK ==
  /\ gen \in [Gens -> Generation]
  /\ machine \in [installed : Versions \cup {None}, signedIn : BOOLEAN]
  /\ host \in HostState
  /\ refresh \in RefreshState
  /\ attempt \in [Attempts -> Run]
  /\ turn \in [Attempts -> {"none", "open", "completed", "interrupted"}]
  /\ interrupt \in [Attempts -> InterruptState]
  /\ login \in LoginState
  /\ troubles \in 0..MaxTroubles

Init ==
  /\ gen = [g \in Gens |-> "gone"]
  /\ machine \in [installed : Versions \cup {None}, signedIn : BOOLEAN]
  /\ host = [client |-> None, identity |-> None, active |-> None, lease |-> None, stale |-> FALSE,
             accepting |-> TRUE, closed |-> FALSE]
  /\ refresh = Idle
  /\ attempt = [a \in Attempts |-> NoAttempt]
  /\ turn = [a \in Attempts |-> "none"]
  /\ interrupt = [a \in Attempts |-> [pc |-> "none", terminal |-> "none"]]
  /\ login = [pc |-> "idle", gen |-> None]
  /\ troubles = 0

-----------------------------------------------------------------------------
(* Helpers. *)

Up(g) == g # None /\ gen[g] = "up"

\* transport.close(): no more calls are answered, and the process group is signalled.
Ended(g) == IF Up(g) THEN [gen EXCEPT ![g] = "gone"] ELSE gen

Without(h) == [h EXCEPT !.client = None, !.identity = None]

\* closeClient(), whichever generation is the client.
CloseClient(h) ==
  /\ gen' = Ended(host.client)
  /\ host' = Without(h)

\* Mutant: the readiness check does not mind the lease.
HeldByNobody == FALSE

\* A lease is out: what would end its generation has to wait.
Held == host.lease # None

\* Mutant: nobody looks again whether the host is being closed.
TakesLate(g) == Up(g)

\* The host goes on with what initialize() has answered for.
Takes(g) == Up(g) /\ host.accepting

\* runTurn has begun and has not ended.
Active(a) == attempt[a].pc \in {"starting", "quarantining", "running"}

\* requireLease()
HasLease(a) == host.active = a /\ attempt[a].pc \notin {"idle", "acquiring", "over"}

Settle(run, outcome) == [run EXCEPT !.pc = "settling", !.outcome = outcome]
Settled(a, outcome)  == [attempt EXCEPT ![a] = Settle(attempt[a], outcome)]

Answered(a, terminal) == [interrupt EXCEPT ![a] = [pc |-> "over", terminal |-> terminal]]

\* Nobody holds the number g any more.
Free(g) ==
  /\ gen[g] = "gone"
  /\ host.client # g /\ login.gen # g
  /\ \A a \in Attempts : attempt[a].own = g =>
       attempt[a].pc = "over" /\ interrupt[a].pc \in {"none", "over"}

-----------------------------------------------------------------------------
(* refresh(): one at a time, whoever asks joins the one in flight. *)

Begins == IF refresh.pc = "idle" THEN [Idle EXCEPT !.pc = "resolving"] ELSE refresh

Waits(a) == attempt[a].pc = "acquiring"

\* The run of an attempt that is given the generation g. One that was cancelled meanwhile gets
\* its lease, the interrupt that has waited for it, and no further.
Serves(run, g) ==
  [run EXCEPT !.own = g,
              !.pc = IF run.cancelled THEN "settling" ELSE "threading",
              !.outcome = IF run.cancelled THEN "failed" ELSE run.outcome]

Hears(run, answer) == IF run.cancelled THEN [pc |-> "over", terminal |-> "completed"] ELSE answer

\* The sign-in after a refresh that it has asked for.
SignsOn(h, status) ==
  IF login.pc = "refreshing" /\ status = "signed-out" THEN [pc |-> "starting", gen |-> h.client]
  ELSE IF login.pc \in {"refreshing", "confirming"} THEN [pc |-> "over", gen |-> None]
  ELSE login

\* The refresh ends; the attempt or the sign-in that waits for it goes on with h.
RefreshEnds(h, status) ==
  LET ready == status = "ready"
      waits == {a \in Attempts : Waits(a)}
      gone  == IF ready THEN {} ELSE waits
      over  == IF SignsOn(h, status).pc = "over" THEN gone \cup {Login} ELSE gone
  IN
  /\ refresh' = Idle
  /\ attempt' = [a \in Attempts |->
       IF ~Waits(a) THEN attempt[a]
       ELSE IF ready THEN Serves(attempt[a], h.client) ELSE [attempt[a] EXCEPT !.pc = "over"]]
  /\ interrupt' = [a \in Attempts |->
       IF Waits(a) /\ ready THEN Hears(attempt[a], interrupt[a]) ELSE interrupt[a]]
  /\ login' = SignsOn(h, status)
  /\ host' = [h EXCEPT
       !.lease = IF ready /\ waits # {} THEN CHOOSE a \in waits : TRUE ELSE h.lease,
       !.active = IF h.active \in over THEN None ELSE h.active]

\* status() asks for a refresh of its own.
Status ==
  /\ troubles < MaxTroubles /\ troubles' = troubles + 1
  /\ host.accepting /\ refresh.pc = "idle"
  /\ refresh' = Begins
  /\ UNCHANGED <<gen, machine, host, attempt, turn, interrupt, login>>

\* The installation has been looked at. A changed or missing one waits for the lease.
Resolved ==
  LET found == machine.installed
      changed == host.client # None /\ found # host.identity
      next(pc, g) == refresh' = [pc |-> pc, found |-> found, gen |-> g]
  IN
  /\ refresh.pc = "resolving"
  /\ IF ~host.accepting
       THEN RefreshEnds(host, "failed") /\ gen' = gen
     ELSE IF changed /\ Held
       THEN RefreshEnds([host EXCEPT !.stale = TRUE], "needs-reprobe") /\ gen' = gen
     ELSE IF changed
       THEN /\ CloseClient(host)
            /\ next(IF found = None THEN "dropping" ELSE "closing", host.client)
            /\ UNCHANGED <<attempt, interrupt, login>>
     ELSE IF found = None
       THEN RefreshEnds(host, "unavailable") /\ gen' = gen
     ELSE IF host.client # None
       THEN next("account", host.client) /\ UNCHANGED <<gen, host, attempt, interrupt, login>>
     ELSE \E g \in Gens :
            /\ Free(g) /\ \A f \in Gens : Free(f) => g <= f
            /\ gen' = [gen EXCEPT ![g] = "spawning"]
            /\ next("spawning", g)
            /\ UNCHANGED <<host, attempt, interrupt, login>>
  /\ UNCHANGED <<machine, turn, troubles>>

\* The generation of another version has ended, and the new one is spawned.
Respawns ==
  /\ refresh.pc = "closing"
  /\ \E g \in Gens :
       /\ Free(g) /\ \A f \in Gens : Free(f) => g <= f
       /\ gen' = [gen EXCEPT ![g] = "spawning"]
       /\ refresh' = [pc |-> "spawning", found |-> refresh.found, gen |-> g]
  /\ UNCHANGED <<machine, host, attempt, turn, interrupt, login, troubles>>

\* What was closed because nothing is installed has ended; or the look at the installation or
\* a close has failed.
Dropped ==
  /\ \/ refresh.pc = "dropping" /\ RefreshEnds(host, "unavailable")
     \/ /\ refresh.pc \in {"resolving", "closing", "dropping", "discarding"}
        /\ RefreshEnds(host, "failed")
  /\ UNCHANGED <<gen, machine, turn, troubles>>

\* The process is there in time.
Spawned ==
  /\ refresh.pc = "spawning"
  /\ IF host.accepting
     THEN /\ gen' = [gen EXCEPT ![refresh.gen] = "up"]
          /\ refresh' = [refresh EXCEPT !.pc = "initializing"]
     ELSE /\ gen' = [gen EXCEPT ![refresh.gen] = "gone"]
          /\ refresh' = [refresh EXCEPT !.pc = "discarding"]
  /\ UNCHANGED <<machine, host, attempt, turn, interrupt, login, troubles>>

\* It cannot be spawned, or not in time: then it is closed when it comes.
SpawnFails ==
  /\ refresh.pc = "spawning"
  /\ gen' = [gen EXCEPT ![refresh.gen] = "gone"]
  /\ RefreshEnds(host, "failed")
  /\ UNCHANGED <<machine, turn, troubles>>

\* initialize() has answered, or cannot.
Initialized ==
  /\ refresh.pc = "initializing"
  /\ IF Takes(refresh.gen)
     THEN /\ host' = [host EXCEPT !.client = refresh.gen, !.identity = refresh.found]
          /\ refresh' = [refresh EXCEPT !.pc = "account"]
          /\ gen' = gen
     ELSE /\ gen' = Ended(refresh.gen)
          /\ refresh' = [refresh EXCEPT !.pc = "discarding"]
          /\ host' = host
  /\ UNCHANGED <<machine, attempt, turn, interrupt, login, troubles>>

\* accountRead() has answered, or cannot. The client stays what it is.
AccountRead ==
  /\ refresh.pc = "account"
  /\ RefreshEnds(host,
       IF ~Up(refresh.gen) \/ ~host.accepting THEN "failed"
       ELSE IF machine.signedIn THEN "ready" ELSE "signed-out")
  /\ UNCHANGED <<gen, machine, turn, troubles>>

-----------------------------------------------------------------------------
(* An attempt: run and releaseAttempt of the adapter, on its lease. *)

Used == {a \in Attempts : attempt[a].pc # "idle"}
Uses == Cardinality(Used) + (IF login.pc = "idle" THEN 0 ELSE 1)

\* acquireAttempt: the slot is taken before anything is awaited.
Acquire(a) ==
  /\ attempt[a].pc = "idle" /\ host.accepting /\ host.active = None
  /\ Uses < MaxUses /\ \A b \in 1..(a - 1) : b \in Used
  /\ host' = [host EXCEPT !.active = a]
  /\ attempt' = [attempt EXCEPT ![a].pc = "acquiring"]
  /\ refresh' = Begins
  /\ UNCHANGED <<gen, machine, turn, interrupt, login, troubles>>

\* turn/start is written to the generation of the lease.
StartTurn(a) ==
  /\ attempt' = [attempt EXCEPT ![a].pc = "starting", ![a].outcome = "none", ![a].phase = attempt[a].phase + 1]
  /\ turn' = [turn EXCEPT ![a] = "open"]

\* thread/start has answered, or cannot: the planner's turn follows.
Threaded(a) ==
  /\ attempt[a].pc = "threading"
  /\ \/ Up(attempt[a].own) /\ HasLease(a) /\ ~attempt[a].cancelled /\ StartTurn(a)
     \/ attempt' = Settled(a, "failed") /\ turn' = turn
  /\ UNCHANGED <<gen, machine, host, refresh, interrupt, login, troubles>>

\* The planner asked for reads, nobody cancelled, and the finalizer's turn follows. A host
\* that is being closed has let go of the lease by then.
Finalize(a) ==
  /\ attempt[a].pc = "settling" /\ attempt[a].outcome = "completed" /\ attempt[a].phase = 1
  /\ HasLease(a) /\ host.accepting /\ interrupt[a].pc = "none"
  /\ StartTurn(a)
  /\ UNCHANGED <<gen, machine, host, refresh, interrupt, login, troubles>>

\* turn/start has answered with the turn's id; what came before it is replayed.
Admitted(a) ==
  /\ attempt[a].pc = "starting" /\ Up(attempt[a].own)
  /\ attempt' = [attempt EXCEPT ![a].pc = "running"]
  /\ UNCHANGED <<gen, machine, host, refresh, turn, interrupt, login, troubles>>

\* The provider refuses the turn.
Rejected(a) ==
  /\ attempt[a].pc = "starting" /\ Up(attempt[a].own) /\ turn[a] = "open"
  /\ turn' = [turn EXCEPT ![a] = "none"]
  /\ attempt' = Settled(a, "failed")
  /\ UNCHANGED <<gen, machine, host, refresh, interrupt, login, troubles>>

\* No answer will come: the outcome is unknown, and the client is closed before the run ends.
Unadmitted(a) ==
  /\ attempt[a].pc = "starting" /\ ~Up(attempt[a].own)
  /\ attempt' = [attempt EXCEPT ![a].pc = "quarantining"]
  /\ CloseClient(host)
  /\ UNCHANGED <<machine, refresh, turn, interrupt, login, troubles>>

Quarantined(a) ==
  /\ attempt[a].pc = "quarantining"
  /\ attempt' = Settled(a, "unknown")
  /\ UNCHANGED <<gen, machine, host, refresh, turn, interrupt, login, troubles>>

\* turn/completed arrives; a status other than "completed" counts as an interruption.
TurnEnds(a) ==
  /\ attempt[a].pc = "running" /\ Up(attempt[a].own)
  /\ turn[a] \in {"completed", "interrupted"}
  /\ attempt' = Settled(a, turn[a])
  /\ UNCHANGED <<gen, machine, host, refresh, turn, interrupt, login, troubles>>

\* Mutant: the deadline ends the run and not the client.
ModelDeadlineOnly(a) ==
  /\ attempt[a].pc = "running"
  /\ attempt' = Settled(a, "unknown")
  /\ UNCHANGED <<gen, machine, host, refresh, turn, interrupt, login, troubles>>

\* modelAbsoluteMs: the client is closed, and the outcome is unknown.
ModelDeadline(a) ==
  /\ attempt[a].pc = "running"
  /\ attempt' = Settled(a, "unknown")
  /\ CloseClient(host)
  /\ UNCHANGED <<machine, refresh, turn, interrupt, login, troubles>>

\* Mutant: the note that the generation is stale outlives its lease.
LetGoStale(a) == [host EXCEPT !.active = IF host.active = a THEN None ELSE host.active,
                              !.lease = IF host.lease = a THEN None ELSE host.lease]

\* The slot is free again.
LetGo(a) == [host EXCEPT !.active = IF host.active = a THEN None ELSE host.active,
                         !.lease = IF host.lease = a THEN None ELSE host.lease,
                         !.stale = FALSE]

\* The lease is let go, and with it a generation that has become stale. A coordinator that
\* was asked to cancel waits for the interrupt's answer, unless the run has failed.
Release(a) ==
  /\ attempt[a].pc = "settling"
  /\ attempt[a].outcome = "completed" /\ attempt[a].cancelled => interrupt[a].pc = "over"
  /\ attempt' = [attempt EXCEPT ![a].pc = "over"]
  /\ IF host.stale THEN CloseClient(LetGo(a)) ELSE host' = LetGo(a) /\ gen' = gen
  /\ UNCHANGED <<machine, refresh, turn, interrupt, login, troubles>>

-----------------------------------------------------------------------------
(* lease.interrupt(report), from the adapter's cancel or the host's close. *)

\* What the interrupt does first, with run for the attempt's record: without a turn it
\* answers at once, one that is not acknowledged is given up, one that runs is asked to stop.
Interrupts(a, run) ==
  \/ /\ ~Active(a)
     /\ interrupt' = Answered(a, "completed")
     /\ attempt' = [attempt EXCEPT ![a] = run]
     /\ UNCHANGED gen
  \/ /\ attempt[a].pc \in {"starting", "quarantining"}
     /\ interrupt' = Answered(a, "unknown")
     /\ attempt' = [attempt EXCEPT ![a] = IF run.pc = "starting" THEN Settle(run, "unknown") ELSE run]
     /\ gen' = Ended(host.client)
  \/ /\ attempt[a].pc = "running"
     /\ interrupt' = [interrupt EXCEPT ![a].pc = "reporting"]
     /\ attempt' = [attempt EXCEPT ![a] = run]
     /\ UNCHANGED gen

\* The client is closed by an interrupt of a turn that is not acknowledged.
Drops(a) == attempt[a].pc \in {"starting", "quarantining"}

\* The adapter notes the cancel, and its interrupt waits for the lease if there is none yet.
Cancel(a) ==
  LET run == [attempt[a] EXCEPT !.cancelled = TRUE] IN
  /\ ~attempt[a].cancelled
  /\ \/ /\ attempt[a].pc = "acquiring"
        /\ attempt' = [attempt EXCEPT ![a] = run]
        /\ UNCHANGED <<gen, host, interrupt>>
     \/ /\ HasLease(a) /\ interrupt[a].pc = "none"
        /\ Interrupts(a, run)
        /\ host' = IF Drops(a) THEN Without(host) ELSE host
     \/ /\ HasLease(a) /\ interrupt[a].pc # "none"
        /\ attempt' = [attempt EXCEPT ![a] = run]
        /\ UNCHANGED <<gen, host, interrupt>>
  /\ UNCHANGED <<machine, refresh, turn, login, troubles>>

\* report("interrupt-sent") has come back.
Reported(a) ==
  /\ interrupt[a].pc = "reporting"
  /\ interrupt' = [interrupt EXCEPT ![a].pc = "asking"]
  /\ UNCHANGED <<gen, machine, host, refresh, attempt, turn, login, troubles>>

\* turn/interrupt is acknowledged, which does not say how the turn ends.
Acknowledged(a) ==
  /\ interrupt[a].pc = "asking" /\ Up(attempt[a].own)
  /\ interrupt' = [interrupt EXCEPT ![a].pc = "grace"]
  /\ UNCHANGED <<gen, machine, host, refresh, attempt, turn, login, troubles>>

\* Mutant: the acknowledgement of the interrupt is taken for its effect.
EndOnAck(a) ==
  IF attempt[a].outcome \in {"completed", "interrupted"} THEN attempt[a].outcome ELSE "interrupted"

\* How the turn has ended, for the interrupt that waits for it.
End(a) == IF attempt[a].outcome \in {"completed", "interrupted"} THEN attempt[a].outcome ELSE "none"

\* The turn has ended in the grace period.
EndsInGrace(a) ==
  /\ interrupt[a].pc = "grace" /\ End(a) # "none"
  /\ interrupt' = Answered(a, End(a))
  /\ UNCHANGED <<gen, machine, host, refresh, attempt, turn, login, troubles>>

\* No acknowledgement, or no end: the outcome of the run, if there still is one, is unknown,
\* and the client is closed, whichever generation that now is.
GivesUp(a) ==
  /\ \/ interrupt[a].pc = "asking"
     \/ interrupt[a].pc = "grace" /\ End(a) = "none"
  /\ interrupt' = Answered(a, "unknown")
  /\ attempt' = IF attempt[a].pc = "running" THEN Settled(a, "unknown") ELSE attempt
  /\ CloseClient(host)
  /\ UNCHANGED <<machine, refresh, turn, login, troubles>>

-----------------------------------------------------------------------------
(* The device sign-in takes the slot like an attempt. *)

SignIn ==
  /\ login.pc = "idle" /\ host.accepting /\ host.active = None /\ Uses < MaxUses
  /\ host' = [host EXCEPT !.active = Login]
  /\ login' = [login EXCEPT !.pc = "refreshing"]
  /\ refresh' = Begins
  /\ UNCHANGED <<gen, machine, attempt, turn, interrupt, troubles>>

\* The code is shown, and the account is polled until it is there.
SignInGoesOn ==
  /\ Up(login.gen)
  /\ \/ login.pc = "starting" /\ login' = [login EXCEPT !.pc = "waiting"] /\ UNCHANGED refresh
     \/ /\ login.pc = "waiting" /\ machine.signedIn
        /\ login' = [pc |-> "confirming", gen |-> None]
        /\ refresh' = Begins
  /\ UNCHANGED <<gen, machine, host, attempt, turn, interrupt, troubles>>

\* It is aborted, takes too long, or its generation is gone.
SignInEnds ==
  /\ login.pc \in {"starting", "waiting"}
  /\ login' = [pc |-> "over", gen |-> None]
  /\ host' = [host EXCEPT !.active = IF host.active = Login THEN None ELSE host.active]
  /\ UNCHANGED <<gen, machine, refresh, attempt, turn, interrupt, troubles>>

-----------------------------------------------------------------------------
(* host.close() *)

\* Nothing new is admitted, and a turn of the lease is interrupted.
Close ==
  LET h == [host EXCEPT !.accepting = FALSE]
      a == host.lease
  IN
  /\ host.accepting
  /\ IF a # None /\ Active(a) /\ interrupt[a].pc = "none"
     THEN /\ Interrupts(a, attempt[a])
          /\ host' = IF Drops(a) THEN Without(h) ELSE h
     ELSE host' = h /\ UNCHANGED <<gen, attempt, interrupt>>
  /\ UNCHANGED <<machine, refresh, turn, login, troubles>>

\* All is drained, or the time for it is over.
Closed ==
  /\ ~host.accepting /\ ~host.closed
  /\ CloseClient([host EXCEPT !.active = None, !.lease = None, !.closed = TRUE])
  /\ UNCHANGED <<machine, refresh, attempt, turn, interrupt, login, troubles>>

-----------------------------------------------------------------------------
(* The process, the provider and the machine. *)

\* The process dies, a request's deadline passes, or its protocol is broken.
TransportFails(g) ==
  /\ Up(g) /\ troubles < MaxTroubles
  /\ gen' = Ended(g)
  /\ troubles' = troubles + 1
  /\ UNCHANGED <<machine, host, refresh, attempt, turn, interrupt, login>>

\* A turn on it hears that the process group is gone: its outcome is unknown, and it closes
\* the client.
Bereft(a) ==
  /\ Active(a) /\ ~Up(attempt[a].own)
  /\ attempt' = IF attempt[a].pc = "quarantining" THEN attempt ELSE Settled(a, "unknown")
  /\ CloseClient(host)
  /\ UNCHANGED <<machine, refresh, turn, interrupt, login, troubles>>

\* The provider completes a turn, or ends it otherwise, asked to or not.
Finishes(a) ==
  /\ turn[a] = "open" /\ Up(attempt[a].own)
  /\ \E end \in {"completed", "interrupted"} : turn' = [turn EXCEPT ![a] = end]
  /\ UNCHANGED <<gen, machine, host, refresh, attempt, interrupt, login, troubles>>

\* The binary is replaced or removed, or the account signs out.
Changes ==
  /\ troubles < MaxTroubles
  /\ \/ \E v \in (Versions \cup {None}) \ {machine.installed} :
          machine' = [machine EXCEPT !.installed = v]
     \/ machine.signedIn /\ machine' = [machine EXCEPT !.signedIn = FALSE]
  /\ troubles' = troubles + 1
  /\ UNCHANGED <<gen, host, refresh, attempt, turn, interrupt, login>>

\* The user enters the code.
SignsIn ==
  /\ login.pc = "waiting" /\ Up(login.gen) /\ ~machine.signedIn
  /\ machine' = [machine EXCEPT !.signedIn = TRUE]
  /\ UNCHANGED <<gen, host, refresh, attempt, turn, interrupt, login, troubles>>

-----------------------------------------------------------------------------

RefreshStep ==
  Resolved \/ Respawns \/ Dropped \/ Spawned \/ SpawnFails \/ Initialized \/ AccountRead

RunStep(a) ==
  \/ Threaded(a) \/ Finalize(a) \/ Admitted(a) \/ Rejected(a) \/ Unadmitted(a) \/ Quarantined(a)
  \/ TurnEnds(a) \/ ModelDeadline(a) \/ Bereft(a) \/ Release(a)

InterruptStep(a) ==
  Reported(a) \/ Acknowledged(a) \/ EndsInGrace(a) \/ GivesUp(a)

Next ==
  \/ Status \/ RefreshStep \/ SignIn \/ SignInGoesOn \/ SignInEnds \/ SignsIn
  \/ Close \/ Closed \/ Changes
  \/ \E a \in Attempts : Acquire(a) \/ RunStep(a) \/ Cancel(a) \/ InterruptStep(a) \/ Finishes(a)
  \/ \E g \in Gens : TransportFails(g)

Spec == Init /\ [][Next]_vars

-----------------------------------------------------------------------------
(* Properties *)

\* No generation is left running that nobody would ever close: it is the client, or the
\* refresh in flight is starting it (app-server-provider.ts, refresh and close).
NoOrphans ==
  /\ \A g \in Gens : gen[g] \in {"spawning", "up"} =>
       \/ host.client = g
       \/ refresh.gen = g /\ refresh.pc \in {"spawning", "initializing"}
  /\ host.closed => host.client = None

\* An attempt that is over, and its interrupt, claim an end only of a turn that has ended and
\* will not be followed by another: what is not known stays "unknown" (runTurn, interrupt).
\* An interrupt after the run has been given up as unknown calls it completed all the same.
TruthfulEnds ==
  \A a \in Attempts :
    /\ attempt[a].outcome # "unknown"
    /\ \/ attempt[a].pc \in {"settling", "over"}
       \/ interrupt[a].terminal \in {"completed", "interrupted"}
    => turn[a] # "open"

\* The generation on which a turn got lost is never handed to another caller: it is not the
\* client when the run ends (runTurn: "quarantine this generation").
UnknownIsQuarantined ==
  \A a \in Attempts :
    attempt[a].pc = "settling" /\ attempt[a].outcome = "unknown" => host.client # attempt[a].own

\* While a turn runs, nobody but the attempt itself, a failing process or the closing of the
\* host ends its generation: not a refresh, a release or a sign-in. An interrupt of an
\* earlier attempt whose report or acknowledgement comes late does, and is excepted.
TurnsLeftAlone ==
  [][\A a \in Attempts :
       Active(a) /\ Up(attempt[a].own) /\ gen'[attempt[a].own] # "up" =>
         \/ attempt'[a] # attempt[a] \/ interrupt'[a] # interrupt[a]
         \/ troubles' # troubles \/ host'.closed
         \/ \E b \in Attempts \ {a} : GivesUp(b)]_vars

\* The slot is held by somebody who still lets go of it, and what makes the next release close
\* the client is noted only under a lease: nothing is busy for ever, and no release closes a
\* generation that is not stale (reserve, acquireAttempt, login, release).
SlotIsHeld ==
  /\ \A a \in Attempts : host.active = a => attempt[a].pc \notin {"idle", "over"}
  /\ host.active = Login => login.pc \notin {"idle", "over"}
  /\ host.lease # None => host.active = host.lease
  /\ host.stale /\ host.accepting => host.lease # None

===============================================================================
