------------------------------- MODULE SyncWorker -------------------------------
(***************************************************************************)
(* The sync workers of the accounts and the gate they share: the wakeups,  *)
(* the run loop and its cycles, the one timer, the subscription to the     *)
(* queue, drain and stop, with the cycle's own outcomes as inputs.         *)
(*                                                                         *)
(* JavaScript runs to the next await without interruption, so a step goes  *)
(* from one await to the next.  A worker is a record of its fields; the    *)
(* trigger of a wakeup and the status it is shown under are not kept.      *)
(***************************************************************************)
EXTENDS Naturals, Sequences, FiniteSets

CONSTANTS
  Accounts,   \* one worker each
  Limit,      \* cycles the gate lets run at once
  Used        \* accounts whose user edits, disconnects and reconnects; the
              \* others only sync in the background

ASSUME LimitAssumption == Limit \in Nat \ {0}
ASSUME AccountsAssumption == IsFiniteSet(Accounts) /\ Used \subseteq Accounts

VARIABLES
  worker,   \* the worker of each account
  gate      \* #active and #queue of the cycle gate

vars == <<worker, gate>>

\* run is where the loop is: not running, waiting for the gate, let in by it,
\* asking for an access token, pulling, uploading, or over and not yet settled.
Worker ==
  [run        : {"none", "queued", "enter", "token", "pull", "upload", "over"},
   pending    : BOOLEAN,    \* pendingTrigger is set
   timer      : BOOLEAN,    \* the retry or periodic timer is set
   started    : BOOLEAN,
   draining   : BOOLEAN,
   stopped    : BOOLEAN,
   paused     : BOOLEAN,    \* authPaused
   aborted    : BOOLEAN,    \* the signal of the last cycle
   subscribed : BOOLEAN,
   notice     : BOOLEAN,    \* the subscription will call its listener
   edits      : BOOLEAN,    \* the account has operations to upload
   taken      : BOOLEAN,    \* the upload in progress has them
   awaited    : BOOLEAN,    \* drain waits for the run
   stopping   : BOOLEAN,    \* stop waits for drain
   last       : {"none", "done", "failed", "sign-in", "configuration", "cut"}]
                           \* how the last cycle that asked Google ended

Fresh ==
  [run |-> "none", pending |-> FALSE, timer |-> FALSE, started |-> FALSE, draining |-> FALSE,
   stopped |-> FALSE, paused |-> FALSE, aborted |-> FALSE, subscribed |-> FALSE,
   notice |-> FALSE, edits |-> FALSE, taken |-> FALSE, awaited |-> FALSE,
   stopping |-> FALSE, last |-> "none"]

TypeOK ==
  /\ worker \in [Accounts -> Worker]
  /\ gate \in [active : 0..Limit, queue : Seq(Accounts)]

\* Every step moves one worker and perhaps the gate.
Becomes(a, w) == worker' = [worker EXCEPT ![a] = w]
Leaving(w)    == w.stopped \/ w.draining

-----------------------------------------------------------------------------
(* The gate: a slot is taken, or waited for in order; a slot given back     *)
(* goes to the first that waits.                                           *)

Acquired(w, g) == [w EXCEPT !.run = IF g.active < Limit THEN "enter" ELSE "queued"]

AfterAcquire(a, g) ==
  IF g.active < Limit THEN [g EXCEPT !.active = @ + 1] ELSE [g EXCEPT !.queue = Append(@, a)]

Released(g) ==
  IF g.queue = <<>> THEN [g EXCEPT !.active = @ - 1] ELSE [g EXCEPT !.queue = Tail(@)]

\* Mutant: nobody is told of the slot.
NobodyLetIn(ws, g) == ws

LetIn(ws, g) ==
  IF g.queue = <<>> THEN ws ELSE [ws EXCEPT ![Head(g.queue)].run = "enter"]

-----------------------------------------------------------------------------
(* The loop.                                                               *)

\* The head of runLoop: one more cycle if a wakeup is pending.
Again(w) == w.pending /\ ~Leaving(w)

Looping(w, g) == Acquired([w EXCEPT !.pending = FALSE], g)

LoopOver(w) == [w EXCEPT !.run = "over"]

\* ensureLoop.
Loopable(w) == w.run = "none" /\ w.pending

EnsureLoop(a, w) ==
  IF Loopable(w)
  THEN Becomes(a, Looping(w, gate)) /\ gate' = AfterAcquire(a, gate)
  ELSE Becomes(a, w) /\ UNCHANGED gate

\* wake, for a worker that listens.
Hears(w) == ~Leaving(w)

Woken(w) == [w EXCEPT !.pending = TRUE, !.timer = FALSE]

Wake(a, w) == IF Hears(w) THEN EnsureLoop(a, Woken(w)) ELSE Becomes(a, w) /\ UNCHANGED gate

\* A subscription reports what is there, and then every change.
Subscribed(w) == [w EXCEPT !.subscribed = TRUE, !.notice = @ \/ w.edits]

\* The cycle of w is over: the gate's slot is given back before the loop looks
\* for another wakeup.
EndCycle(a, w) ==
  LET g  == Released(gate)
      ws == LetIn(worker, gate) IN
  IF Again(w)
  THEN /\ worker' = [ws EXCEPT ![a] = Looping(w, g)]
       /\ gate' = AfterAcquire(a, g)
  ELSE /\ worker' = [ws EXCEPT ![a] = LoopOver(w)]
       /\ gate' = g

\* scheduleRetry, after a pull or a token that failed.
Retried(w) ==
  [w EXCEPT !.timer = @ \/ ~(Leaving(w) \/ w.paused), !.last = "failed"]

SignInNeeded(w) == [w EXCEPT !.paused = TRUE, !.last = "sign-in"]

-----------------------------------------------------------------------------
(* What happens to a worker from outside.                                  *)

Start(a) ==
  /\ ~worker[a].started /\ ~worker[a].stopped
  /\ Wake(a, Subscribed([worker[a] EXCEPT !.started = TRUE]))

\* The user queues an edit.
Edit(a) ==
  /\ ~worker[a].edits
  /\ Becomes(a, [worker[a] EXCEPT !.edits = TRUE, !.notice = worker[a].subscribed])
  /\ UNCHANGED gate

\* The subscription's listener, for a change or for a retry that has come due.
Notice(a) ==
  /\ worker[a].notice
  /\ Wake(a, [worker[a] EXCEPT !.notice = FALSE])

TimerFires(a) ==
  /\ worker[a].timer
  /\ Wake(a, worker[a])

\* The network is back, or the user asks for a sync.
Prompt(a) ==
  /\ Hears(worker[a])
  /\ Wake(a, worker[a])

\* The account has been connected again.
Connection(a) ==
  /\ ~worker[a].stopped
  /\ LET w == [worker[a] EXCEPT !.paused = FALSE, !.draining = FALSE] IN
     Wake(a, IF w.started /\ ~w.subscribed THEN Subscribed(w) ELSE w)

Drained(w) ==
  [w EXCEPT !.draining = TRUE, !.pending = FALSE, !.subscribed = FALSE, !.notice = FALSE,
            !.timer = FALSE, !.awaited = w.run # "none"]

\* drain, and the drain that stop begins with.
Drain(a, forStop) ==
  /\ ~worker[a].stopped /\ ~worker[a].stopping
  /\ LET w == [worker[a] EXCEPT !.stopping = forStop] IN
     IF Loopable(w)
     THEN Becomes(a, Drained(Looping(w, gate))) /\ gate' = AfterAcquire(a, gate)
     ELSE Becomes(a, Drained(w)) /\ UNCHANGED gate

\* The run does not end in time.
DrainTimesOut(a) ==
  /\ worker[a].awaited
  /\ Becomes(a, [worker[a] EXCEPT !.awaited = FALSE, !.aborted = TRUE])
  /\ UNCHANGED gate

\* The rest of stop; of a worker that is draining already, all of it.
Stop(a) ==
  /\ ~worker[a].stopped
  /\ worker[a].draining \/ worker[a].stopping
  /\ worker[a].stopping => ~worker[a].awaited
  /\ Becomes(a, [worker[a] EXCEPT !.stopped = TRUE, !.stopping = FALSE, !.aborted = TRUE])
  /\ UNCHANGED gate

-----------------------------------------------------------------------------
(* A cycle: runOnce.                                                       *)

Admitted(w) == ~Leaving(w) /\ ~w.paused

Enter(a) ==
  /\ worker[a].run = "enter"
  /\ IF Admitted(worker[a])
     THEN Becomes(a, [worker[a] EXCEPT !.run = "token"]) /\ UNCHANGED gate
     ELSE EndCycle(a, worker[a])

\* oauth.status and accessToken; that a credential has lapsed is noted by a worker
\* that is left, too.
NoToken(a) ==
  /\ worker[a].run = "token"
  /\ \/ EndCycle(a, SignInNeeded(worker[a]))
     \/ EndCycle(a, IF Leaving(worker[a]) THEN worker[a] ELSE Retried(worker[a]))

\* Mutant: the worker does not look again after the wait for the token.
CycleRuns(w) == TRUE

Proceeds(w) == ~Leaving(w)

Token(a) ==
  /\ worker[a].run = "token"
  /\ IF Proceeds(worker[a])
     THEN Becomes(a, [worker[a] EXCEPT !.run = "pull", !.aborted = FALSE]) /\ UNCHANGED gate
     ELSE EndCycle(a, worker[a])

\* A call of the pull fails.
PullFails(a) ==
  /\ worker[a].run = "pull"
  /\ \E w \in {SignInNeeded(worker[a]), Retried(worker[a]),
               [worker[a] EXCEPT !.last = "configuration"]} :
       EndCycle(a, w)

\* The pull is done, and the upload takes what is in the queue.
Pulled(a) ==
  /\ worker[a].run = "pull"
  /\ IF ~Proceeds(worker[a]) \/ worker[a].aborted
     THEN EndCycle(a, [worker[a] EXCEPT !.last = "cut"])
     ELSE /\ Becomes(a, [worker[a] EXCEPT !.run = "upload", !.edits = FALSE, !.taken = worker[a].edits])
          /\ UNCHANGED gate

\* Edits that were not uploaded are in the queue again, and the subscription
\* reports them when they come due.
Handed(w) == [w EXCEPT !.taken = FALSE, !.edits = @ \/ w.taken,
                       !.notice = @ \/ (w.taken /\ w.subscribed)]

\* schedulePeriodicPull.
Periodic(w) ==
  [w EXCEPT !.timer = @ \/ (w.started /\ ~Leaving(w) /\ ~w.paused), !.last = "done"]

Uploaded(a) ==
  /\ worker[a].run = "upload"
  /\ EndCycle(a, Periodic([worker[a] EXCEPT !.taken = FALSE]))

\* Google or the network refuses for now: the edits wait for a retry.
UploadDefers(a) ==
  /\ worker[a].run = "upload" /\ worker[a].taken
  /\ EndCycle(a, Periodic(Handed(worker[a])))

\* Google wants the user to sign in again.
UploadUnauthorized(a) ==
  /\ worker[a].run = "upload"
  /\ EndCycle(a, SignInNeeded(Handed(worker[a])))

\* A call of the broker fails: the loop ends with its cycle, and a retry is due.
UploadThrows(a) ==
  /\ worker[a].run = "upload"
  /\ LET w == Retried(Handed(worker[a])) IN
     /\ worker' = [LetIn(worker, gate) EXCEPT ![a] = [w EXCEPT !.run = "over"]]
     /\ gate' = Released(gate)

\* Mutant: a wakeup that came while the loop was ending is left for the next one.
Unfinished(w) == FALSE

\* The run's promise settles: ensureLoop once more, and drain goes on.
Renewed(w) == w.pending /\ ~Leaving(w)

Settle(a) ==
  /\ worker[a].run = "over"
  /\ LET w == [worker[a] EXCEPT !.run = "none", !.awaited = FALSE] IN
     IF Renewed(w) THEN EnsureLoop(a, w) ELSE Becomes(a, w) /\ UNCHANGED gate

-----------------------------------------------------------------------------

Init == worker = [a \in Accounts |-> Fresh] /\ gate = [active |-> 0, queue |-> <<>>]

Failures(a) ==
  NoToken(a) \/ PullFails(a) \/ UploadDefers(a) \/ UploadUnauthorized(a) \/ UploadThrows(a)

Cycle(a) == Enter(a) \/ Token(a) \/ Pulled(a) \/ Uploaded(a) \/ Settle(a)

Outside(a) ==
  \/ Edit(a) \/ Prompt(a) \/ Connection(a)
  \/ (\E forStop \in BOOLEAN : Drain(a, forStop)) \/ DrainTimesOut(a) \/ Stop(a)

Next ==
  \/ \E a \in Accounts : Start(a) \/ Notice(a) \/ TimerFires(a) \/ Cycle(a) \/ Failures(a)
  \/ \E a \in Used : Outside(a)

Spec == Init /\ [][Next]_vars

\* A cycle goes on, since every call of it has a timeout; timers fire and the
\* subscription's updates arrive; the outages of Google, the network and the
\* broker end.
Fairness ==
  /\ \A a \in Accounts :
       WF_vars(Enter(a)) /\ WF_vars(Token(a)) /\ WF_vars(Pulled(a)) /\ WF_vars(Uploaded(a))
         /\ WF_vars(Settle(a)) /\ WF_vars(Notice(a)) /\ WF_vars(TimerFires(a))
  /\ <>[][~\E a \in Accounts : Failures(a)]_vars

FairSpec == Spec /\ Fairness

-----------------------------------------------------------------------------

InCycle == {a \in Accounts : worker[a].run \in {"enter", "token", "pull", "upload"}}

\* The gate's count is the number of cycles under way, its line is exactly the
\* workers that wait, each once, and nobody waits while a slot is free
\* (BoundedSyncCycleGate).
GateCounts ==
  /\ gate.active = Cardinality(InCycle)
  /\ \A a \in Accounts : worker[a].run = "queued" <=> \E i \in DOMAIN gate.queue : gate.queue[i] = a
  /\ \A i, j \in DOMAIN gate.queue : gate.queue[i] = gate.queue[j] => i = j
  /\ gate.queue # <<>> => gate.active = Limit

\* A part of the invariant that is proved inductive: a worker whose account needs a
\* sign-in is in no cycle past its entry (authPaused, runOnce).
PausedIsQuiet == \A a \in Accounts : worker[a].paused => worker[a].run \notin {"token", "pull", "upload"}

\* A worker that has nothing to do will wake by itself, unless Google's API is
\* switched off for the project, or a drain that ran out of time has cut its last
\* cycle (scheduleRetry and schedulePeriodicPull, and each return of runOnce that
\* passes them by).
WillWake(w) ==
  w.started /\ ~Leaving(w) /\ ~w.paused /\ w.run = "none"
    => w.timer \/ w.last \in {"configuration", "cut"}

NeverAsleep == \A a \in Accounts : WillWake(worker[a])

\* Once a worker is draining or stopped, or its account needs a sign-in, it begins
\* no pull and no upload, however long its cycle had waited for the gate or the
\* token and whatever wakes it (runOnce's checks after each await).
QuietAfterLeaving ==
  [][\A a \in Accounts :
       (Leaving(worker[a]) \/ worker[a].paused) /\ worker'[a].run \in {"pull", "upload"}
         => worker'[a].run = worker[a].run]_vars

\* Once outages end an edit goes out, unless its account is being left, needs a
\* sign-in or its API, or was cut by a drain.
GoesOut(a) ==
  worker[a].edits ~> \/ ~worker[a].edits \/ ~worker[a].started
                     \/ Leaving(worker[a]) \/ worker[a].paused
                     \/ worker[a].last \in {"configuration", "cut"}

\* A wakeup is served, unless the worker is stopped, a worker that waits for the
\* gate is let in, and edits go out (ensureLoop and its finally, the gate's
\* release, the subscription and the timers together).
WakeupsServed ==
  \A a \in Accounts :
    /\ worker[a].pending ~> ~worker[a].pending \/ worker[a].stopped
    /\ worker[a].run = "queued" ~> worker[a].run = "enter"
    /\ GoesOut(a)
=============================================================================
