----------------------------- MODULE AssistantTurn -----------------------------
(***************************************************************************)
(* A turn of the calendar assistant: the coordinator that plans, reads and *)
(* finalizes, the provider's turn it waits for, the user who cancels, and  *)
(* the broker that records it all in the database.                         *)
(*                                                                         *)
(* The database survives the desktop process. A call of the broker may be  *)
(* lost, or its answer; a crash takes the coordinator and the provider's   *)
(* turn with it, and leaves the attempt to a lease of ten minutes.         *)
(***************************************************************************)
EXTENDS Naturals, FiniteSets, Sequences, SequencesExt

CONSTANTS
  MaxAttempts,   \* how many requests the user sends
  MaxCancels,    \* how many of them the user cancels
  MaxFaults,     \* how many calls of the broker fail on their way, and how often the process ends
  None

ASSUME BoundsAssumption == MaxAttempts \in Nat /\ MaxCancels \in Nat /\ MaxFaults \in Nat

Attempts == 1..MaxAttempts

ASSUME NoneAssumption ==
  None \notin Attempts /\ None \notin {"failed", "cancelled", "outcome-unknown"}

VARIABLES
  row,       \* assistantAttempts with its assistantAttemptEvents
  message,   \* the assistant's message of each attempt
  active,    \* activeMessageId of the user's state and of the thread
  action,    \* assistantActions: the proposals of each attempt
  run,       \* the coordinator's execute of each attempt
  cancel,    \* the coordinator's cancel of each attempt
  turn,      \* the provider's turn: what the attempt's lease knows of it
  holder,    \* which attempt holds the provider's host
  faults     \* calls lost and crashes, so far

vars   == <<row, message, active, action, run, cancel, turn, holder, faults>>
store  == <<row, message, active, action>>
memory == <<run, cancel, turn, holder>>

Progress == <<"persisted", "planning", "reading", "finalizing">>
Outcomes == {"completed", "clarification", "cancelled", "failed", "outcome-unknown"}
Milestones == {"requested", "sent", "acknowledged", "interrupted", "completed-before", "unknown"}

Unwritten == [state |-> "none", cancelRequested |-> FALSE, log |-> <<>>]
NoRun     == [pc |-> "idle", inPhase |-> FALSE, code |-> None]
Gone      == [NoRun EXCEPT !.pc = "over"]
NoCancel  == [pc |-> "idle", terminal |-> None]

TypeOK ==
  /\ row \in [Attempts -> [state : {"none", "deleted", "cancel-requested"} \cup Range(Progress)
                                     \cup Outcomes,
                           cancelRequested : BOOLEAN,
                           log : Seq(Milestones \cup Range(Progress)
                                       \cup {"attempt-started", "clarification", "terminal"})]]
  /\ message \in [Attempts -> {"none", "streaming", "complete", "error"}]
  /\ active \in Attempts \cup {None}
  /\ action \in [Attempts -> {"none", "pending"}]
  /\ run \in [Attempts -> [pc : {"idle", "toPlan", "acquire", "planner", "planned", "toRead", "read",
                                 "toFinal", "finalizer", "answered", "settle", "clarify", "fail",
                                 "over"},
                           inPhase : BOOLEAN,
                           code : {None, "failed", "cancelled", "outcome-unknown"}]]
  /\ cancel \in [Attempts -> [pc : {"idle", "request", "sent", "interrupting", "report", "record",
                                    "wait", "over"},
                              terminal : {None, "completed", "interrupted", "unknown"}]]
  /\ turn \in [Attempts -> {"none", "pending", "running", "completed", "interrupted", "unknown"}]
  /\ holder \in Attempts \cup {None}
  /\ faults \in 0..MaxFaults
  \* Only who runs holds the host; a turn is under way for its holder alone.
  /\ \A a \in Attempts :
       /\ holder = a => run[a].pc \notin {"idle", "over"}
       /\ turn[a] \in {"pending", "running"} => holder = a /\ run[a].pc \in {"planner", "finalizer"}

-----------------------------------------------------------------------------
(* The broker: one transaction each.                                       *)

Written(a)  == row[a].state \notin {"none", "deleted"}
Terminal(a) == row[a].state \in Outcomes

\* expectedPrior of the milestones of a cancellation.
Follows(milestone) ==
  CASE milestone = "sent"             -> {"requested"}
    [] milestone = "acknowledged"     -> {"sent"}
    [] milestone = "interrupted"      -> {"requested", "sent", "acknowledged"}
    [] milestone = "completed-before" -> {"requested", "sent", "acknowledged"}
    [] milestone = "unknown"          -> {"sent", "acknowledged"}

\* recordProgress: once it is over or cancelled the attempt stays as it is.
RecordsProgress(a, from, to) ==
  IF Terminal(a) \/ row[a].cancelRequested \/ row[a].state = to THEN UNCHANGED row
  ELSE /\ row[a].state = from
       /\ row' = [row EXCEPT ![a].state = to, ![a].log = Append(@, to)]

\* recordEvent of a milestone, refused out of order and after the end.
RecordsEvent(a, milestone) ==
  IF Written(a) /\ ~Terminal(a) /\ Last(row[a].log) \in Follows(milestone)
  THEN row' = [row EXCEPT ![a].log = Append(@, milestone)]
  ELSE UNCHANGED row

RequestsCancellation(a) ==
  IF Terminal(a) \/ row[a].cancelRequested THEN UNCHANGED row
  ELSE row' = [row EXCEPT ![a].state = "cancel-requested", ![a].cancelRequested = TRUE,
                          ![a].log = Append(@, "requested")]

\* Mutant: the user's turn is not released.
SettledUnreleased(a, outcome, events) ==
  /\ row' = [row EXCEPT ![a].state = outcome, ![a].log = @ \o events]
  /\ message' = [message EXCEPT ![a] = IF outcome \in {"completed", "clarification"} THEN "complete"
                                       ELSE "error"]
  /\ UNCHANGED active

\* The terminal event, the message, the attempt and releaseAssistantTurn.
Settled(a, outcome, events) ==
  /\ row' = [row EXCEPT ![a].state = outcome, ![a].log = @ \o events]
  /\ message' = [message EXCEPT ![a] = IF outcome \in {"completed", "clarification"} THEN "complete"
                                       ELSE "error"]
  /\ active' = IF active = a THEN None ELSE active

\* Mutant: settleFailure does not ask whether there is an outcome already.
SettleableAnyway(a) == Written(a)

\* No outcome yet, and a message that waits for one.
Settleable(a) == Written(a) /\ ~Terminal(a) /\ message[a] = "streaming"

\* Mutant: the request to cancel is left to the coordinator to notice.
MayCompleteAnyway(a) == TRUE

\* completedFinalizerMaySettleAfterCancellation.
MayComplete(a) == row[a].cancelRequested => {"finalizing", "completed-before"} \subseteq Range(row[a].log)

SettlesSuccess(a) ==
  /\ Settleable(a) /\ MayComplete(a)
  /\ Settled(a, "completed", <<"terminal">>)
  /\ \E proposals \in {"none", "pending"} : action' = [action EXCEPT ![a] = proposals]

SettlesClarification(a) ==
  /\ Settleable(a) /\ ~row[a].cancelRequested
  /\ Settled(a, "clarification", <<"clarification", "terminal">>)
  /\ UNCHANGED action

\* A cancelled attempt fails as cancelled, unless nobody knows how it ended.
SettlesFailure(a, code) ==
  /\ Settleable(a)
  /\ Settled(a, IF code # "outcome-unknown" /\ row[a].cancelRequested THEN "cancelled" ELSE code,
             <<"terminal">>)
  /\ UNCHANGED action

Persisted  == [Unwritten EXCEPT !.state = "persisted", !.log = <<"attempt-started">>]
Expired(b) == [row[b] EXCEPT !.state = "outcome-unknown", !.log = Append(@, "terminal")]

\* The rows of the new attempt; recoverExpiredAttempt of the one before when its ten minutes are over,
\* which it is refused until then.
Begins(a) ==
  /\ row' = [b \in Attempts |-> IF b = a THEN Persisted ELSE IF b = active THEN Expired(b) ELSE row[b]]
  /\ message' = [b \in Attempts |-> IF b = a THEN "streaming" ELSE IF b = active THEN "error"
                                    ELSE message[b]]
  /\ active' = a
  /\ UNCHANGED action

-----------------------------------------------------------------------------
(* Calls of the broker: answered, or lost before or after they took effect. *)

Answered == UNCHANGED faults
Lost     == faults < MaxFaults /\ faults' = faults + 1

\* currentPhaseAttemptId is set from before a phase until after its answer.
Goes(a, pc) == run' = [run EXCEPT ![a] = [@ EXCEPT !.pc = pc, !.inPhase =
                         pc \in {"acquire", "planner", "planned", "finalizer", "answered"}]]

\* releaseAttempt forgets the turn; an interrupt that is under way still sees it.
Leaves(a) == /\ run' = [run EXCEPT ![a] = Gone]
             /\ turn' = [turn EXCEPT ![a] = IF cancel[a].pc \in {"sent", "interrupting", "report"}
                                            THEN @ ELSE "none"]
             /\ holder' = IF holder = a THEN None ELSE holder

\* safeFailure: what the coordinator makes of an error.
CancelKnown(a) == cancel[a].pc # "idle" /\ cancel[a].terminal # "completed"
Fails(a, code) ==
  run' = [run EXCEPT ![a] = [@ EXCEPT !.pc = "fail",
            !.code = IF code = "failed" /\ CancelKnown(a) THEN "cancelled" ELSE code]]

\* A call that changes the attempt's row at most.
Calls(a, effect, next) ==
  \/ Written(a) /\ effect /\ Answered /\ Goes(a, next)
  \/ Written(a) /\ effect /\ Lost /\ Fails(a, "failed")
  \/ UNCHANGED row /\ Lost /\ Fails(a, "failed")
  \/ ~Written(a) /\ UNCHANGED row /\ Answered /\ Fails(a, "failed")

-----------------------------------------------------------------------------
(* send and execute.                                                       *)

Send(a) ==
  /\ row[a].state = "none" /\ (\A b \in Attempts : b < a => row[b].state # "none")
  /\ Begins(a)
  /\ \/ Answered /\ Goes(a, "toPlan")
     \/ Lost /\ UNCHANGED run
  /\ UNCHANGED <<cancel, turn, holder>>

Plan(a) ==
  /\ run[a].pc = "toPlan"
  /\ Calls(a, RecordsProgress(a, "persisted", "planning"), "acquire")
  /\ UNCHANGED <<message, active, action, cancel, turn, holder>>

\* The adapter has been told: state.cancelled.
Told(a) == cancel[a].pc \in {"sent", "interrupting", "report", "record"} \/ cancel[a].terminal # None

\* acquireAttempt and startThread, then runTurn.
Acquire(a) ==
  /\ run[a].pc = "acquire"
  /\ \/ /\ holder = None /\ ~Told(a)
        /\ holder' = a
        /\ turn' = [turn EXCEPT ![a] = "pending"]
        /\ Goes(a, "planner")
     \/ /\ Fails(a, IF Told(a) THEN "cancelled" ELSE "failed")
        /\ UNCHANGED <<holder, turn>>
  /\ UNCHANGED <<store, cancel, faults>>

TurnAcknowledged(a) ==
  /\ turn[a] = "pending"
  /\ turn' = [turn EXCEPT ![a] = "running"]
  /\ UNCHANGED <<store, run, cancel, holder, faults>>

TurnRejected(a) ==
  /\ turn[a] = "pending"
  /\ turn' = [turn EXCEPT ![a] = "none"]
  /\ Fails(a, "failed")
  /\ UNCHANGED <<store, cancel, holder, faults>>

\* The promise of runTurn settles.
TurnEnds(a, result) ==
  /\ turn' = [turn EXCEPT ![a] = result]
  /\ CASE result = "completed"   -> Goes(a, IF run[a].pc = "planner" THEN "planned" ELSE "answered")
       [] result = "interrupted" -> Fails(a, "failed")
       [] result = "unknown"     -> Fails(a, "outcome-unknown")

\* turn/completed arrives, or no answer, a deadline or the end of the provider's process.
TurnOver(a) ==
  /\ \/ turn[a] = "running" /\ \E result \in {"completed", "interrupted", "unknown"} : TurnEnds(a, result)
     \/ turn[a] = "pending" /\ TurnEnds(a, "unknown")
  /\ UNCHANGED <<store, cancel, holder, faults>>

\* throwIfCancellationWins waits for the interrupt that is under way.
Interrupting(a) == cancel[a].pc \in {"sent", "interrupting", "report"}
CancellationWins(a, completedTurnCanSettle) ==
  cancel[a].pc # "idle" /\ ~(completedTurnCanSettle /\ cancel[a].terminal = "completed")

\* Or the provider's text is no plan.
Planned(a) ==
  /\ run[a].pc = "planned" /\ ~Interrupting(a)
  /\ \/ CancellationWins(a, FALSE) /\ Fails(a, "cancelled")
     \/ ~CancellationWins(a, FALSE) /\ \E next \in {"toRead", "clarify"} : Goes(a, next)
     \/ Fails(a, "failed")
  /\ UNCHANGED <<store, cancel, turn, holder, faults>>

ToRead(a) ==
  /\ run[a].pc = "toRead"
  /\ Calls(a, RecordsProgress(a, "planning", "reading"), "read")
  /\ UNCHANGED <<message, active, action, cancel, turn, holder>>

ReadCalendar(a) ==
  /\ run[a].pc = "read" /\ ~Interrupting(a)
  /\ \/ ~Terminal(a) /\ Written(a) /\ ~CancellationWins(a, FALSE) /\ Goes(a, "toFinal")
     \/ ~Terminal(a) /\ Written(a) /\ CancellationWins(a, FALSE) /\ Fails(a, "cancelled")
     \/ Fails(a, "failed")
  /\ UNCHANGED <<store, cancel, turn, holder, faults>>

\* The finalizer's turn begins whether or not a cancellation came with the last call.
Finalize(a) ==
  /\ run[a].pc = "toFinal"
  /\ Calls(a, RecordsProgress(a, "reading", "finalizing"), "finalizer")
  /\ turn' = [turn EXCEPT ![a] = IF run'[a].pc = "finalizer" THEN "pending" ELSE @]
  /\ UNCHANGED <<message, active, action, cancel, holder>>

FinalizerAnswered(a) ==
  /\ run[a].pc = "answered" /\ ~Interrupting(a)
  /\ \/ CancellationWins(a, TRUE) /\ Fails(a, "cancelled")
     \/ ~CancellationWins(a, TRUE) /\ Goes(a, "settle")
     \/ Fails(a, "failed")
  /\ UNCHANGED <<store, cancel, turn, holder, faults>>

\* settleSuccess or settleClarification; a proposal may have become invalid.
Settle(a) ==
  /\ run[a].pc \in {"settle", "clarify"}
  /\ LET settles == IF run[a].pc = "settle" THEN SettlesSuccess(a) ELSE SettlesClarification(a)
     IN  \/ settles /\ Answered /\ Leaves(a)
         \/ settles /\ Lost /\ Fails(a, "failed") /\ UNCHANGED <<turn, holder>>
         \/ UNCHANGED <<store, faults, turn, holder>> /\ Fails(a, "failed")
  /\ UNCHANGED cancel

\* Whatever settleFailure says, the coordinator is done and the host is released.
Fail(a) ==
  /\ run[a].pc = "fail"
  /\ \/ SettlesFailure(a, run[a].code) /\ Answered
     \/ ~Settleable(a) /\ UNCHANGED store /\ Answered
     \/ UNCHANGED store /\ Lost
  /\ Leaves(a)
  /\ UNCHANGED cancel

-----------------------------------------------------------------------------
(* cancel.                                                                 *)

Running(a) == run[a].pc \notin {"idle", "over"}

MayCancel == Cardinality({a \in Attempts : row[a].cancelRequested \/ cancel[a].pc # "idle"}) < MaxCancels

Cancel(a) ==
  /\ Running(a) /\ cancel[a].pc = "idle" /\ MayCancel
  /\ cancel' = [cancel EXCEPT ![a].pc = "request"]
  /\ UNCHANGED <<store, run, turn, holder, faults>>

\* After a restart nobody runs it: the request is recorded, no more.
CancelOrphan(a) ==
  /\ Written(a) /\ ~Running(a) /\ MayCancel
  /\ RequestsCancellation(a)
  /\ UNCHANGED <<message, active, action, memory, faults>>

\* The lease's interrupt, told once the request is durable. Without a turn it answers that the turn
\* completed before; while the turn is not acknowledged nobody can know. Without a lease it fails.
Interrupt(a) ==
  CASE ~run[a].inPhase ->
         cancel' = [cancel EXCEPT ![a].pc = "wait"] /\ UNCHANGED <<run, turn>>
    [] run[a].inPhase /\ turn[a] = "running" ->
         cancel' = [cancel EXCEPT ![a].pc = "sent"] /\ UNCHANGED <<run, turn>>
    [] run[a].inPhase /\ turn[a] = "pending" ->
         /\ cancel' = [cancel EXCEPT ![a] = [pc |-> "record", terminal |-> "unknown"]]
         /\ TurnEnds(a, "unknown")
    [] run[a].inPhase /\ turn[a] \notin {"pending", "running"} ->
         \/ /\ run[a].pc = "acquire" \/ holder = a
            /\ cancel' = [cancel EXCEPT ![a] = [pc |-> "record", terminal |-> "completed"]]
            /\ UNCHANGED <<run, turn>>
         \/ /\ holder # a
            /\ cancel' = [cancel EXCEPT ![a].pc = "over"]
            /\ IF run[a].pc = "acquire" THEN Fails(a, "cancelled") ELSE UNCHANGED run
            /\ UNCHANGED turn

\* When the request itself fails the caller learns of it; the run still sees cancelRequested.
CancelRequested(a) ==
  /\ cancel[a].pc = "request"
  /\ \/ Written(a) /\ RequestsCancellation(a) /\ Answered /\ Interrupt(a)
     \/ /\ \/ Written(a) /\ RequestsCancellation(a) /\ Lost
           \/ UNCHANGED row /\ Lost
           \/ ~Written(a) /\ UNCHANGED <<row, faults>>
        /\ cancel' = [cancel EXCEPT ![a].pc = "over"]
        /\ UNCHANGED <<run, turn>>
  /\ UNCHANGED <<message, active, action, holder>>

\* A milestone is reported; when that fails the interrupt goes on.
Reports(a, milestone) ==
  \/ RecordsEvent(a, milestone) /\ Answered
  \/ UNCHANGED row /\ Lost

\* interrupt-sent, then turn/interrupt, which is acknowledged or not.
InterruptSent(a) ==
  /\ cancel[a].pc = "sent"
  /\ Reports(a, "sent")
  /\ cancel' = [cancel EXCEPT ![a].pc = "interrupting"]
  /\ UNCHANGED <<message, active, action, run, turn, holder>>

InterruptAcknowledged(a) ==
  /\ cancel[a].pc = "interrupting"
  /\ Reports(a, "acknowledged")
  /\ cancel' = [cancel EXCEPT ![a].pc = "report"]
  /\ UNCHANGED <<message, active, action, run, turn, holder>>

\* The turn ends by itself or interrupted, or the grace expires.
InterruptEnds(a) ==
  /\ cancel[a].pc = "report"
  /\ \/ /\ turn[a] \in {"completed", "interrupted"}
        /\ Reports(a, IF turn[a] = "completed" THEN "completed-before" ELSE "interrupted")
        /\ cancel' = [cancel EXCEPT ![a] = [pc |-> "wait", terminal |-> turn[a]]]
        /\ UNCHANGED <<run, turn>>
     \/ /\ turn[a] \in {"running", "unknown"}
        /\ Reports(a, "unknown")
        /\ cancel' = [cancel EXCEPT ![a] = [pc |-> "wait", terminal |-> "unknown"]]
        /\ IF turn[a] = "running" THEN TurnEnds(a, "unknown") ELSE UNCHANGED <<run, turn>>
  /\ UNCHANGED <<message, active, action, holder>>

\* No acknowledgement: the provider's process is closed.
InterruptUnanswered(a) ==
  /\ cancel[a].pc = "interrupting"
  /\ Reports(a, "unknown")
  /\ cancel' = [cancel EXCEPT ![a] = [pc |-> "wait", terminal |-> "unknown"]]
  /\ IF turn[a] = "running" THEN TurnEnds(a, "unknown") ELSE UNCHANGED <<run, turn>>
  /\ UNCHANGED <<message, active, action, holder>>

\* The milestones of an interrupt that ended at once are recorded after it.
CancelRecords(a) ==
  /\ cancel[a].pc = "record"
  /\ Reports(a, IF cancel[a].terminal = "completed" THEN "completed-before" ELSE "unknown")
  /\ cancel' = [cancel EXCEPT ![a].pc = "wait"]
  /\ UNCHANGED <<message, active, action, run, turn, holder>>

\* Mutant: cancel waits for the outcome it asked for.
CancelReturnsFirst(a) == run[a].pc = "over" /\ row[a].state = "cancelled"

\* cancel returns when the run has completed.
CancelCompleted(a) == run[a].pc = "over"

CancelOver(a) ==
  /\ cancel[a].pc = "wait" /\ CancelCompleted(a)
  /\ cancel' = [cancel EXCEPT ![a] = [NoCancel EXCEPT !.pc = "over"]]
  /\ turn' = [turn EXCEPT ![a] = "none"]
  /\ UNCHANGED <<store, run, holder, faults>>

-----------------------------------------------------------------------------
(* The user, the clock and the process.                                    *)

\* A new chat: deleteThread does nothing while a message is active.
DeleteThread ==
  /\ active = None /\ \E a \in Attempts : Written(a)
  /\ row' = [a \in Attempts |-> IF Written(a) THEN [Unwritten EXCEPT !.state = "deleted"] ELSE row[a]]
  /\ message' = [a \in Attempts |-> "none"]
  /\ action' = [a \in Attempts |-> "none"]
  /\ UNCHANGED <<active, memory, faults>>

Crash ==
  /\ Lost
  /\ run' = [a \in Attempts |-> IF Running(a) THEN Gone ELSE run[a]]
  /\ cancel' = [a \in Attempts |-> [NoCancel EXCEPT !.pc = IF cancel[a].pc = "idle" THEN "idle"
                                                           ELSE "over"]]
  /\ turn' = [a \in Attempts |-> "none"]
  /\ holder' = None
  /\ UNCHANGED store

-----------------------------------------------------------------------------
Init ==
  /\ row = [a \in Attempts |-> Unwritten] /\ message = [a \in Attempts |-> "none"]
  /\ active = None /\ action = [a \in Attempts |-> "none"]
  /\ run = [a \in Attempts |-> NoRun] /\ cancel = [a \in Attempts |-> NoCancel]
  /\ turn = [a \in Attempts |-> "none"] /\ holder = None
  /\ faults = 0

RunStep(a) == \/ Plan(a) \/ Acquire(a) \/ TurnAcknowledged(a) \/ TurnRejected(a) \/ TurnOver(a)
              \/ Planned(a) \/ ToRead(a) \/ ReadCalendar(a) \/ Finalize(a) \/ FinalizerAnswered(a)
              \/ Settle(a) \/ Fail(a)

CancelStep(a) == \/ CancelRequested(a) \/ InterruptSent(a) \/ InterruptAcknowledged(a)
                 \/ InterruptEnds(a) \/ InterruptUnanswered(a) \/ CancelRecords(a) \/ CancelOver(a)

Next == \/ \E a \in Attempts : \/ Send(a) \/ RunStep(a) \/ Cancel(a) \/ CancelOrphan(a)
                               \/ CancelStep(a)
        \/ DeleteThread \/ Crash

\* Calls and turns have deadlines, the clock goes on, and the user asks again.
Fairness == /\ \A a \in Attempts : WF_vars(RunStep(a)) /\ WF_vars(CancelStep(a))
            /\ WF_vars(\E a \in Attempts : Send(a))

Spec == Init /\ [][Next]_vars /\ Fairness

-----------------------------------------------------------------------------
(* Properties.                                                             *)

\* At most one attempt is without an outcome; it is the active one, and its message streams: the
\* user is never locked out by an attempt that ended, nor are two answers written at once.
OneTurn == \A a \in Attempts :
             /\ message[a] = "streaming" <=> Written(a) /\ ~Terminal(a)
             /\ active = a <=> Written(a) /\ ~Terminal(a)

\* What was cancelled leaves no answer and no proposal, unless the log says that the provider had
\* finished before it could be interrupted, however the calls of the two overtake each other.
CancelHolds == \A a \in Attempts :
                 Written(a) /\ row[a].cancelRequested =>
                   /\ row[a].state # "clarification"
                   /\ row[a].state = "completed" \/ action[a] # "none" =>
                        "completed-before" \in Range(row[a].log)

\* An outcome is for good, though its answer was lost and the coordinator reports a failure, or the
\* lease ran out and the coordinator comes back: neither it nor the log changes until it is deleted.
OutcomeIsFinal ==
  [][\A a \in Attempts : Terminal(a) => row'[a] = row[a] \/ row'[a].state = "deleted"]_vars

\* Every attempt gets an outcome, that of a process that died too, and every cancel returns.
EveryTurnEnds ==
  \A a \in Attempts :
    /\ a # MaxAttempts => (Written(a) ~> ~Written(a) \/ Terminal(a))
    /\ cancel[a].pc # "idle" ~> cancel[a].pc = "over"
=============================================================================
