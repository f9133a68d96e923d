-------------------------- MODULE AssistantTurnProofs --------------------------
(***************************************************************************)
(* Proofs about AssistantTurn, for any number of requests, cancels and     *)
(* faults.  What the process knows and what the database holds are         *)
(* separate: the first half is about the run, the interrupt and the turn,  *)
(* the second about the attempts in the database.                          *)
(***************************************************************************)
EXTENDS AssistantTurn, TLAPS

Logs ==
  Milestones \cup Range(Progress) \cup {"attempt-started", "clarification", "terminal"}

Row ==
  [state : {"none", "deleted", "cancel-requested"} \cup Range(Progress) \cup Outcomes,
   cancelRequested : BOOLEAN, log : Seq(Logs)]

RunPc == {"idle", "toPlan", "acquire", "planner", "planned", "toRead", "read", "toFinal",
          "finalizer", "answered", "settle", "clarify", "fail", "over"}

Run ==
  [pc : RunPc,
   inPhase : BOOLEAN,
   code : {None, "failed", "cancelled", "outcome-unknown"}]

CancelRecord ==
  [pc : {"idle", "request", "sent", "interrupting", "report", "record", "wait", "over"},
   terminal : {None, "completed", "interrupted", "unknown"}]

Turn == {"none", "pending", "running", "completed", "interrupted", "unknown"}

\* A run that has acquired the host keeps it until it is over.
Holding == {"planner", "planned", "toRead", "read", "toFinal", "finalizer", "answered",
            "settle", "clarify"}

\* The host, the run and the turn of one attempt; nothing runs for one that was not sent.
Fits(a) ==
  /\ holder = a => run[a].pc \notin {"idle", "over"}
  /\ run[a].pc \in Holding => holder = a
  /\ turn[a] \in {"pending", "running"} => run[a].pc \in {"planner", "finalizer"}
  /\ run[a].pc = "fail" => run[a].code # None
  /\ run[a].pc # "idle" => row[a].state # "none"

MemoryInv ==
  /\ run \in [Attempts -> Run]
  /\ cancel \in [Attempts -> CancelRecord]
  /\ turn \in [Attempts -> Turn]
  /\ holder \in Attempts \cup {None}
  /\ \A a \in Attempts : Fits(a)

-----------------------------------------------------------------------------
(* What a step does to the run, the interrupt and the turn of one attempt. *)

RunMoves(a) ==
  /\ run' \in [Attempts -> Run]
  /\ \A b \in Attempts \ {a} : run'[b] = run[b]

TurnMoves(a) ==
  /\ turn' \in [Attempts -> Turn]
  /\ \A b \in Attempts \ {a} : turn'[b] = turn[b]

HostMoves(a) ==
  /\ holder' \in Attempts \cup {None}
  /\ \A b \in Attempts \ {a} : holder' = b <=> holder = b

\* An attempt that was sent stays sent.
Lives == \A a \in Attempts : row[a].state # "none" => row'[a].state # "none"

LEMMA MemoryMove ==
  ASSUME MemoryInv, Lives, NEW a \in Attempts, RunMoves(a), TurnMoves(a), HostMoves(a),
         cancel' \in [Attempts -> CancelRecord], Fits(a)'
  PROVE  MemoryInv'
<1>1. ASSUME NEW b \in Attempts PROVE Fits(b)'
  <2>1. CASE b = a
    BY <2>1
  <2>2. CASE b # a
    BY <2>2 DEF MemoryInv, RunMoves, TurnMoves, HostMoves, Fits, Lives
  <2> QED
    BY <2>1, <2>2
<1> QED
  BY <1>1 DEF MemoryInv, RunMoves, TurnMoves, HostMoves

LEMMA GoesMove ==
  ASSUME MemoryInv, NEW a \in Attempts, NEW pc \in RunPc, Goes(a, pc)
  PROVE  RunMoves(a) /\ run'[a].pc = pc
<1> DEFINE inPhase == pc \in {"acquire", "planner", "planned", "finalizer", "answered"}
<1> DEFINE r == [run[a] EXCEPT !.pc = pc, !.inPhase = inPhase]
<1>1. run[a] \in Run /\ inPhase \in BOOLEAN
  BY DEF MemoryInv
<1>2. run' = [run EXCEPT ![a] = r]
  BY DEF Goes
<1> HIDE DEF inPhase
<1>3. r \in Run /\ r.pc = pc
  BY <1>1 DEF Run
<1> HIDE DEF r
<1> QED
  BY <1>2, <1>3 DEF RunMoves, MemoryInv

LEMMA FailsMove ==
  ASSUME MemoryInv, NEW a \in Attempts, NEW code \in {"failed", "cancelled", "outcome-unknown"},
         Fails(a, code)
  PROVE  RunMoves(a) /\ run'[a].pc = "fail" /\ run'[a].code # None
<1> DEFINE as == IF code = "failed" /\ CancelKnown(a) THEN "cancelled" ELSE code
<1> DEFINE r == [run[a] EXCEPT !.pc = "fail", !.code = as]
<1>1. run[a] \in Run /\ as \in {"failed", "cancelled", "outcome-unknown"}
  BY DEF MemoryInv
<1>2. run' = [run EXCEPT ![a] = r]
  BY DEF Fails
<1> HIDE DEF as
<1>3. r \in Run /\ r.pc = "fail" /\ r.code = as
  BY <1>1 DEF Run, RunPc
<1>4. as # None
  BY <1>1, NoneAssumption
<1> HIDE DEF r
<1> QED
  BY <1>2, <1>3, <1>4 DEF RunMoves, MemoryInv

\* A call moves the run on or fails.
LEMMA CallsMove ==
  ASSUME MemoryInv, NEW a \in Attempts, NEW effect, NEW next \in RunPc, Calls(a, effect, next)
  PROVE  RunMoves(a) /\ (run'[a].pc = next \/ (run'[a].pc = "fail" /\ run'[a].code # None))
<1>1. Goes(a, next) \/ Fails(a, "failed")
  BY DEF Calls
<1>2. Goes(a, next) => RunMoves(a) /\ run'[a].pc = next
  BY GoesMove
<1>3. Fails(a, "failed") => RunMoves(a) /\ run'[a].pc = "fail" /\ run'[a].code # None
  BY FailsMove
<1> QED
  BY <1>1, <1>2, <1>3

\* The run moves alone.
LEMMA OnlyRun ==
  ASSUME MemoryInv, Lives, NEW a \in Attempts, RunMoves(a), UNCHANGED <<cancel, turn, holder>>, Fits(a)'
  PROVE  MemoryInv'
<1>1. TurnMoves(a) /\ HostMoves(a) /\ cancel' \in [Attempts -> CancelRecord]
  BY DEF TurnMoves, HostMoves, MemoryInv
<1> QED
  BY <1>1, MemoryMove

\* The interrupt moves alone.
LEMMA OnlyCancel ==
  ASSUME MemoryInv, Lives, NEW a \in Attempts, NEW c \in CancelRecord, cancel' = [cancel EXCEPT ![a] = c],
         UNCHANGED <<run, turn, holder>>
  PROVE  MemoryInv'
  BY DEF MemoryInv, Fits, Lives

\* A step that goes on, or fails as cancelled or failed.
LEMMA GoesOrFails ==
  ASSUME MemoryInv, NEW a \in Attempts, NEW next \in RunPc,
         Goes(a, next) \/ Fails(a, "cancelled") \/ Fails(a, "failed")
  PROVE  RunMoves(a) /\ (run'[a].pc = next \/ (run'[a].pc = "fail" /\ run'[a].code # None))
<1>1. Goes(a, next) => RunMoves(a) /\ run'[a].pc = next
  BY GoesMove
<1>2. Fails(a, "cancelled") => RunMoves(a) /\ run'[a].pc = "fail" /\ run'[a].code # None
  BY FailsMove
<1>3. Fails(a, "failed") => RunMoves(a) /\ run'[a].pc = "fail" /\ run'[a].code # None
  BY FailsMove
<1> QED
  BY <1>1, <1>2, <1>3

LEMMA LeavesMove ==
  ASSUME MemoryInv, Lives, NEW a \in Attempts, Leaves(a), UNCHANGED cancel,
         turn[a] \notin {"pending", "running"}, run[a].pc # "idle"
  PROVE  MemoryInv'
<1> DEFINE t == IF cancel[a].pc \in {"sent", "interrupting", "report"} THEN turn[a] ELSE "none"
<1>1. Gone \in Run /\ Gone.pc = "over" /\ t \in Turn /\ t \notin {"pending", "running"}
  BY DEF MemoryInv, Gone, NoRun, Run, RunPc, Turn
<1>2. run' = [run EXCEPT ![a] = Gone] /\ turn' = [turn EXCEPT ![a] = t]
  BY DEF Leaves
<1> HIDE DEF t
<1>3. RunMoves(a) /\ TurnMoves(a) /\ run'[a] = Gone /\ turn'[a] = t
  BY <1>1, <1>2 DEF MemoryInv, RunMoves, TurnMoves
<1>4. HostMoves(a) /\ holder' # a
  BY NoneAssumption DEF Leaves, MemoryInv, HostMoves
<1>5. Fits(a)'
  <2>1. row'[a].state # "none"
    BY DEF MemoryInv, Fits, Lives
  <2> QED
    BY <1>1, <1>3, <1>4, <2>1 DEF Fits, Holding
<1> QED
  BY <1>3, <1>4, <1>5, MemoryMove DEF MemoryInv

\* The turn under way ends, and the run with it moves on or fails.
LEMMA EndsMove ==
  ASSUME MemoryInv, Lives, NEW a \in Attempts, NEW result \in {"completed", "interrupted", "unknown"},
         turn[a] \in {"pending", "running"}, TurnEnds(a, result),
         cancel' \in [Attempts -> CancelRecord], UNCHANGED holder
  PROVE  MemoryInv'
<1>1. turn[a] \in Turn /\ result \in Turn /\ turn' = [turn EXCEPT ![a] = result]
  BY DEF Turn, TurnEnds, MemoryInv
<1>2. TurnMoves(a) /\ turn'[a] = result
  BY <1>1 DEF TurnMoves, MemoryInv
<1>3. holder = a /\ run[a].pc \in {"planner", "finalizer"} /\ HostMoves(a)
  BY DEF Fits, Lives, Holding, HostMoves, MemoryInv
<1>4. RunMoves(a) /\ (run'[a].pc \in {"planned", "answered"} \/ (run'[a].pc = "fail" /\ run'[a].code # None))
  <2>1. CASE result = "completed"
    <3>1. PICK pc \in {"planned", "answered"} : Goes(a, pc)
      BY <2>1 DEF TurnEnds
    <3>2. pc \in RunPc
      BY DEF RunPc
    <3> QED
      BY <3>1, <3>2, GoesMove
  <2>2. CASE result # "completed"
    <3>1. Fails(a, "failed") \/ Fails(a, "outcome-unknown")
      BY <2>2 DEF TurnEnds
    <3> QED
      BY <3>1, FailsMove
  <2> QED
    BY <2>1, <2>2
<1>5. Fits(a)'
  <2>1. row'[a].state # "none"
    BY <1>3 DEF MemoryInv, Fits, Lives
  <2> QED
    BY <1>2, <1>3, <1>4, <2>1 DEF Fits, Holding
<1> QED
  BY <1>2, <1>3, <1>4, <1>5, MemoryMove

-----------------------------------------------------------------------------
(* The run.                                                                *)

LEMMA RunMemory ==
  ASSUME MemoryInv, Lives, NEW a \in Attempts,
         (Send(a) /\ row'[a].state # "none") \/ RunStep(a)
  PROVE  MemoryInv'
<1>0. Fits(a) /\ cancel \in [Attempts -> CancelRecord] /\ holder \in Attempts \cup {None}
  BY DEF MemoryInv
<1>1. CASE Send(a) /\ row'[a].state # "none"
  <2>1. run[a].pc = "idle" /\ UNCHANGED <<cancel, turn, holder>>
    BY <1>0, <1>1 DEF Send, Fits, Lives
  <2>2. CASE UNCHANGED run
    BY <2>1, <2>2 DEF MemoryInv, Fits, Lives
  <2>3. CASE Goes(a, "toPlan")
    <3>1. RunMoves(a) /\ run'[a].pc = "toPlan"
      BY <2>3, GoesMove DEF RunPc
    <3>2. Fits(a)'
      BY <1>0, <1>1, <2>1, <3>1 DEF Fits, Holding
    <3> QED
      BY <2>1, <3>1, <3>2, OnlyRun
  <2> QED
    BY <1>1, <2>2, <2>3 DEF Send
<1>2. CASE Plan(a)
  <2>1. run[a].pc = "toPlan" /\ UNCHANGED <<cancel, turn, holder>>
    BY <1>2 DEF Plan
  <2>2. RunMoves(a) /\ (run'[a].pc = "acquire" \/ (run'[a].pc = "fail" /\ run'[a].code # None))
    BY <1>2, CallsMove DEF Plan, RunPc
  <2>3. Fits(a)'
    BY <1>0, <2>1, <2>2 DEF Fits, Lives, Holding
  <2> QED
    BY <2>1, <2>2, <2>3, OnlyRun
<1>3. CASE Acquire(a)
  <2>0. run[a].pc = "acquire" /\ UNCHANGED cancel
    BY <1>3 DEF Acquire
  <2>1. CASE holder = None /\ holder' = a /\ turn' = [turn EXCEPT ![a] = "pending"] /\ Goes(a, "planner")
    <3>1. RunMoves(a) /\ run'[a].pc = "planner"
      BY <2>1, GoesMove DEF RunPc
    <3>2. TurnMoves(a) /\ HostMoves(a)
      BY <2>1, NoneAssumption DEF TurnMoves, HostMoves, Turn, MemoryInv
    <3>3. Fits(a)'
      BY <1>0, <2>0, <2>1, <3>1 DEF Fits, Lives
    <3> QED
      BY <1>0, <2>0, <3>1, <3>2, <3>3, MemoryMove
  <2>2. CASE Fails(a, IF Told(a) THEN "cancelled" ELSE "failed") /\ UNCHANGED <<holder, turn>>
    <3>1. Fails(a, "cancelled") \/ Fails(a, "failed")
      BY <2>2
    <3>2. RunMoves(a) /\ run'[a].pc = "fail" /\ run'[a].code # None
      BY <3>1, FailsMove
    <3>3. Fits(a)'
      BY <1>0, <2>0, <2>2, <3>2 DEF Fits, Lives, Holding
    <3> QED
      BY <2>0, <2>2, <3>2, <3>3, OnlyRun
  <2> QED
    BY <1>3, <2>1, <2>2 DEF Acquire
<1>4. CASE TurnAcknowledged(a)
  <2>1. turn[a] = "pending" /\ turn' = [turn EXCEPT ![a] = "running"] /\ UNCHANGED <<run, cancel, holder>>
    BY <1>4 DEF TurnAcknowledged
  <2>2. "running" \in Turn
    BY DEF Turn
  <2> QED
    BY <2>1, <2>2 DEF MemoryInv, Fits, Lives
<1>5. CASE TurnRejected(a)
  <2>1. turn' = [turn EXCEPT ![a] = "none"] /\ UNCHANGED <<cancel, holder>> /\ turn[a] = "pending"
    BY <1>5 DEF TurnRejected
  <2>2. RunMoves(a) /\ run'[a].pc = "fail" /\ run'[a].code # None
    BY <1>5, FailsMove DEF TurnRejected
  <2>3. TurnMoves(a) /\ turn'[a] = "none" /\ HostMoves(a)
    BY <1>0, <2>1 DEF TurnMoves, HostMoves, Turn, MemoryInv
  <2>4. Fits(a)'
    BY <1>0, <2>1, <2>2, <2>3 DEF Fits, Lives, Holding
  <2> QED
    BY <1>0, <2>1, <2>2, <2>3, <2>4, MemoryMove
<1>6. CASE TurnOver(a)
  <2>1. PICK result \in {"completed", "interrupted", "unknown"} :
          turn[a] \in {"pending", "running"} /\ TurnEnds(a, result)
    BY <1>6 DEF TurnOver
  <2>2. UNCHANGED <<cancel, holder>>
    BY <1>6 DEF TurnOver
  <2> QED
    BY <1>0, <2>1, <2>2, EndsMove
<1>7. CASE Planned(a)
  <2>1. run[a].pc = "planned" /\ UNCHANGED <<cancel, turn, holder>>
    BY <1>7 DEF Planned
  <2>2. \/ Goes(a, "toRead") \/ Fails(a, "cancelled") \/ Fails(a, "failed")
        \/ Goes(a, "clarify")
    BY <1>7 DEF Planned
  <2>3. RunMoves(a) /\ (run'[a].pc \in {"toRead", "clarify"} \/ (run'[a].pc = "fail" /\ run'[a].code # None))
    BY <2>2, GoesOrFails DEF RunPc
  <2>4. Fits(a)'
    BY <1>0, <2>1, <2>3 DEF Fits, Lives, Holding
  <2> QED
    BY <2>1, <2>3, <2>4, OnlyRun
<1>8. CASE ToRead(a)
  <2>1. run[a].pc = "toRead" /\ UNCHANGED <<cancel, turn, holder>>
    BY <1>8 DEF ToRead
  <2>2. RunMoves(a) /\ (run'[a].pc = "read" \/ (run'[a].pc = "fail" /\ run'[a].code # None))
    BY <1>8, CallsMove DEF ToRead, RunPc
  <2>3. Fits(a)'
    BY <1>0, <2>1, <2>2 DEF Fits, Lives, Holding
  <2> QED
    BY <2>1, <2>2, <2>3, OnlyRun
<1>9. CASE ReadCalendar(a)
  <2>1. run[a].pc = "read" /\ UNCHANGED <<cancel, turn, holder>>
    BY <1>9 DEF ReadCalendar
  <2>2. Goes(a, "toFinal") \/ Fails(a, "cancelled") \/ Fails(a, "failed")
    BY <1>9 DEF ReadCalendar
  <2>3. RunMoves(a) /\ (run'[a].pc = "toFinal" \/ (run'[a].pc = "fail" /\ run'[a].code # None))
    BY <2>2, GoesOrFails DEF RunPc
  <2>4. Fits(a)'
    BY <1>0, <2>1, <2>3 DEF Fits, Lives, Holding
  <2> QED
    BY <2>1, <2>3, <2>4, OnlyRun
<1>10. CASE Finalize(a)
  <2>1. run[a].pc = "toFinal" /\ UNCHANGED <<cancel, holder>>
        /\ turn' = [turn EXCEPT ![a] = IF run'[a].pc = "finalizer" THEN "pending" ELSE @]
    BY <1>10 DEF Finalize
  <2>2. RunMoves(a) /\ (run'[a].pc = "finalizer" \/ (run'[a].pc = "fail" /\ run'[a].code # None))
    BY <1>10, CallsMove DEF Finalize, RunPc
  <2>3. TurnMoves(a) /\ HostMoves(a) /\ turn'[a] = IF run'[a].pc = "finalizer" THEN "pending" ELSE turn[a]
    BY <1>0, <2>1 DEF TurnMoves, HostMoves, Turn, MemoryInv
  <2>4. Fits(a)'
    BY <1>0, <2>1, <2>2, <2>3 DEF Fits, Lives, Holding
  <2> QED
    BY <1>0, <2>1, <2>2, <2>3, <2>4, MemoryMove
<1>11. CASE FinalizerAnswered(a)
  <2>1. run[a].pc = "answered" /\ UNCHANGED <<cancel, turn, holder>>
    BY <1>11 DEF FinalizerAnswered
  <2>2. Goes(a, "settle") \/ Fails(a, "cancelled") \/ Fails(a, "failed")
    BY <1>11 DEF FinalizerAnswered
  <2>3. RunMoves(a) /\ (run'[a].pc = "settle" \/ (run'[a].pc = "fail" /\ run'[a].code # None))
    BY <2>2, GoesOrFails DEF RunPc
  <2>4. Fits(a)'
    BY <1>0, <2>1, <2>3 DEF Fits, Lives, Holding
  <2> QED
    BY <2>1, <2>3, <2>4, OnlyRun
<1>12. CASE Settle(a)
  <2> DEFINE settles == IF run[a].pc = "settle" THEN SettlesSuccess(a) ELSE SettlesClarification(a)
  <2>a. /\ run[a].pc \in {"settle", "clarify"} /\ UNCHANGED cancel
        /\ \/ settles /\ Answered /\ Leaves(a)
           \/ settles /\ Lost /\ Fails(a, "failed") /\ UNCHANGED <<turn, holder>>
           \/ UNCHANGED <<store, faults, turn, holder>> /\ Fails(a, "failed")
    BY <1>12 DEF Settle
  <2> HIDE DEF settles
  <2>0. /\ run[a].pc \in {"settle", "clarify"} /\ UNCHANGED cancel
        /\ Leaves(a) \/ (Fails(a, "failed") /\ UNCHANGED <<turn, holder>>)
    BY <2>a
  <2>1. CASE Leaves(a)
    BY <1>0, <2>0, <2>1, LeavesMove DEF Fits, Lives
  <2>2. CASE Fails(a, "failed") /\ UNCHANGED <<turn, holder>>
    <3>1. RunMoves(a) /\ run'[a].pc = "fail" /\ run'[a].code # None
      BY <2>2, FailsMove
    <3>2. Fits(a)'
      BY <1>0, <2>0, <2>2, <3>1 DEF Fits, Lives, Holding
    <3> QED
      BY <2>0, <2>2, <3>1, <3>2, OnlyRun
  <2> QED
    BY <2>0, <2>1, <2>2
<1>13. CASE Fail(a)
  <2>1. run[a].pc = "fail" /\ UNCHANGED cancel /\ Leaves(a)
    BY <1>13 DEF Fail
  <2> QED
    BY <1>0, <2>1, LeavesMove DEF Fits, Lives
<1> QED
  BY <1>1, <1>2, <1>3, <1>4, <1>5, <1>6, <1>7, <1>8, <1>9, <1>10, <1>11, <1>12, <1>13 DEF RunStep

-----------------------------------------------------------------------------
(* The interrupt.                                                          *)

LEMMA CancelMemory ==
  ASSUME MemoryInv, Lives, NEW a \in Attempts, Cancel(a) \/ CancelOrphan(a) \/ CancelStep(a)
  PROVE  MemoryInv'
<1>0. Fits(a) /\ run[a] \in Run /\ cancel[a] \in CancelRecord /\ turn[a] \in Turn
  BY DEF MemoryInv
<1>1. /\ \A pc \in {"idle", "request", "sent", "interrupting", "report", "record", "wait", "over"} :
           /\ [cancel[a] EXCEPT !.pc = pc] \in CancelRecord
           /\ \A x \in {None, "completed", "interrupted", "unknown"} :
                [pc |-> pc, terminal |-> x] \in CancelRecord
      /\ [NoCancel EXCEPT !.pc = "over"] \in CancelRecord
  BY <1>0 DEF CancelRecord, NoCancel
\* Only the interrupt's own state changes.
<1>2. ASSUME UNCHANGED <<run, turn, holder>>,
             NEW pc \in {"request", "sent", "interrupting", "wait", "over"},
             cancel' = [cancel EXCEPT ![a].pc = pc]
      PROVE  MemoryInv'
  <2>1. cancel' = [cancel EXCEPT ![a] = [cancel[a] EXCEPT !.pc = pc]]
    BY <1>2
  <2>2. [cancel[a] EXCEPT !.pc = pc] \in CancelRecord
    BY <1>1
  <2> QED
    BY <1>2, <2>1, <2>2, OnlyCancel
<1>3. ASSUME UNCHANGED <<run, turn, holder>>, NEW pc \in {"record", "wait"},
             NEW x \in {"completed", "interrupted", "unknown"},
             cancel' = [cancel EXCEPT ![a] = [pc |-> pc, terminal |-> x]]
      PROVE  MemoryInv'
  <2>1. [pc |-> pc, terminal |-> x] \in CancelRecord
    BY <1>1
  <2> QED
    BY <1>3, <2>1, OnlyCancel
\* It ends the turn that is under way.
<1>4. ASSUME UNCHANGED holder, NEW pc \in {"record", "wait"},
             cancel' = [cancel EXCEPT ![a] = [pc |-> pc, terminal |-> "unknown"]],
             turn[a] \in {"pending", "running"}, TurnEnds(a, "unknown")
      PROVE  MemoryInv'
  <2>1. [pc |-> pc, terminal |-> "unknown"] \in CancelRecord
    BY <1>1
  <2>2. cancel' \in [Attempts -> CancelRecord]
    BY <1>4, <2>1 DEF MemoryInv
  <2> QED
    BY <1>4, <2>2, EndsMove
<1>5. CASE Cancel(a)
  <2>1. cancel' = [cancel EXCEPT ![a].pc = "request"] /\ UNCHANGED <<run, turn, holder>>
    BY <1>5 DEF Cancel
  <2> QED
    BY <1>2, <2>1
<1>6. CASE CancelOrphan(a)
  BY <1>6 DEF CancelOrphan, memory, MemoryInv, Fits, Lives
<1>7. CASE CancelRequested(a)
  <2>1. UNCHANGED holder
    BY <1>7 DEF CancelRequested
  <2>2. CASE cancel' = [cancel EXCEPT ![a].pc = "over"] /\ UNCHANGED <<run, turn>>
    BY <1>2, <2>1, <2>2
  <2>3. CASE Interrupt(a)
    <3>1. CASE ~run[a].inPhase
      BY <1>2, <2>1, <2>3, <3>1 DEF Interrupt
    <3>2. CASE run[a].inPhase /\ turn[a] = "running"
      BY <1>2, <2>1, <2>3, <3>2 DEF Interrupt
    <3>3. CASE run[a].inPhase /\ turn[a] = "pending"
      <4>1. /\ cancel' = [cancel EXCEPT ![a] = [pc |-> "record", terminal |-> "unknown"]]
            /\ TurnEnds(a, "unknown")
        BY <2>3, <3>3 DEF Interrupt
      <4> QED
        BY <1>4, <2>1, <3>3, <4>1
    <3>4. CASE run[a].inPhase /\ turn[a] \notin {"pending", "running"}
      <4>1. \/ /\ cancel' = [cancel EXCEPT ![a] = [pc |-> "record", terminal |-> "completed"]]
               /\ UNCHANGED <<run, turn>>
            \/ cancel' = [cancel EXCEPT ![a].pc = "over"] /\ UNCHANGED <<run, turn>>
            \/ /\ run[a].pc = "acquire" /\ Fails(a, "cancelled")
               /\ cancel' = [cancel EXCEPT ![a].pc = "over"] /\ UNCHANGED turn
        BY <2>3, <3>4 DEF Interrupt
      <4>2. CASE /\ cancel' = [cancel EXCEPT ![a] = [pc |-> "record", terminal |-> "completed"]]
                 /\ UNCHANGED <<run, turn>>
        BY <1>3, <2>1, <4>2
      <4>3. CASE /\ run[a].pc = "acquire" /\ Fails(a, "cancelled")
                 /\ cancel' = [cancel EXCEPT ![a].pc = "over"] /\ UNCHANGED turn
        <5>1. RunMoves(a) /\ run'[a].pc = "fail" /\ run'[a].code # None
          BY <4>3, FailsMove
        <5>2. TurnMoves(a) /\ HostMoves(a)
          BY <2>1, <4>3 DEF TurnMoves, HostMoves, MemoryInv
        <5>3. Fits(a)'
          BY <1>0, <2>1, <4>3, <5>1 DEF Fits, Lives, Holding
        <5>4. cancel' = [cancel EXCEPT ![a] = [cancel[a] EXCEPT !.pc = "over"]]
          BY <4>3
        <5>5. cancel' \in [Attempts -> CancelRecord]
          BY <1>1, <5>4 DEF MemoryInv
        <5> QED
          BY <5>1, <5>2, <5>3, <5>5, MemoryMove
      <4> QED
        BY <2>2, <4>1, <4>2, <4>3
    <3> QED
      BY <3>1, <3>2, <3>3, <3>4 DEF Interrupt
  <2> QED
    BY <1>7, <2>2, <2>3 DEF CancelRequested
<1>8. CASE InterruptSent(a)
  <2>1. cancel' = [cancel EXCEPT ![a].pc = "interrupting"] /\ UNCHANGED <<run, turn, holder>>
    BY <1>8 DEF InterruptSent
  <2> QED
    BY <1>2, <2>1
<1>9. CASE InterruptAcknowledged(a)
  <2>1. cancel' = [cancel EXCEPT ![a].pc = "report"] /\ UNCHANGED <<run, turn, holder>>
    BY <1>9 DEF InterruptAcknowledged
  <2>2. cancel' = [cancel EXCEPT ![a] = [cancel[a] EXCEPT !.pc = "report"]]
    BY <2>1
  <2> QED
    BY <1>1, <2>1, <2>2, OnlyCancel
<1>10. CASE InterruptEnds(a)
  <2>1. UNCHANGED holder
    BY <1>10 DEF InterruptEnds
  <2>2. CASE /\ turn[a] \in {"completed", "interrupted"} /\ UNCHANGED <<run, turn>>
             /\ cancel' = [cancel EXCEPT ![a] = [pc |-> "wait", terminal |-> turn[a]]]
    BY <1>3, <2>1, <2>2
  <2>3. CASE /\ cancel' = [cancel EXCEPT ![a] = [pc |-> "wait", terminal |-> "unknown"]]
             /\ IF turn[a] = "running" THEN TurnEnds(a, "unknown") ELSE UNCHANGED <<run, turn>>
    <3>1. CASE turn[a] = "running"
      BY <1>4, <2>1, <2>3, <3>1
    <3>2. CASE turn[a] # "running"
      BY <1>3, <2>1, <2>3, <3>2
    <3> QED
      BY <3>1, <3>2
  <2> QED
    BY <1>10, <2>2, <2>3 DEF InterruptEnds
<1>11. CASE InterruptUnanswered(a)
  <2>1. /\ cancel' = [cancel EXCEPT ![a] = [pc |-> "wait", terminal |-> "unknown"]]
        /\ IF turn[a] = "running" THEN TurnEnds(a, "unknown") ELSE UNCHANGED <<run, turn>>
        /\ UNCHANGED holder
    BY <1>11 DEF InterruptUnanswered
  <2>2. CASE turn[a] = "running"
    BY <1>4, <2>1, <2>2
  <2>3. CASE turn[a] # "running"
    BY <1>3, <2>1, <2>3
  <2> QED
    BY <2>2, <2>3
<1>12. CASE CancelRecords(a)
  <2>1. cancel' = [cancel EXCEPT ![a].pc = "wait"] /\ UNCHANGED <<run, turn, holder>>
    BY <1>12 DEF CancelRecords
  <2> QED
    BY <1>2, <2>1
<1>13. CASE CancelOver(a)
  <2>1. /\ cancel' = [cancel EXCEPT ![a] = [NoCancel EXCEPT !.pc = "over"]]
        /\ turn' = [turn EXCEPT ![a] = "none"] /\ UNCHANGED <<run, holder>>
    BY <1>13 DEF CancelOver
  <2>2. cancel' \in [Attempts -> CancelRecord]
    BY <1>1, <2>1 DEF MemoryInv
  <2>3. RunMoves(a) /\ TurnMoves(a) /\ HostMoves(a) /\ Fits(a)'
    BY <1>0, <2>1 DEF RunMoves, TurnMoves, HostMoves, Fits, Lives, Turn, MemoryInv
  <2> QED
    BY <2>2, <2>3, MemoryMove
<1> QED
  BY <1>5, <1>6, <1>7, <1>8, <1>9, <1>10, <1>11, <1>12, <1>13 DEF CancelStep

LEMMA CrashMemory ==
  ASSUME MemoryInv, Lives, Crash
  PROVE  MemoryInv'
<1>1. Gone \in Run /\ Gone.pc = "over" /\ "none" \in Turn
  BY DEF Gone, NoRun, Run, RunPc, Turn
<1>2. \A pc \in {"idle", "over"} : [NoCancel EXCEPT !.pc = pc] \in CancelRecord
  BY DEF NoCancel, CancelRecord
<1>3. cancel' \in [Attempts -> CancelRecord]
  BY <1>2 DEF Crash
<1>4. run' \in [Attempts -> Run] /\ turn' \in [Attempts -> Turn] /\ holder' = None
  BY <1>1 DEF Crash, MemoryInv
<1>5. ASSUME NEW a \in Attempts PROVE Fits(a)'
  <2>1. turn'[a] = "none" /\ holder' # a /\ run'[a] = IF Running(a) THEN Gone ELSE run[a]
    BY NoneAssumption DEF Crash
  <2> QED
    BY <1>1, <2>1 DEF MemoryInv, Running, Fits, Lives, Holding
<1> QED
  BY <1>3, <1>4, <1>5 DEF MemoryInv

-----------------------------------------------------------------------------
(* The attempts in the database.                                           *)

Open(a) == Written(a) /\ ~Terminal(a)

LEMMA ProgressRange == Range(Progress) = {"persisted", "planning", "reading", "finalizing"}
  BY DEF Range, Progress

\* What OneTurn and CancelHolds say of one attempt; a proposal comes with an answer alone.
Kept(a) ==
  /\ message[a] = "streaming" <=> Open(a)
  /\ active = a <=> Open(a)
  /\ Written(a) /\ row[a].cancelRequested =>
       /\ row[a].state # "clarification"
       /\ row[a].state = "completed" => "completed-before" \in Range(row[a].log)
  /\ action[a] # "none" => row[a].state = "completed"

StoreInv ==
  /\ row \in [Attempts -> Row]
  /\ message \in [Attempts -> {"none", "streaming", "complete", "error"}]
  /\ active \in Attempts \cup {None}
  /\ action \in [Attempts -> {"none", "pending"}]
  /\ \A a \in Attempts : Kept(a)

\* OutcomeIsFinal of one step.
Final == \A a \in Attempts : Terminal(a) => row'[a] = row[a] \/ row'[a].state = "deleted"

StoreStep == StoreInv' /\ Final /\ Lives

\* The broker moves the attempt on: it was open and it stays open.
Advances(a) ==
  \/ UNCHANGED row
  \/ \E r \in Row : /\ row' = [row EXCEPT ![a] = r]
                     /\ Open(a) /\ r.state \notin {"none", "deleted"} \cup Outcomes

LEMMA Logged ==
  ASSUME NEW log \in Seq(Logs), NEW e \in Logs
  PROVE  Append(log, e) \in Seq(Logs)
  OBVIOUS

LEMMA LoggedTwo ==
  ASSUME NEW log \in Seq(Logs), NEW more \in Seq(Logs)
  PROVE  log \o more \in Seq(Logs) /\ Range(log) \subseteq Range(log \o more)
<1>1. log \o more \in Seq(Logs)
  OBVIOUS
<1>2. ASSUME NEW i \in DOMAIN log PROVE i \in DOMAIN (log \o more) /\ (log \o more)[i] = log[i]
  OBVIOUS
<1> QED
  BY <1>1, <1>2 DEF Range

LEMMA ProgressAdvances ==
  ASSUME StoreInv, NEW a \in Attempts, Written(a), NEW from, NEW to \in Range(Progress),
         RecordsProgress(a, from, to)
  PROVE  Advances(a)
<1>1. CASE UNCHANGED row
  BY <1>1 DEF Advances
<1>2. CASE ~Terminal(a) /\ row' = [row EXCEPT ![a].state = to, ![a].log = Append(@, to)]
  <2> DEFINE r == [row[a] EXCEPT !.state = to, !.log = Append(row[a].log, to)]
  <2>1. row[a] \in Row /\ to \in Logs
    BY DEF StoreInv, Logs
  <2>2. Append(row[a].log, to) \in Seq(Logs)
    BY <2>1, Logged DEF Row
  <2>3. row' = [row EXCEPT ![a] = r]
    BY <1>2, <2>1 DEF StoreInv
  <2>4. r \in Row /\ r.state = to
    BY <2>1, <2>2 DEF Row
  <2>5. to \notin {"none", "deleted"} \cup Outcomes
    BY ProgressRange DEF Outcomes
  <2> HIDE DEF r
  <2> QED
    BY <1>2, <2>3, <2>4, <2>5 DEF Advances, Open
<1> QED
  BY <1>1, <1>2 DEF RecordsProgress

LEMMA EventAdvances ==
  ASSUME StoreInv, NEW a \in Attempts, NEW milestone \in Milestones, RecordsEvent(a, milestone)
  PROVE  Advances(a)
<1>1. CASE UNCHANGED row
  BY <1>1 DEF Advances
<1>2. CASE Open(a) /\ row' = [row EXCEPT ![a].log = Append(@, milestone)]
  <2> DEFINE r == [row[a] EXCEPT !.log = Append(row[a].log, milestone)]
  <2>1. row[a] \in Row /\ milestone \in Logs
    BY DEF StoreInv, Logs
  <2>2. Append(row[a].log, milestone) \in Seq(Logs)
    BY <2>1, Logged DEF Row
  <2>3. row' = [row EXCEPT ![a] = r]
    BY <1>2, <2>1 DEF StoreInv
  <2>4. r \in Row /\ r.state = row[a].state
    BY <2>1, <2>2 DEF Row
  <2> HIDE DEF r
  <2> QED
    BY <1>2, <2>3, <2>4 DEF Advances, Open, Written, Terminal
<1> QED
  BY <1>1, <1>2 DEF RecordsEvent, Open

LEMMA RequestAdvances ==
  ASSUME StoreInv, NEW a \in Attempts, Written(a), RequestsCancellation(a)
  PROVE  Advances(a)
<1>1. CASE UNCHANGED row
  BY <1>1 DEF Advances
<1>2. CASE /\ ~Terminal(a)
           /\ row' = [row EXCEPT ![a].state = "cancel-requested", ![a].cancelRequested = TRUE,
                                 ![a].log = Append(@, "requested")]
  <2> DEFINE r == [row[a] EXCEPT !.state = "cancel-requested", !.cancelRequested = TRUE,
                                 !.log = Append(row[a].log, "requested")]
  <2>1. row[a] \in Row /\ "requested" \in Logs
    BY DEF StoreInv, Logs, Milestones
  <2>2. Append(row[a].log, "requested") \in Seq(Logs)
    BY <2>1, Logged DEF Row
  <2>3. row' = [row EXCEPT ![a] = r]
    BY <1>2, <2>1 DEF StoreInv
  <2>4. r \in Row /\ r.state = "cancel-requested"
    BY <2>1, <2>2 DEF Row
  <2> HIDE DEF r
  <2> QED
    BY <1>2, <2>3, <2>4 DEF Advances, Open, Outcomes
<1> QED
  BY <1>1, <1>2 DEF RequestsCancellation

\* What the step leaves to the database: one attempt moves on.
LEMMA AdvancesKeep ==
  ASSUME StoreInv, NEW a \in Attempts, Advances(a), UNCHANGED <<message, active, action>>
  PROVE  StoreStep
<1>1. CASE UNCHANGED row
  BY <1>1 DEF StoreInv, Kept, Open, Written, Terminal, Final, Lives, StoreStep
<1>2. CASE ~ UNCHANGED row
  <2>1. PICK r \in Row : /\ row' = [row EXCEPT ![a] = r]
                         /\ Open(a) /\ r.state \notin {"none", "deleted"} \cup Outcomes
    BY <1>2 DEF Advances
  <2>2. row' \in [Attempts -> Row] /\ row'[a] = r /\ \A b \in Attempts \ {a} : row'[b] = row[b]
    BY <2>1 DEF StoreInv
  <2>3. ASSUME NEW b \in Attempts PROVE Kept(b)'
    <3>1. CASE b = a
      <4>1. Kept(a) /\ action[a] = "none"
        BY <2>1 DEF StoreInv, Kept, Open, Terminal, Outcomes
      <4>2. Open(a)' /\ row'[a].state \notin {"completed", "clarification"}
        BY <2>1, <2>2 DEF Open, Written, Terminal, Outcomes
      <4> QED
        BY <2>1, <3>1, <4>1, <4>2 DEF Kept
    <3>2. CASE b # a
      BY <2>2, <3>2 DEF StoreInv, Kept, Open, Written, Terminal
    <3> QED
      BY <3>1, <3>2
  <2>4. Final /\ Lives
    BY <2>1, <2>2 DEF Final, Lives, Open
  <2> QED
    BY <2>2, <2>3, <2>4 DEF StoreInv, StoreStep
<1> QED
  BY <1>1, <1>2

LEMMA SettledKeeps ==
  ASSUME StoreInv, NEW a \in Attempts, NEW outcome \in Outcomes, NEW events \in Seq(Logs),
         Settleable(a), Settled(a, outcome, events),
         row[a].cancelRequested => outcome # "clarification",
         row[a].cancelRequested /\ outcome = "completed" => "completed-before" \in Range(row[a].log),
         NEW proposals \in {"none", "pending"}, action' = [action EXCEPT ![a] = proposals],
         outcome # "completed" => proposals = "none"
  PROVE  StoreStep
<1> DEFINE r == [row[a] EXCEPT !.state = outcome, !.log = row[a].log \o events]
<1>1. row[a] \in Row /\ Open(a)
  BY DEF StoreInv, Settleable, Open
<1>2. row[a].log \in Seq(Logs) /\ row[a].log \o events \in Seq(Logs)
      /\ Range(row[a].log) \subseteq Range(row[a].log \o events)
  <2>1. row[a].log \in Seq(Logs)
    BY <1>1 DEF Row
  <2> QED
    BY <2>1, LoggedTwo
<1>3. row' = [row EXCEPT ![a] = r]
  BY <1>1 DEF Settled, StoreInv
<1>4. r \in Row /\ r.state = outcome /\ r.cancelRequested = row[a].cancelRequested
      /\ r.log = row[a].log \o events
  BY <1>1, <1>2 DEF Row
<1> HIDE DEF r
<1>5. row' \in [Attempts -> Row] /\ row'[a] = r /\ \A b \in Attempts \ {a} : row'[b] = row[b]
  BY <1>3, <1>4 DEF StoreInv
<1>6. active = a /\ active' = None
  BY <1>1 DEF Settled, StoreInv, Kept
<1> DEFINE m == IF outcome \in {"completed", "clarification"} THEN "complete" ELSE "error"
<1>7. message' = [message EXCEPT ![a] = m] /\ m \in {"complete", "error"}
  BY DEF Settled
<1> HIDE DEF m
<1>8. message' \in [Attempts -> {"none", "streaming", "complete", "error"}]
      /\ message'[a] # "streaming" /\ \A b \in Attempts \ {a} : message'[b] = message[b]
  BY <1>7 DEF StoreInv
<1>9. action' \in [Attempts -> {"none", "pending"}] /\ action'[a] = proposals
      /\ \A b \in Attempts \ {a} : action'[b] = action[b]
  BY DEF StoreInv
<1>10. ASSUME NEW b \in Attempts PROVE Kept(b)'
  <2>1. CASE b = a
    <3>1. ~Open(a)' /\ Written(a)' /\ row'[a].state = outcome
      BY <1>4, <1>5 DEF Open, Written, Terminal, Outcomes
    <3>2. active' # a
      BY <1>6, NoneAssumption
    <3>3. row'[a].cancelRequested =>
            /\ outcome # "clarification"
            /\ outcome = "completed" => "completed-before" \in Range(row'[a].log)
      BY <1>2, <1>4, <1>5
    <3>4. action'[a] # "none" => outcome = "completed"
      BY <1>9
    <3> QED
      BY <1>8, <2>1, <3>1, <3>2, <3>3, <3>4 DEF Kept
  <2>2. CASE b # a
    <3>1. active' # b /\ active # b
      BY <1>6, <2>2, NoneAssumption
    <3>2. row'[b] = row[b] /\ message'[b] = message[b] /\ action'[b] = action[b] /\ Kept(b)
      BY <1>5, <1>8, <1>9, <2>2 DEF StoreInv
    <3> QED
      BY <3>1, <3>2 DEF Kept, Open, Written, Terminal
  <2> QED
    BY <2>1, <2>2
<1>11. Final /\ Lives
  BY <1>1, <1>4, <1>5 DEF Final, Lives, Open, Outcomes
<1> QED
  BY <1>5, <1>6, <1>8, <1>9, <1>10, <1>11 DEF StoreInv, StoreStep

LEMMA UnwrittenRow == Unwritten \in Row /\ Unwritten.cancelRequested = FALSE
<1>1. <<>> \in Seq(Logs)
  OBVIOUS
<1> QED
  BY <1>1 DEF Unwritten, Row

LEMMA BeginsKeeps ==
  ASSUME StoreInv, NEW a \in Attempts, row[a].state = "none", Begins(a)
  PROVE  StoreStep /\ row'[a].state # "none"
<1>1. active # a /\ Kept(a) /\ action[a] = "none"
  BY DEF StoreInv, Kept, Open, Written
<1>2. Persisted \in Row /\ Persisted.state = "persisted" /\ Persisted.cancelRequested = FALSE
  <2>1. <<"attempt-started">> \in Seq(Logs) /\ "persisted" \in Range(Progress)
    BY ProgressRange DEF Logs
  <2> QED
    BY <2>1, UnwrittenRow DEF Row, Persisted
<1>3. ASSUME NEW b \in Attempts
      PROVE  /\ Expired(b) \in Row /\ Expired(b).state = "outcome-unknown"
             /\ Expired(b).cancelRequested = row[b].cancelRequested
  <2>1. row[b] \in Row /\ "terminal" \in Logs
    BY DEF StoreInv, Logs
  <2>2. Append(row[b].log, "terminal") \in Seq(Logs)
    BY <2>1, Logged DEF Row
  <2> QED
    BY <2>1, <2>2 DEF Row, Outcomes, Expired
<1>4. ASSUME NEW b \in Attempts
      PROVE  row'[b] = IF b = a THEN Persisted ELSE IF b = active THEN Expired(b) ELSE row[b]
  BY DEF Begins
<1>5. DOMAIN row' = Attempts /\ row' = [b \in Attempts |-> row'[b]]
  BY DEF Begins
<1>6. row' \in [Attempts -> Row]
  BY <1>2, <1>3, <1>4, <1>5 DEF StoreInv
<1>7. /\ message' \in [Attempts -> {"none", "streaming", "complete", "error"}]
      /\ active' = a /\ action' = action
      /\ \A b \in Attempts : message'[b] = IF b = a THEN "streaming" ELSE IF b = active THEN "error"
                                           ELSE message[b]
  BY DEF Begins, StoreInv
<1>8. ASSUME NEW b \in Attempts PROVE Kept(b)'
  <2>1. CASE b = a
    <3>1. Open(a)' /\ row'[a].cancelRequested = FALSE
      BY <1>2, <1>4 DEF Open, Written, Terminal, Outcomes
    <3> QED
      BY <1>1, <1>7, <2>1, <3>1 DEF Kept
  <2>2. CASE b # a /\ b = active
    <3>1. Open(b) /\ action[b] = "none" /\ Kept(b)
      BY <2>2 DEF StoreInv, Kept, Open, Terminal, Outcomes
    <3>2. ~Open(b)' /\ row'[b].state = "outcome-unknown"
      BY <1>3, <1>4, <2>2 DEF Open, Written, Terminal, Outcomes
    <3> QED
      BY <1>7, <2>2, <3>1, <3>2 DEF Kept
  <2>3. CASE b # a /\ b # active
    <3>1. Kept(b) /\ ~Open(b) /\ row'[b] = row[b] /\ message'[b] = message[b] /\ active' # b
      BY <1>4, <1>7, <2>3 DEF StoreInv, Kept
    <3> QED
      BY <1>7, <3>1 DEF Kept, Open, Written, Terminal
  <2> QED
    BY <2>1, <2>2, <2>3
<1>9. Final /\ Lives /\ row'[a].state # "none"
  <2>1. active \in Attempts => ~Terminal(active)
    BY DEF StoreInv, Kept, Open
  <2> QED
    BY <1>2, <1>3, <1>4, <2>1 DEF Final, Lives, Terminal, Outcomes
<1> QED
  BY <1>6, <1>7, <1>8, <1>9 DEF StoreInv, StoreStep

LEMMA DeleteKeeps ==
  ASSUME StoreInv, DeleteThread
  PROVE  StoreStep
<1> DEFINE deleted == [Unwritten EXCEPT !.state = "deleted"]
<1>1. deleted \in Row /\ deleted.state = "deleted"
  BY UnwrittenRow DEF Row
<1>2. row' = [a \in Attempts |-> IF Written(a) THEN deleted ELSE row[a]]
  BY DEF DeleteThread
<1> HIDE DEF deleted
<1>3. row' \in [Attempts -> Row] /\ \A a \in Attempts : row'[a].state \in {"none", "deleted"}
  BY <1>1, <1>2 DEF StoreInv, Written
<1>4. active = None /\ UNCHANGED active /\ \A a \in Attempts : message'[a] = "none" /\ action'[a] = "none"
  BY DEF DeleteThread
<1>5. /\ message' \in [Attempts -> {"none", "streaming", "complete", "error"}]
      /\ action' \in [Attempts -> {"none", "pending"}]
  BY DEF DeleteThread
<1>6. ASSUME NEW a \in Attempts PROVE Kept(a)'
  BY <1>3, <1>4, NoneAssumption DEF Kept, Open, Written
<1>7. Final /\ Lives
  BY <1>1, <1>2 DEF Final, Lives, Terminal, Outcomes, Written
<1> QED
  BY <1>3, <1>4, <1>5, <1>6, <1>7 DEF StoreInv, StoreStep

LEMMA Untouched ==
  ASSUME StoreInv, UNCHANGED store
  PROVE  StoreStep
  BY DEF store, StoreInv, Kept, Open, Written, Terminal, Final, Lives, StoreStep

\* A call that records progress, whatever becomes of it.
LEMMA CallsKeep ==
  ASSUME StoreInv, NEW a \in Attempts, NEW from, NEW to \in Range(Progress), NEW next,
         Calls(a, RecordsProgress(a, from, to), next), UNCHANGED <<message, active, action>>
  PROVE  StoreStep
<1>1. CASE Written(a) /\ RecordsProgress(a, from, to)
  BY <1>1, ProgressAdvances, AdvancesKeep
<1>2. CASE UNCHANGED row
  BY <1>2, Untouched DEF store
<1> QED
  BY <1>1, <1>2 DEF Calls

LEMMA RunStore ==
  ASSUME StoreInv, MemoryInv, NEW a \in Attempts, Send(a) \/ RunStep(a)
  PROVE  StoreStep
<1>1. CASE Send(a)
  BY <1>1, BeginsKeeps DEF Send
<1>2. CASE Plan(a) \/ ToRead(a) \/ Finalize(a)
  <2>1. \E from \in Range(Progress), to \in Range(Progress), next \in RunPc :
          /\ Calls(a, RecordsProgress(a, from, to), next)
          /\ UNCHANGED <<message, active, action>>
    BY <1>2, ProgressRange DEF Plan, ToRead, Finalize, RunPc
  <2> QED
    BY <2>1, CallsKeep
<1>3. CASE \/ Acquire(a) \/ TurnAcknowledged(a) \/ TurnRejected(a) \/ TurnOver(a) \/ Planned(a)
           \/ ReadCalendar(a) \/ FinalizerAnswered(a)
  <2>1. UNCHANGED store
    BY <1>3 DEF Acquire, TurnAcknowledged, TurnRejected, TurnOver, Planned, ReadCalendar, FinalizerAnswered
  <2> QED
    BY <2>1, Untouched
<1>4. CASE Settle(a)
  <2>1. CASE UNCHANGED store
    BY <2>1, Untouched
  <2>2. CASE SettlesSuccess(a)
    <3>1. PICK proposals \in {"none", "pending"} : action' = [action EXCEPT ![a] = proposals]
      BY <2>2 DEF SettlesSuccess
    <3>2. <<"terminal">> \in Seq(Logs) /\ "completed" \in Outcomes
      BY DEF Logs, Outcomes
    <3>3. row[a].cancelRequested => "completed-before" \in Range(row[a].log)
      BY <2>2 DEF SettlesSuccess, MayComplete
    <3> QED
      BY <2>2, <3>1, <3>2, <3>3, SettledKeeps DEF SettlesSuccess
  <2>3. CASE SettlesClarification(a)
    <3>1. <<"clarification", "terminal">> \in Seq(Logs) /\ "clarification" \in Outcomes
      BY DEF Logs, Outcomes
    <3>2. action[a] = "none"
      BY <2>3 DEF SettlesClarification, Settleable, StoreInv, Kept, Terminal, Outcomes
    <3>3. action' = [action EXCEPT ![a] = "none"]
      BY <2>3, <3>2 DEF SettlesClarification, StoreInv
    <3> QED
      BY <2>3, <3>1, <3>3, SettledKeeps DEF SettlesClarification
  <2> QED
    BY <1>4, <2>1, <2>2, <2>3 DEF Settle
<1>5. CASE Fail(a)
  <2>1. CASE UNCHANGED store
    BY <2>1, Untouched
  <2>2. CASE SettlesFailure(a, run[a].code)
    <3>1. run[a].code \in {"failed", "cancelled", "outcome-unknown"}
      <4>1. run[a] \in Run /\ Fits(a) /\ run[a].pc = "fail"
        BY <1>5 DEF Fail, MemoryInv
      <4> QED
        BY <4>1 DEF Fits, Run
    <3> DEFINE outcome == IF run[a].code # "outcome-unknown" /\ row[a].cancelRequested THEN "cancelled"
                          ELSE run[a].code
    <3>2. outcome \in Outcomes \ {"completed", "clarification"} /\ <<"terminal">> \in Seq(Logs)
      BY <3>1 DEF Logs, Outcomes
    <3>3. Settleable(a) /\ Settled(a, outcome, <<"terminal">>)
      BY <2>2 DEF SettlesFailure
    <3>4. action[a] = "none"
      BY <3>3 DEF Settleable, StoreInv, Kept, Terminal, Outcomes
    <3>5. action' = [action EXCEPT ![a] = "none"]
      BY <2>2, <3>4 DEF SettlesFailure, StoreInv
    <3> HIDE DEF outcome
    <3> QED
      BY <3>2, <3>3, <3>5, SettledKeeps
  <2> QED
    BY <1>5, <2>1, <2>2 DEF Fail
<1> QED
  BY <1>1, <1>2, <1>3, <1>4, <1>5 DEF RunStep

LEMMA CancelStore ==
  ASSUME StoreInv, NEW a \in Attempts, Cancel(a) \/ CancelOrphan(a) \/ CancelStep(a)
  PROVE  StoreStep
<1>1. CASE UNCHANGED store
  BY <1>1, Untouched
<1>2. CASE UNCHANGED <<message, active, action>> /\ Written(a) /\ RequestsCancellation(a)
  BY <1>2, RequestAdvances, AdvancesKeep
<1>3. CASE UNCHANGED <<message, active, action>> /\ \E milestone \in Milestones : RecordsEvent(a, milestone)
  BY <1>3, EventAdvances, AdvancesKeep
<1>4. ASSUME NEW milestone \in Milestones, Reports(a, milestone), UNCHANGED <<message, active, action>>
      PROVE  StoreStep
  BY <1>1, <1>3, <1>4 DEF Reports, store
<1>5. CASE Cancel(a) \/ CancelOver(a)
  BY <1>1, <1>5 DEF Cancel, CancelOver
<1>6. CASE CancelOrphan(a)
  BY <1>2, <1>6 DEF CancelOrphan
<1>7. CASE CancelRequested(a)
  BY <1>1, <1>2, <1>7 DEF CancelRequested, store
<1>8. CASE InterruptSent(a)
  BY <1>4, <1>8 DEF InterruptSent, Milestones
<1>9. CASE InterruptAcknowledged(a)
  BY <1>4, <1>9 DEF InterruptAcknowledged, Milestones
<1>10. CASE InterruptEnds(a)
  <2>1. UNCHANGED <<message, active, action>>
        /\ \E milestone \in {"completed-before", "interrupted", "unknown"} : Reports(a, milestone)
    BY <1>10 DEF InterruptEnds
  <2> QED
    BY <1>4, <2>1 DEF Milestones
<1>11. CASE InterruptUnanswered(a)
  BY <1>4, <1>11 DEF InterruptUnanswered, Milestones
<1>12. CASE CancelRecords(a)
  <2>1. UNCHANGED <<message, active, action>>
        /\ \E milestone \in {"completed-before", "unknown"} : Reports(a, milestone)
    BY <1>12 DEF CancelRecords
  <2> QED
    BY <1>4, <2>1 DEF Milestones
<1> QED
  BY <1>5, <1>6, <1>7, <1>8, <1>9, <1>10, <1>11, <1>12 DEF CancelStep

-----------------------------------------------------------------------------
(* The specification.                                                      *)

Inv == MemoryInv /\ StoreInv /\ faults \in 0..MaxFaults

LEMMA InitInv == Init => Inv
<1> SUFFICES ASSUME Init PROVE Inv
  OBVIOUS
<1>1. NoRun \in Run /\ NoCancel \in CancelRecord /\ "none" \in Turn
  BY DEF NoRun, Run, RunPc, NoCancel, CancelRecord, Turn
<1>2. MemoryInv
  BY <1>1, NoneAssumption DEF Init, MemoryInv, Fits, NoRun, Holding
<1>3. StoreInv
  <2>1. \A a \in Attempts : row[a] = Unwritten /\ Unwritten.state = "none"
    BY DEF Init, Unwritten
  <2>2. \A a \in Attempts : Kept(a)
    BY <2>1, NoneAssumption DEF Init, Kept, Open, Written
  <2> QED
    BY <2>2, UnwrittenRow DEF Init, StoreInv
<1>4. faults \in 0..MaxFaults
  BY BoundsAssumption DEF Init
<1> QED
  BY <1>2, <1>3, <1>4 DEF Inv

\* Only lost calls and crashes count as faults.
LEMMA FaultsStep ==
  ASSUME faults \in 0..MaxFaults, Answered \/ Lost
  PROVE  faults' \in 0..MaxFaults
  BY BoundsAssumption DEF Answered, Lost

LEMMA NextFaults ==
  ASSUME faults \in 0..MaxFaults, Next
  PROVE  faults' \in 0..MaxFaults
<1>1. ASSUME UNCHANGED faults PROVE faults' \in 0..MaxFaults
  BY <1>1
<1>2. ASSUME NEW a \in Attempts, NEW milestone, Reports(a, milestone) PROVE faults' \in 0..MaxFaults
  BY <1>2, FaultsStep DEF Reports
<1>3. ASSUME NEW a \in Attempts, NEW effect, NEW next, Calls(a, effect, next)
      PROVE  faults' \in 0..MaxFaults
  BY <1>3, FaultsStep DEF Calls
<1>4. ASSUME NEW a \in Attempts, RunStep(a) PROVE faults' \in 0..MaxFaults
  <2>1. CASE Plan(a)
    BY <1>3, <2>1 DEF Plan
  <2>2. CASE ToRead(a)
    BY <1>3, <2>2 DEF ToRead
  <2>3. CASE Finalize(a)
    BY <1>3, <2>3 DEF Finalize
  <2>4. CASE Settle(a)
    <3>1. Answered \/ Lost \/ UNCHANGED faults
      BY <2>4 DEF Settle
    <3> QED
      BY <3>1, FaultsStep
  <2>5. CASE Fail(a)
    BY <2>5, FaultsStep DEF Fail
  <2>6. CASE \/ Acquire(a) \/ TurnAcknowledged(a) \/ TurnRejected(a) \/ TurnOver(a) \/ Planned(a)
             \/ ReadCalendar(a) \/ FinalizerAnswered(a)
    BY <2>6 DEF Acquire, TurnAcknowledged, TurnRejected, TurnOver, Planned, ReadCalendar, FinalizerAnswered
  <2> QED
    BY <1>4, <2>1, <2>2, <2>3, <2>4, <2>5, <2>6 DEF RunStep
<1>5. ASSUME NEW a \in Attempts, CancelStep(a) PROVE faults' \in 0..MaxFaults
  <2>1. CASE CancelRequested(a)
    BY <2>1, FaultsStep DEF CancelRequested
  <2>2. CASE InterruptSent(a) \/ InterruptAcknowledged(a) \/ InterruptUnanswered(a) \/ CancelRecords(a)
    BY <1>2, <2>2 DEF InterruptSent, InterruptAcknowledged, InterruptUnanswered, CancelRecords
  <2>3. CASE InterruptEnds(a)
    BY <1>2, <2>3 DEF InterruptEnds
  <2>4. CASE CancelOver(a)
    BY <2>4 DEF CancelOver
  <2> QED
    BY <1>5, <2>1, <2>2, <2>3, <2>4 DEF CancelStep
<1>6. ASSUME NEW a \in Attempts, Send(a) \/ Cancel(a) \/ CancelOrphan(a) PROVE faults' \in 0..MaxFaults
  BY <1>6, FaultsStep DEF Send, Cancel, CancelOrphan
<1>7. CASE DeleteThread
  BY <1>7 DEF DeleteThread
<1>8. CASE Crash
  BY <1>8, FaultsStep DEF Crash
<1> QED
  BY <1>4, <1>5, <1>6, <1>7, <1>8 DEF Next

LEMMA NextInv ==
  ASSUME Inv, [Next]_vars
  PROVE  Inv' /\ Final
<1>1. CASE UNCHANGED vars
  <2>1. MemoryInv'
    BY <1>1 DEF Inv, vars, MemoryInv, Fits
  <2>2. StoreStep
    BY <1>1, Untouched DEF Inv, vars, store
  <2> QED
    BY <1>1, <2>1, <2>2 DEF Inv, vars, StoreStep
<1>2. CASE Next
  <2>0. faults' \in 0..MaxFaults
    BY <1>2, NextFaults DEF Inv
  <2>1. ASSUME NEW a \in Attempts, Send(a) \/ RunStep(a) PROVE MemoryInv' /\ StoreStep
    <3>1. StoreStep /\ Lives
      BY <2>1, RunStore DEF Inv, StoreStep
    <3>2. Send(a) => row'[a].state # "none"
      BY BeginsKeeps DEF Send, Inv
    <3> QED
      BY <2>1, <3>1, <3>2, RunMemory DEF Inv
  <2>2. ASSUME NEW a \in Attempts, Cancel(a) \/ CancelOrphan(a) \/ CancelStep(a)
        PROVE  MemoryInv' /\ StoreStep
    BY <2>2, CancelStore, CancelMemory DEF Inv, StoreStep
  <2>3. CASE DeleteThread
    <3>1. StoreStep /\ Lives
      BY <2>3, DeleteKeeps DEF Inv, StoreStep
    <3>2. UNCHANGED memory
      BY <2>3 DEF DeleteThread
    <3> QED
      BY <2>0, <3>1, <3>2 DEF Inv, StoreStep, MemoryInv, Fits, Lives, memory
  <2>4. CASE Crash
    <3>1. StoreStep /\ Lives
      BY <2>4, Untouched DEF Inv, StoreStep, Crash
    <3>2. MemoryInv'
      BY <2>4, <3>1, CrashMemory DEF Inv
    <3> QED
      BY <2>0, <3>1, <3>2 DEF Inv, StoreStep
  <2> QED
    BY <1>2, <2>0, <2>1, <2>2, <2>3, <2>4 DEF Next, Inv, StoreStep
<1> QED
  BY <1>1, <1>2

THEOREM InvHolds == Spec => []Inv
  BY InitInv, NextInv, PTL DEF Spec

\* Every variable keeps its type; the provider's host belongs to an attempt that runs, and a turn
\* that is under way to the one that planned it or finalizes (app-server-provider.ts, data.ts).
THEOREM TypesHold == Spec => []TypeOK
<1>1. Inv => TypeOK
  <2> SUFFICES ASSUME Inv PROVE TypeOK
    OBVIOUS
  <2>1. ASSUME NEW a \in Attempts
        PROVE  /\ holder = a => run[a].pc \notin {"idle", "over"}
               /\ turn[a] \in {"pending", "running"} => holder = a /\ run[a].pc \in {"planner", "finalizer"}
    BY <2>1 DEF Inv, MemoryInv, Fits, Holding
  <2> QED
    BY <2>1 DEF Inv, MemoryInv, StoreInv, TypeOK, Row, Logs, Run, RunPc, CancelRecord, Turn
<1> QED
  BY <1>1, InvHolds, PTL

\* At most one attempt is without an outcome, and it is the active one whose message streams, however
\* the calls of the broker, the crashes and the expired leases follow each other.
THEOREM OneTurnHolds == Spec => []OneTurn
<1>1. Inv => OneTurn
  BY DEF Inv, StoreInv, Kept, Open, OneTurn
<1> QED
  BY <1>1, InvHolds, PTL

\* A cancelled attempt leaves no answer and no proposal unless its log says that the provider had
\* finished before the interrupt.
THEOREM CancelHoldsAlways == Spec => []CancelHolds
<1>1. Inv => CancelHolds
  <2> SUFFICES ASSUME Inv, NEW a \in Attempts, Written(a), row[a].cancelRequested
               PROVE  /\ row[a].state # "clarification"
                      /\ row[a].state = "completed" \/ action[a] # "none" =>
                           "completed-before" \in Range(row[a].log)
    BY DEF CancelHolds
  <2> QED
    BY DEF Inv, StoreInv, Kept
<1> QED
  BY <1>1, InvHolds, PTL

\* An outcome, with its log, is for good until the thread is deleted.
THEOREM OutcomesAreFinal == Spec => OutcomeIsFinal
<1>1. Inv /\ [Next]_vars => [\A a \in Attempts : Terminal(a) => row'[a] = row[a] \/ row'[a].state = "deleted"]_vars
  BY NextInv DEF Final
<1> QED
  BY <1>1, InvHolds, PTL DEF Spec, OutcomeIsFinal
=============================================================================
