------------------------------ MODULE SeriesUpload ------------------------------
(***************************************************************************)
(* A recurring event: edits that reach one occurrence, an occurrence and   *)
(* all that follow it, or the whole series; how they are uploaded, several *)
(* of them at a time, and what is left when one of the two writes of a     *)
(* split is lost.                                                          *)
(*                                                                         *)
(* An occurrence is a series and a slot, its original start.  Series 0 is  *)
(* there at first; the future series that the split of upload n inserts,   *)
(* under an identity derived from its operation, is series n.  The value   *)
(* of an event is the number of the operation that wrote it, 0 at first,   *)
(* or a number above MaxOps for a change made by another client.           *)
(***************************************************************************)
EXTENDS Naturals, Sequences, FiniteSets

CONSTANTS
  Slots,        \* the starts the series can have
  ForeignSlots, \* bound: the slots whose occurrences other clients change
  MaxOps,       \* bound: operations the user queues
  MaxForeign,   \* bound: changes other clients make
  MaxTrouble    \* bound: lost or refused requests and deaths of the worker

ASSUME BoundsAssumption ==
  /\ Slots \subseteq Nat /\ Slots # {} /\ ForeignSlots \subseteq Slots
  /\ MaxOps \in Nat /\ MaxForeign \in Nat /\ MaxTrouble \in Nat

VARIABLES
  google,   \* the series at Google, and what their occurrences have of their own
  rows,     \* the events table
  ops,      \* the queued operations, oldest first
  jobs,     \* the uploads in progress, by the operation that leads them
  cycle,    \* the worker's cycle, and the last change a pull has seen
  history,  \* what happened so far, for the bounds and the properties
  trouble   \* how much has gone wrong

seriesVars == <<google, rows, ops, jobs, cycle, history, trouble>>

OpIds       == 1..MaxOps
SeriesIds   == 0..MaxOps
Occurrences == SeriesIds \X Slots
Values      == 0..(MaxOps + MaxForeign)

Scopes       == {"thisEvent", "thisAndFollowing", "allEvents"}
ActiveStates == {"pending", "syncing", "ambiguous", "failed", "conflict"}

EventRow == [here : BOOLEAN, val : Values, etag : Nat,   \* remoteSnapshot and remoteEtag
             member : BOOLEAN]                           \* recurringEventId is known
NoEventRow == [here |-> FALSE, val |-> 0, etag |-> 0, member |-> FALSE]

Op == [occ : Occurrences, kind : {"update", "delete"}, scope : Scopes,
       etag : Nat,                     \* uploadBaseRemoteEtag
       state : ActiveStates \cup {"succeeded"},
       lead : SeriesIds]               \* leaseLeaderOperationId, 0 if undefined

Job   == [at : {"none", "look", "read", "trim", "insert", "send", "unsure", "answered"},
          members : SUBSET OpIds,
          from : {"pending", "ambiguous"},   \* leasedFromState
          member : BOOLEAN,                  \* recurrence: the row was there, with its series
          etag : Nat,                        \* the master's, when it was read
          answer : {"none", "ok", "scoped", "conflict", "changed", "gone", "invalid", "retry"},
          seen : EventRow]
NoJob == [at |-> "none", members |-> {}, from |-> "pending", member |-> FALSE, etag |-> 0,
          answer |-> "none", seen |-> NoEventRow]

SeriesTypeOK ==
  /\ google \in [series : [SeriesIds -> [there : BOOLEAN, slots : SUBSET Slots,
                                         val : Values, stamp : Nat]],
                 own : [Occurrences -> [val : Values, stamp : Nat, cut : BOOLEAN]],
                 clock : Nat]
  /\ rows \in [Occurrences -> EventRow]
  /\ ops \in Seq(Op) /\ Len(ops) <= MaxOps
  /\ jobs \in [OpIds -> Job]
  /\ cycle \in [at : {"idle", "open"}, token : Nat]
  /\ history \in [wrote : [OpIds -> SUBSET {"occurrence", "series", "trim", "tail"}],
                  foreign : 0..MaxForeign]
  /\ trouble \in 0..MaxTrouble

-----------------------------------------------------------------------------
(* The calendar at Google.  An occurrence has what its series has, unless  *)
(* it was changed by itself, and the later of the two changes is its etag. *)

Master(o)  == google.series[o[1]]
Alive(o)   == Master(o).there /\ o[2] \in Master(o).slots /\ ~google.own[o].cut
EtagOf(o)  == IF google.own[o].stamp > Master(o).stamp THEN google.own[o].stamp ELSE Master(o).stamp
ValueOf(o) == IF google.own[o].val # 0 THEN google.own[o].val ELSE Master(o).val
Remote(o)  == [here |-> TRUE, val |-> ValueOf(o), etag |-> EtagOf(o), member |-> TRUE]

Tick == google.clock + 1

WriteSeries(r, val) ==
  google' = [google EXCEPT !.clock = Tick, !.series[r].val = val, !.series[r].stamp = Tick]
WriteOccurrence(o, val) ==
  google' = [google EXCEPT !.clock = Tick, !.own[o].val = val, !.own[o].stamp = Tick]
CutOccurrence(o) ==
  google' = [google EXCEPT !.clock = Tick, !.own[o].cut = TRUE, !.own[o].stamp = Tick]

\* trimRecurrenceBefore: the series ends before the slot.
Trimmed(r, slot) ==
  google' = [google EXCEPT !.clock = Tick, !.series[r].stamp = Tick,
                           !.series[r].slots = {s \in @ : s < slot}]

\* futureRecurrence drops the end of the rule along with its count.
Inserted(r, slot, val) ==
  google' = [google EXCEPT !.clock = Tick,
               !.series[r] = [there |-> TRUE, slots |-> {s \in Slots : s >= slot},
                              val |-> val, stamp |-> Tick]]

-----------------------------------------------------------------------------
(* Operations and their projection.                                        *)

Positions == 1..Len(ops)
Of(o)     == {n \in Positions : ops[n].occ = o}
Last(S)   == CHOOSE n \in S : \A m \in S : m <= n

\* planCalendarOperationUploads: updates of an occurrence that are pending in a
\* row are one upload, and the last of them gives it its value and its scope.
Joins(n, k) ==
  IF ops[n].state = "pending" THEN ops[k].state = "pending"
  ELSE ops[k].state = ops[n].state /\ ops[n].lead # 0 /\ ops[k].lead = ops[n].lead

UploadOf(n) ==
  IF ops[n].kind = "delete" THEN {n}
  ELSE {n} \cup {k \in Of(ops[n].occ) : k > n /\ \A j \in Of(ops[n].occ) \cap (n + 1)..k :
                                                   ops[j].kind = "update" /\ Joins(n, j)}

InState(G, s, lead) ==
  [n \in Positions |-> IF n \in G THEN [ops[n] EXCEPT !.state = s, !.lead = lead] ELSE ops[n]]

\* rebuildProjection for one operation: a changed baseline puts an update in
\* conflict, and a new etag is what the others are uploaded against.
Rebased(op, old, new) ==
  IF /\ old.here /\ op.kind = "update" /\ old.val # new.val
     /\ op.state \in {"pending", "syncing", "ambiguous", "failed"}
  THEN [op EXCEPT !.state = "conflict"]
  ELSE IF new.etag # 0 /\ op.state \in {"pending", "ambiguous", "failed"}
  THEN [op EXCEPT !.etag = new.etag]
  ELSE op

\* The row of an occurrence under a baseline: none if an active operation deletes it.
Projected(list, o, row) ==
  IF \E n \in DOMAIN list : list[n].occ = o /\ list[n].kind = "delete" /\ list[n].state \in ActiveStates
  THEN NoEventRow ELSE row

-----------------------------------------------------------------------------
(* The user.  An occurrence whose baseline has no etag cannot be changed,  *)
(* and only one that is known to recur has a scope.                        *)

Queue(o, kind, scope) ==
  /\ Len(ops) < MaxOps
  /\ rows[o].here /\ rows[o].etag # 0
  /\ ~rows[o].member => scope = "thisEvent"
  /\ ops' = Append(ops, [occ |-> o, kind |-> kind, scope |-> scope, etag |-> rows[o].etag,
                         state |-> "pending", lead |-> 0])
  /\ UNCHANGED <<google, jobs, cycle, history>>

\* acceptUpdateEventHandler
Update(o, scope) == Queue(o, "update", scope) /\ UNCHANGED rows

\* acceptDeleteEventHandler: the projection is empty, and the row goes.
Delete(o, scope) == Queue(o, "delete", scope) /\ rows' = [rows EXCEPT ![o] = NoEventRow]

-----------------------------------------------------------------------------
(* Other clients.                                                          *)

ForeignValue == MaxOps + history.foreign + 1
Foreign(act) ==
  /\ history.foreign < MaxForeign /\ act
  /\ history' = [history EXCEPT !.foreign = @ + 1]
  /\ UNCHANGED <<rows, ops, jobs, cycle>>

ForeignSeries(r)     == google.series[r].there /\ Foreign(WriteSeries(r, ForeignValue))
ForeignOccurrence(o) == Alive(o) /\ Foreign(WriteOccurrence(o, ForeignValue))
ForeignCut(o)        == Alive(o) /\ Foreign(CutOccurrence(o))

-----------------------------------------------------------------------------
(* A cycle: a pull of everything that changed, and then an upload.         *)

Idle == cycle.at = "idle" /\ \A n \in OpIds : jobs[n].at = "none"

Listed(o) == Master(o).there /\ EtagOf(o) > cycle.token

\* applyRemotePage.
Pull ==
  /\ Idle
  /\ ops' = [n \in Positions |->
               LET op == ops[n] IN
               IF ~Listed(op.occ) THEN op
               ELSE IF Alive(op.occ) THEN Rebased(op, rows[op.occ], Remote(op.occ))
               ELSE IF op.state \in ActiveStates THEN [op EXCEPT !.state = "conflict"] ELSE op]
  /\ rows' = [o \in Occurrences |->
               IF ~Listed(o) THEN rows[o]
               ELSE IF Alive(o) THEN Projected(ops, o, Remote(o))
               ELSE IF \E n \in Of(o) : ops[n].state \in ActiveStates THEN rows[o] ELSE NoEventRow]
  /\ cycle' = [at |-> "open", token |-> google.clock]
  /\ UNCHANGED <<google, jobs, history>>

\* Mutant: what is in doubt is not taken up again.
LeasablePending(n) ==
  ops[n].state = "pending" /\ \A m \in Of(ops[n].occ) : m < n => ops[m].state = "succeeded"

\* The first unsettled operation of an occurrence; an ambiguous one leads its group.
Leasable(n) ==
  /\ ops[n].state = "pending" \/ (ops[n].state = "ambiguous" /\ ops[n].lead = n)
  /\ \A m \in Of(ops[n].occ) : m < n => ops[m].state = "succeeded"

\* leaseOperations looks the series up in the projected row.
KnownMember(o) == rows[o].here /\ rows[o].member

\* Mutant: the scope is the first edit's.
AimOfLeader(job) ==
  IF job.member THEN ops[CHOOSE n \in job.members : \A m \in job.members : n <= m].scope
  ELSE "thisEvent"

\* What the write is aimed at: resolveRecurringTarget.
Scope(n) == ops[Last(jobs[n].members)].scope
Aim(job) ==
  IF job.member THEN ops[Last(job.members)].scope ELSE "thisEvent"
FirstStep(job) == IF Aim(job) = "thisEvent" THEN "send" ELSE "read"

Begun(n) ==
  LET job == [NoJob EXCEPT !.members = UploadOf(n), !.from = ops[n].state,
                           !.member = KnownMember(ops[n].occ)] IN
  [job EXCEPT !.at = IF ops[n].state = "ambiguous" THEN "look" ELSE FirstStep(job)]

Due(state) == {n \in Positions : Leasable(n) /\ ops[n].state = state}

\* leaseOperations: one upload of every occurrence whose turn has come.
Lease(S) ==
  /\ cycle.at = "open"
  /\ jobs' = [n \in OpIds |-> IF n \in S THEN Begun(n) ELSE NoJob]
  /\ ops' = [k \in Positions |->
               LET L == {n \in S : k \in UploadOf(n)} IN
               IF L = {} THEN ops[k] ELSE [ops[k] EXCEPT !.state = "syncing", !.lead = Last(L)]]
  /\ cycle' = [cycle EXCEPT !.at = "idle"]
  /\ UNCHANGED <<google, rows, history>>

LeaseAll == Lease(Due("pending") \cup Due("ambiguous"))

\* What is in doubt is still waiting for its retry.
LeaseSome ==
  \E S \in SUBSET Due("ambiguous") :
    S # Due("ambiguous") /\ Lease(Due("pending") \cup S)

-----------------------------------------------------------------------------
(* The steps of one upload; several are under way at a time.               *)

Occ(n)   == ops[n].occ
Kind(n)  == ops[n].kind
Value(n) == Last(jobs[n].members)
At(n, at) == jobs[n].at = at

Goes(n, at) == jobs' = [jobs EXCEPT ![n].at = at]
Answers(n, answer, seen) ==
  jobs' = [jobs EXCEPT ![n].at = "answered", ![n].answer = answer, ![n].seen = seen]

\* What the user wants written, as the row would show it: receiptForScopedResult,
\* without an etag.
Desired(n) == [here |-> TRUE, val |-> Value(n), etag |-> 0, member |-> TRUE]

Wrote(n, what) ==
  history' = [history EXCEPT !.wrote =
                [k \in OpIds |-> IF k \in jobs[n].members THEN @[k] \cup {what} ELSE @[k]]]

\* executeWrite and executeSeriesSplit fetch the master and write under its etag
\* of that moment.
Read(n) ==
  /\ At(n, "read")
  /\ jobs' = [jobs EXCEPT ![n].at = IF Aim(jobs[n]) = "allEvents" THEN "send" ELSE "trim",
                          ![n].etag = Master(Occ(n)).stamp]
  /\ UNCHANGED <<google, rows, ops, cycle, history>>

\* Does Google take the write?  Its If-Match is the master's etag or the occurrence's.
ToMaster(n) == At(n, "trim") \/ Aim(jobs[n]) = "allEvents"
Accepts(n) ==
  IF At(n, "insert") THEN ~google.series[n].there
  ELSE IF ToMaster(n) THEN Master(Occ(n)).stamp = jobs[n].etag
  ELSE Alive(Occ(n)) /\ EtagOf(Occ(n)) = ops[n].etag

\* The three writes.
Trims(n)   == At(n, "trim") /\ Trimmed(Occ(n)[1], Occ(n)[2]) /\ Wrote(n, "trim")
Inserts(n) == At(n, "insert") /\ Inserted(n, Occ(n)[2], Value(n)) /\ Wrote(n, "tail")
Sends(n) ==
  /\ At(n, "send")
  /\ IF Aim(jobs[n]) = "allEvents"
     THEN /\ IF Kind(n) = "update" THEN WriteSeries(Occ(n)[1], Value(n))
             ELSE Trimmed(Occ(n)[1], 0)
          /\ Wrote(n, "series")
     ELSE /\ IF Kind(n) = "update" THEN WriteOccurrence(Occ(n), Value(n))
             ELSE CutOccurrence(Occ(n))
          /\ Wrote(n, "occurrence")

Writing(n) == jobs[n].at \in {"trim", "insert", "send"}
Writes(n)  == Writing(n) /\ Accepts(n) /\ (Trims(n) \/ Inserts(n) \/ Sends(n))

\* What comes of a write that was taken: the trim of an update goes on to the insert.
Taken(n) ==
  IF At(n, "trim") /\ Kind(n) = "update" THEN Goes(n, "insert")
  ELSE IF At(n, "send") /\ ~ToMaster(n)
  THEN Answers(n, "ok", [here |-> TRUE, val |-> Value(n), etag |-> Tick, member |-> TRUE])
  ELSE Answers(n, "scoped", Desired(n))

WriteTaken(n) ==
  /\ Writes(n) /\ Taken(n)
  /\ UNCHANGED <<rows, ops, cycle>>

\* 412, or 404 and 410 for an occurrence that is cancelled.  Whatever an insert is
\* answered, the trim is done, and the outcome is in doubt.
WriteRefused(n) ==
  /\ Writing(n) /\ ~Accepts(n)
  /\ IF At(n, "insert") THEN Goes(n, "unsure")
     ELSE IF ToMaster(n) \/ Alive(Occ(n)) THEN Answers(n, "conflict", NoEventRow)
     ELSE \E answer \in {"gone", "retry"} : Answers(n, answer, NoEventRow)
  /\ UNCHANGED <<google, rows, ops, cycle, history>>

-----------------------------------------------------------------------------
(* reconcileAmbiguous: look before writing again.                          *)

\* The future series of a split is looked for under its derived identity.
LooksForTail(n) == Kind(n) = "update" /\ Scope(n) = "thisAndFollowing"

\* Mutant: a master that ends before the split is taken for a split that is done.
TailAssumed(n) == LooksForTail(n) /\ Occ(n)[2] \notin Master(Occ(n)).slots

TailThere(n) == LooksForTail(n) /\ google.series[n].there

LooksForMaster(n) == Aim(jobs[n]) = "allEvents"

MasterMatches(n)  == LooksForMaster(n) /\ Kind(n) = "update" /\ Master(Occ(n)).val = Value(n)
LooksForOne(n)    == ~LooksForTail(n) /\ ~LooksForMaster(n)
OneMatches(n) ==
  /\ LooksForOne(n)
  /\ IF Kind(n) = "update" THEN Alive(Occ(n)) /\ ValueOf(Occ(n)) = Value(n) ELSE ~Alive(Occ(n))

\* The etag of what is found is compared with the occurrence's.
MasterChanged(n) == LooksForMaster(n) /\ Master(Occ(n)).stamp # ops[n].etag
OneChanged(n)    == LooksForOne(n) /\ Alive(Occ(n)) /\ EtagOf(Occ(n)) # ops[n].etag

\* recordRemoteAmbiguous
StillUnsure(n) ==
  jobs' = [jobs EXCEPT ![n].at = "answered", ![n].answer = "retry", ![n].from = "ambiguous"]

\* Mutant: the conflict is recorded with the master's etag.
MasterAsConflict(n) ==
  Answers(n, "changed", [Remote(Occ(n)) EXCEPT !.etag = Master(Occ(n)).stamp,
                                               !.val = Master(Occ(n)).val])

\* recordRemoteConflict refuses a master for its occurrence (assertRemoteSnapshotScope):
\* the operation stays in doubt.
MasterRefused(n) == StillUnsure(n)

Look(n) ==
  /\ jobs[n].at \in {"look", "unsure"}
  /\ IF TailThere(n) \/ MasterMatches(n) THEN Answers(n, "scoped", Desired(n))
     ELSE IF OneMatches(n) THEN Answers(n, "ok", Remote(Occ(n)))
     ELSE IF MasterChanged(n) /\ ~LooksForTail(n) THEN MasterRefused(n)
     ELSE IF OneChanged(n) THEN Answers(n, "changed", [Remote(Occ(n)) EXCEPT !.member = FALSE])
     ELSE IF At(n, "look") THEN Goes(n, FirstStep(jobs[n]))
     ELSE StillUnsure(n)
  /\ UNCHANGED <<google, rows, ops, cycle, history>>

\* recordCurrentConflict after a 412: a split first looks for its tail, and then it
\* is the occurrence that is fetched.
Fetch(n) ==
  /\ At(n, "answered") /\ jobs[n].answer = "conflict"
  /\ IF TailThere(n) THEN Answers(n, "scoped", Desired(n))
     ELSE IF Alive(Occ(n)) THEN Answers(n, "changed", [Remote(Occ(n)) EXCEPT !.member = FALSE])
     ELSE Answers(n, "invalid", NoEventRow)
  /\ UNCHANGED <<google, rows, ops, cycle, history>>

-----------------------------------------------------------------------------
(* The outcome is recorded under the lease.                                *)

Answered(n, answers) == At(n, "answered") /\ jobs[n].answer \in answers

Recorded(n) == jobs' = [jobs EXCEPT ![n] = NoJob] /\ UNCHANGED <<google, cycle, history>>

\* recordRemoteSuccess
RecordSuccess(n) ==
  /\ Answered(n, {"ok", "scoped"} \cup (IF Kind(n) = "delete" THEN {"gone"} ELSE {}))
  /\ LET o    == Occ(n)
         done == InState(jobs[n].members, "succeeded", 0)
         seen == [jobs[n].seen EXCEPT !.member = rows[o].member] IN
     IF Kind(n) = "delete"
     THEN ops' = done /\ rows' = [rows EXCEPT ![o] = NoEventRow]
     ELSE /\ ops' = [k \in Positions |-> IF k \in Of(o) THEN Rebased(done[k], rows[o], seen)
                                         ELSE done[k]]
          /\ rows' = [rows EXCEPT ![o] = Projected(done, o, seen)]
  /\ Recorded(n)

\* recordRemoteConflict: the row forgets its series.
RecordConflict(n) ==
  /\ Answered(n, {"changed"})
  /\ LET lost == InState(jobs[n].members, "conflict", 0) IN
     /\ ops' = lost
     /\ rows' = [rows EXCEPT ![Occ(n)] = Projected(lost, Occ(n), jobs[n].seen)]
  /\ Recorded(n)

RecordFailure(n) ==
  /\ Answered(n, {"invalid"} \cup (IF Kind(n) = "update" THEN {"gone"} ELSE {}))
  /\ ops' = InState(jobs[n].members, "failed", 0)
  /\ UNCHANGED rows
  /\ Recorded(n)

\* recordRemoteRetry and recordRemoteAmbiguous: what was in doubt stays in doubt.
RecordRetry(n) ==
  /\ Answered(n, {"retry"})
  /\ ops' = InState(jobs[n].members, jobs[n].from, n)
  /\ UNCHANGED rows
  /\ Recorded(n)

-----------------------------------------------------------------------------
(* What goes wrong on the way.                                             *)

Troubled == trouble < MaxTrouble /\ trouble' = trouble + 1

\* A look or a read that fails, or a write that is turned down before it is made.
\* An insert that is turned down is in doubt like everything that follows the trim.
TurnedDown(n) ==
  /\ Troubled
  /\ \/ jobs[n].at \in {"look", "unsure"} /\ StillUnsure(n)
     \/ jobs[n].at \in {"read", "trim", "send"} /\ Answers(n, "retry", NoEventRow)
     \/ jobs[n].at \in {"trim", "send"} /\ Answers(n, "invalid", NoEventRow)
     \/ At(n, "insert") /\ Goes(n, "unsure")
  /\ UNCHANGED <<google, rows, ops, cycle, history>>

\* Google takes the write and its answer is lost.
AnswerLost(n) ==
  /\ Troubled
  /\ Writes(n) /\ Goes(n, "unsure")
  /\ UNCHANGED <<rows, ops, cycle>>

\* The request is lost on its way.
RequestLost(n) ==
  /\ Troubled
  /\ jobs[n].at \in {"trim", "send"} /\ Goes(n, "unsure")
  /\ UNCHANGED <<google, rows, ops, cycle, history>>

\* The process dies, or the leases expire: what was not recorded is in doubt.
WorkerDies ==
  /\ Troubled
  /\ \E n \in OpIds : jobs[n].at # "none"
  /\ ops' = [k \in Positions |-> IF ops[k].state = "syncing"
                                 THEN [ops[k] EXCEPT !.state = "ambiguous"] ELSE ops[k]]
  /\ jobs' = [n \in OpIds |-> NoJob]
  /\ UNCHANGED <<google, rows, cycle, history>>

-----------------------------------------------------------------------------

SeriesInit ==
  /\ google = [series |-> [r \in SeriesIds |->
                             [there |-> r = 0, slots |-> IF r = 0 THEN Slots ELSE {},
                              val |-> 0, stamp |-> IF r = 0 THEN 1 ELSE 0]],
               own |-> [o \in Occurrences |-> [val |-> 0, stamp |-> 0, cut |-> FALSE]],
               clock |-> 1]
  /\ rows = [o \in Occurrences |-> IF o[1] = 0 THEN Remote(o) ELSE NoEventRow]
  /\ ops = <<>>
  /\ jobs = [n \in OpIds |-> NoJob]
  /\ cycle = [at |-> "idle", token |-> 1]
  /\ history = [wrote |-> [n \in OpIds |-> {}], foreign |-> 0]
  /\ trouble = 0

User    == \E o \in Occurrences, scope \in Scopes : Update(o, scope) \/ Delete(o, scope)
Others  == \/ \E r \in SeriesIds : ForeignSeries(r)
           \/ \E o \in SeriesIds \X ForeignSlots : ForeignOccurrence(o) \/ ForeignCut(o)
Upload(n) ==
  \/ Read(n) \/ WriteTaken(n) \/ WriteRefused(n) \/ Look(n) \/ Fetch(n)
  \/ RecordSuccess(n) \/ RecordConflict(n) \/ RecordFailure(n) \/ RecordRetry(n)
Trouble == WorkerDies \/ \E n \in OpIds : TurnedDown(n) \/ AnswerLost(n) \/ RequestLost(n)

Works == Pull \/ LeaseAll \/ \E n \in OpIds : Upload(n)

SeriesNext == ((User \/ Others \/ Works \/ LeaseSome) /\ UNCHANGED trouble) \/ Trouble

SeriesSpec == SeriesInit /\ [][SeriesNext]_seriesVars

-----------------------------------------------------------------------------
(* Safety.                                                                 *)

Updates == {n \in Positions : Kind(n) = "update"}

\* Where the value of an update may be seen: the occurrence, the series, or a future
\* series that was made for the updates it was sent with.
Reach(n) ==
  CASE ops[n].scope = "thisEvent" -> {Occ(n)}
    [] ops[n].scope = "allEvents" -> {<<Occ(n)[1], s>> : s \in Slots}
    [] OTHER -> {Occ(n)} \cup {o \in Occurrences : o[1] \in Of(Occ(n)) /\ o[2] >= Occ(n)[2]}

\* An edit never shows on an occurrence outside the scope the user chose, however its
\* upload was compacted, repeated and overtaken; and a future series and the one it
\* was cut from never show the same slot.
WithinScope ==
  /\ \A n \in Updates, o \in Occurrences : Alive(o) /\ ValueOf(o) = n => o \in Reach(n)
  /\ \A n \in Positions :
       google.series[n].there => Master(Occ(n)).slots \cap google.series[n].slots = {}

Touched(n)   == history.wrote[n] \cap {"occurrence", "series", "tail"} # {}
CutByHand(s) == \E r \in SeriesIds : google.own[<<r, s>>].cut
Unsettled(s) == \E n \in Updates : ops[n].state # "succeeded" /\ s >= Occ(n)[2]

\* What is recorded as done was done, a split only when its future series was made:
\* a slot that no series shows was cancelled by somebody, or belongs to a split that
\* is not recorded as done.
RecordedTruly ==
  /\ \A n \in Positions : ops[n].state = "succeeded" =>
       Touched(n) \/ (Kind(n) = "delete" /\ ~Alive(Occ(n)))
  /\ \A s \in Slots :
       (\E r \in SeriesIds : Alive(<<r, s>>)) \/ CutByHand(s) \/ Unsettled(s)

\* Once a pull has seen the last change, a row that has an etag has Google's value
\* under Google's etag, so that the next edit is made on what is there.
RowsInStep ==
  Idle /\ cycle.token = google.clock =>
    \A o \in Occurrences :
      /\ rows[o].here /\ rows[o].etag # 0 /\ Alive(o) =>
           rows[o].val = ValueOf(o) /\ rows[o].etag = EtagOf(o)
      /\ rows[o].here /\ ~Alive(o) => \E n \in Of(o) : ops[n].state \in ActiveStates

\* A delete that is recorded as done has removed what its scope says.
DeletesReachScope ==
  \A n \in Positions : Kind(n) = "delete" /\ ops[n].state = "succeeded" =>
    \A s \in Slots :
      (ops[n].scope = "allEvents" \/ (ops[n].scope = "thisAndFollowing" /\ s >= Occ(n)[2]))
        => ~Alive(<<Occ(n)[1], s>>)

-----------------------------------------------------------------------------
(* Liveness.  The worker goes on, the retries come due, and trouble is     *)
(* bounded.                                                                *)

FairSeriesSpec == SeriesSpec /\ WF_seriesVars(Works /\ UNCHANGED trouble) /\ <>[][~LeaseSome]_seriesVars

\* An edit of the whole series that is in doubt is compared by the etag of its
\* occurrence, which is not the master's once the occurrence has changes of its own.
Incomparable(n) ==
  /\ ops[n].state \in {"ambiguous", "syncing"} /\ ops[n].scope = "allEvents"
  /\ google.own[Occ(n)].stamp > Master(Occ(n)).stamp

AtRest(n) ==
  \/ ops[n].state = "succeeded"
  \/ \E m \in Of(Occ(n)) : m <= n /\ ops[m].state \in {"failed", "conflict"}
  \/ \E m \in Of(Occ(n)) : Incomparable(m)

\* In the end every edit is settled, or failed, or in conflict.
EditsSettle == <>[](\A n \in DOMAIN ops : AtRest(n))
=============================================================================
