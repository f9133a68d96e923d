---------------------------- MODULE CalendarQueue ----------------------------
(***************************************************************************)
(* The durable queue of calendar operations that local Convex keeps for    *)
(* one Google account (table calendarOperations) and the mutations of the  *)
(* desktop broker on it: an edit is appended to the chain of its event, a  *)
(* worker leases the chain's head together with the edits that compact     *)
(* into it, and reports what became of the upload.                         *)
(*                                                                         *)
(* Every action is one Convex mutation, hence one atomic transaction; a    *)
(* mutation that throws changes nothing and is no step at all.             *)
(*                                                                         *)
(* Wall-clock time appears only as the truth of "nextLeaseAt <= now", the  *)
(* field due: enqueueing, leasing, heartbeats and retries set nextLeaseAt, *)
(* and the clock actions let it pass.  The rows of one lease share their   *)
(* expiry, and leaseExpiresAt equals nextLeaseAt while a row is syncing.   *)
(***************************************************************************)
EXTENDS Naturals, FiniteSets

CONSTANTS
  Ops,              \* operation ids
  Events,           \* local event ids
  Leases,           \* lease ids, one per upload pass of a worker
  None,             \* an unset optional field
  UserKinds,        \* the kinds of edits the user issues
  BatchLimit,       \* most operations handed out by one leaseOperations call
  ActiveChainLimit  \* MAX_ACTIVE_OPERATION_CHAIN

Kinds == {"create", "update", "move", "respond", "delete"}

ASSUME NoneAssumption  == None \notin Ops \cup Events \cup Leases
ASSUME KindAssumption  == UserKinds \subseteq Kinds
ASSUME LimitAssumption == BatchLimit \in Nat /\ ActiveChainLimit \in Nat

VARIABLES
  row,    \* the row of each operation id
  clock   \* orders insertions: the createdAt of the next row

vars == <<row, clock>>

Done       == {"succeeded", "cancelled"}
Active     == {"pending", "syncing", "conflict", "ambiguous", "failed"}
Uploadable == {"pending", "syncing", "ambiguous"}

\* Leased, or left by a lease without a recorded outcome: Google may or may
\* not have committed the write.
InDoubt    == {"syncing", "ambiguous"}

NoRow == [state |-> "absent", kind |-> "none", event |-> None, at |-> 0,
          pred |-> None, ready |-> FALSE, due |-> FALSE,
          lease |-> None, prev |-> "none", leader |-> None]

Row == [state  : Done \cup Active \cup {"absent"},
        kind   : Kinds \cup {"none"},
        event  : Events \cup {None},
        at     : Nat,                            \* createdAt
        pred   : Ops \cup {None},                \* predecessorOperationId
        ready  : BOOLEAN,                        \* leaseReady
        due    : BOOLEAN,                        \* nextLeaseAt <= now
        lease  : Leases \cup {None},             \* leaseId
        prev   : {"none", "pending", "ambiguous"}, \* leasePreviousState
        leader : Ops \cup {None}]                \* leaseLeaderOperationId

TypeOK ==
  /\ row \in [Ops -> Row]
  /\ clock \in Nat

-----------------------------------------------------------------------------
(* The chain of one event, in createdAt order.                             *)

OnEvent(e)  == {o \in Ops : row[o].state # "absent" /\ row[o].event = e}
ActiveOn(e) == {o \in OnEvent(e) : row[o].state \in Active}

SameEvent(o, p) == o \in OnEvent(row[p].event)
Before(o, p)    == SameEvent(o, p) /\ row[o].at < row[p].at

\* Mutant: edits that are being uploaded are not looked at.
LatestPending(p, e) ==
  LET waiting == {q \in OnEvent(e) : row[q].state = "pending"} IN
  \/ p = None /\ waiting = {}
  \/ p \in waiting /\ \A q \in waiting : row[q].at <= row[p].at

\* The row enqueueCalendarOperation chains the next edit of e behind.
IsLatest(p, e) ==
  \/ p = None /\ OnEvent(e) = {}
  \/ p \in OnEvent(e) /\ \A q \in OnEvent(e) : row[q].at <= row[p].at

PredDone(o) == row[o].pred # None => row[row[o].pred].state \in Done

\* The active rows of a's event after a, up to and including c.
Following(a, c) ==
  {x \in ActiveOn(row[a].event) :
     row[a].at < row[x].at /\ row[x].at <= row[c].at}

-----------------------------------------------------------------------------
(* planCalendarOperationUploads: which rows one upload stands for.         *)

CanCompactTogether(a, c) ==
  IF row[a].state = "pending"
  THEN row[c].state = "pending"
  ELSE /\ row[a].leader # None
       /\ row[c].state = row[a].state
       /\ row[c].leader = row[a].leader

Absorbs(a, c) == CanCompactTogether(a, c) /\ row[c].kind = "update"

UploadGroup(a) ==
  {a} \cup {c \in ActiveOn(row[a].event) :
              /\ row[a].kind \in {"create", "update"}
              /\ row[a].at < row[c].at
              /\ \A x \in Following(a, c) : Absorbs(a, x)}

\* A create and the delete that follows it annihilate, with the edits between.
Annihilates(a, d) ==
  /\ row[a].kind = "create" /\ row[d].kind = "delete"
  /\ row[a].state \in Uploadable
  /\ Before(a, d)
  /\ CanCompactTogether(a, d)
  /\ \A x \in Following(a, d) \ {d} : Absorbs(a, x)

CancelledOn(e) ==
  {x \in ActiveOn(e) :
     \E a, d \in ActiveOn(e) : Annihilates(a, d) /\ x \in {a} \cup Following(a, d)}

\* Not swallowed by the upload of an earlier row of the chain.
LeadsUpload(a) ==
  \A y \in ActiveOn(row[a].event) :
    Before(y, a) /\ row[y].state \in Uploadable => a \notin UploadGroup(y)

-----------------------------------------------------------------------------
(* Appending an edit: enqueueCalendarOperation.  A create is always the    *)
(* first operation of its event, whose id is derived from it.  A delete    *)
(* hides the event from the user until Google has confirmed it; after that *)
(* only a pull can bring the event back.                                   *)

NewRow(e, k, p) ==
  [state |-> "pending", kind |-> k, event |-> e, at |-> clock, pred |-> p,
   ready |-> (p # None => row[p].state \in Done), due |-> TRUE,
   lease |-> None, prev |-> "none", leader |-> None]

Enqueue(o, e, k) ==
  /\ row[o].state = "absent"
  /\ OnEvent(e) # {} => k # "create"
  /\ \A p \in OnEvent(e) : row[p].kind = "delete" => row[p].state = "succeeded"
  /\ Cardinality(ActiveOn(e)) < ActiveChainLimit
  /\ \E p \in Ops \cup {None} :
       /\ IsLatest(p, e)
       /\ row' = [row EXCEPT ![o] = NewRow(e, k, p)]
  /\ clock' = clock + 1

-----------------------------------------------------------------------------
(* Leasing a batch of uploads: leaseOperations.                            *)

Candidates == {o \in Ops : row[o].state \in Uploadable /\ row[o].ready /\ row[o].due}

Cancels(o) == PredDone(o) /\ o \in CancelledOn(row[o].event)

Leads(o) == /\ PredDone(o)
            /\ o \notin CancelledOn(row[o].event)
            /\ LeadsUpload(o)

\* One upload per event, oldest first, until the batch is full.
Claimable == {o \in Candidates :
                /\ Leads(o)
                /\ \A p \in Candidates : Leads(p) /\ SameEvent(p, o) => row[o].at <= row[p].at}
Reached   == {o \in Candidates :
                LET taken == {p \in Claimable : row[p].at < row[o].at} IN
                /\ Cardinality(taken) < BatchLimit
                /\ \A p \in taken : ~SameEvent(p, o)}
Claimed   == Claimable \cap Reached
Cancelled == UNION {CancelledOn(row[o].event) : o \in {c \in Reached : Cancels(c)}}
Demoted   == {o \in Reached : ~Leads(o) /\ ~Cancels(o)}

LeasedRow(o, a, l) ==
  [row[o] EXCEPT !.state = "syncing", !.lease = l, !.leader = a, !.due = FALSE,
                 !.ready = (o = a),
                 !.prev = IF row[o].state = "syncing" THEN "ambiguous" ELSE row[o].state]

CancelledRow(o) == [row[o] EXCEPT !.state = "cancelled", !.ready = FALSE, !.due = TRUE]
DemotedRow(o)   == [row[o] EXCEPT !.ready = FALSE, !.due = TRUE]

\* Mutant: the successor's lease time is reset, its leaseReady forgotten.
UnlockedRowTimeOnly(o) == [row[o] EXCEPT !.due = TRUE]
UnlockedRow(o) == [row[o] EXCEPT !.ready = TRUE]

LeaseOperations(l) ==
  LET claimed   == Claimed
      cancelled == Cancelled
      demoted   == Demoted
      Group(o)  == {a \in claimed : o \in UploadGroup(a)}
  IN
  /\ Candidates # {}
  /\ \A o \in Ops : row[o].lease # l
  /\ row' = [o \in Ops |->
       IF Group(o) # {} THEN LeasedRow(o, CHOOSE a \in Group(o) : TRUE, l)
       ELSE IF o \in cancelled THEN CancelledRow(o)
       ELSE IF o \in demoted THEN DemotedRow(o)
       ELSE IF row[o].pred \in cancelled /\ row[o].state = "pending" THEN UnlockedRow(o)
       ELSE row[o]]
  /\ UNCHANGED clock

-----------------------------------------------------------------------------
(* Reporting an outcome.  The worker names the leader it was handed.       *)

HoldsLease(o, l) ==
  /\ row[o].state = "syncing"
  /\ row[o].lease = l
  /\ ~row[o].due
  /\ row[o].leader = o

LeasedGroup(o, l) ==
  {p \in Ops : row[p].state = "syncing" /\ row[p].lease = l /\ row[p].leader = o}

AcknowledgedRow(o) ==
  [row[o] EXCEPT !.state = "succeeded", !.ready = FALSE, !.due = TRUE,
                 !.lease = None, !.prev = "none", !.leader = None]

AmbiguousRow(o) ==
  [row[o] EXCEPT !.state = "ambiguous", !.ready = (row[o].leader = o), !.due = FALSE,
                 !.lease = None, !.prev = "none"]

\* Mutant: leasePreviousState is ignored.
RetriedRowFresh(o) ==
  [row[o] EXCEPT !.state = "pending", !.ready = (row[o].leader = o), !.due = FALSE,
                 !.lease = None, !.prev = "none"]

RetriedRow(o) ==
  [row[o] EXCEPT !.state = IF row[o].prev = "ambiguous" THEN "ambiguous" ELSE "pending",
                 !.ready = (row[o].leader = o), !.due = FALSE,
                 !.lease = None, !.prev = "none"]

RefusedRow(o, outcome) ==
  [row[o] EXCEPT !.state = outcome, !.ready = FALSE, !.due = TRUE,
                 !.lease = None, !.prev = "none", !.leader = None]

ConflictRow(o) ==
  [row[o] EXCEPT !.state = "conflict", !.ready = FALSE, !.lease = None, !.prev = "none"]

\* Mutant: settled rows are compared with the new baseline too.
RebasableSettled(e) == OnEvent(e)

\* What rebuildProjection may still turn into a conflict on e, when the new
\* baseline changes a field the edit changes too.
Rebasable(e) == {o \in OnEvent(e) : row[o].state \in Uploadable \cup {"failed"}}

\* recordRemoteSuccess: the group is acknowledged, its successors unlocked,
\* and the edits S of the event that overlap the receipt become conflicts.
RecordRemoteSuccess(o, l, S) ==
  LET G == LeasedGroup(o, l) IN
  /\ HoldsLease(o, l)
  /\ S \subseteq Rebasable(row[o].event) \ G
  /\ row[o].kind = "delete" => S = {}
  /\ row' = [p \in Ops |->
       CASE p \in G -> AcknowledgedRow(p)
         [] p \in S -> ConflictRow(p)
         [] p \notin S \cup G /\ row[p].pred \in G /\ row[p].state = "pending" ->
              UnlockedRow(p)
         [] OTHER -> row[p]]
  /\ UNCHANGED clock

RecordRemoteAmbiguous(o, l) ==
  /\ HoldsLease(o, l)
  /\ row' = [p \in Ops |-> IF p \in LeasedGroup(o, l) THEN AmbiguousRow(p) ELSE row[p]]
  /\ UNCHANGED clock

RecordRemoteRetry(o, l) ==
  /\ HoldsLease(o, l)
  /\ row' = [p \in Ops |-> IF p \in LeasedGroup(o, l) THEN RetriedRow(p) ELSE row[p]]
  /\ UNCHANGED clock

\* recordRemoteFailure and recordRemoteConflict: nobody unlocks the successors.
Refuse(o, l, outcome) ==
  /\ HoldsLease(o, l)
  /\ row' = [p \in Ops |-> IF p \in LeasedGroup(o, l) THEN RefusedRow(p, outcome) ELSE row[p]]
  /\ UNCHANGED clock

RecordRemoteFailure(o, l)  == Refuse(o, l, "failed")
RecordRemoteConflict(o, l) == Refuse(o, l, "conflict")

-----------------------------------------------------------------------------
(* Keeping and giving up a lease.                                          *)

Leased(l) == {o \in Ops : row[o].state = "syncing" /\ row[o].lease = l}

PostponedRow(o) == [row[o] EXCEPT !.due = FALSE]
DueRow(o)       == [row[o] EXCEPT !.due = TRUE]

\* heartbeatLease does not ask whether the lease has already expired.
HeartbeatLease(l) ==
  /\ Leased(l) # {}
  /\ row' = [o \in Ops |-> IF o \in Leased(l) THEN PostponedRow(o) ELSE row[o]]
  /\ UNCHANGED clock

\* Google may have committed before the receipt was stored: a released write
\* is in doubt whatever it was before.
ReleasedRow(o) ==
  [row[o] EXCEPT !.state = "ambiguous", !.ready = (row[o].leader \in {None, o}),
                 !.due = TRUE, !.lease = None, !.prev = "none"]

ReleaseLease(l) ==
  /\ Leased(l) # {}
  /\ row' = [o \in Ops |-> IF o \in Leased(l) THEN ReleasedRow(o) ELSE row[o]]
  /\ UNCHANGED clock

-----------------------------------------------------------------------------
(* A pull of the account's calendars meets the queue.                      *)

\* A pull reports only events that Google has, hence not those whose create
\* is still to be sent.
KnownToGoogle(e) ==
  \A o \in OnEvent(e) : row[o].kind = "create" => row[o].state \notin {"pending", "cancelled"}

\* rebuildProjection under applyRemotePage: the edits S of e change a field
\* that the pulled version changed too.
RemoteOverlap(e, S) ==
  /\ KnownToGoogle(e)
  /\ S # {} /\ S \subseteq Rebasable(e)
  /\ row' = [o \in Ops |-> IF o \in S THEN ConflictRow(o) ELSE row[o]]
  /\ UNCHANGED clock

\* The event was deleted at Google, or is missing from a full sync.
RemoteGone(e) ==
  /\ KnownToGoogle(e)
  /\ ActiveOn(e) # {}
  /\ row' = [o \in Ops |->
       IF o \in ActiveOn(e) THEN [ConflictRow(o) EXCEPT !.due = TRUE] ELSE row[o]]
  /\ UNCHANGED clock

-----------------------------------------------------------------------------
(* The clock passes nextLeaseAt: of a lease, or of a scheduled retry.      *)

LeaseExpires(l) ==
  /\ \E o \in Leased(l) : ~row[o].due
  /\ row' = [o \in Ops |-> IF o \in Leased(l) THEN DueRow(o) ELSE row[o]]
  /\ UNCHANGED clock

RetryComesDue(o) ==
  /\ row[o].state \in {"pending", "ambiguous"} /\ row[o].ready /\ ~row[o].due
  /\ row' = [p \in Ops |-> IF SameEvent(p, o) /\ row[p].state \in {"pending", "ambiguous"}
                           THEN DueRow(p) ELSE row[p]]
  /\ UNCHANGED clock

-----------------------------------------------------------------------------

Init ==
  /\ row = [o \in Ops |-> NoRow]
  /\ clock = 1

Answer(o, l) ==
  \/ \E S \in SUBSET Ops : RecordRemoteSuccess(o, l, S)
  \/ RecordRemoteAmbiguous(o, l)
  \/ RecordRemoteRetry(o, l)
  \/ RecordRemoteFailure(o, l)
  \/ RecordRemoteConflict(o, l)

Next ==
  \/ \E o \in Ops, e \in Events, k \in UserKinds : Enqueue(o, e, k)
  \/ \E l \in Leases : LeaseOperations(l)
  \/ \E o \in Ops, l \in Leases : Answer(o, l)
  \/ \E l \in Leases : HeartbeatLease(l)
  \/ \E l \in Leases : ReleaseLease(l)
  \/ \E e \in Events, S \in SUBSET Ops : RemoteOverlap(e, S)
  \/ \E e \in Events : RemoteGone(e)
  \/ \E l \in Leases : LeaseExpires(l)
  \/ \E o \in Ops : RetryComesDue(o)

Spec == Init /\ [][Next]_vars

-----------------------------------------------------------------------------
(* Safety.                                                                 *)

\* No edit is acknowledged, or given up as cancelled, while an earlier edit of
\* its event may still be sent or has failed (recordRemoteSuccess acknowledges
\* a whole group, leaseOperations cancels one).  An earlier edit that lost to
\* a remote change stays behind as a conflict.
NoOvertaking ==
  \A o, p \in Ops :
    Before(o, p) /\ row[p].state \in Done => row[o].state \in Done \cup {"conflict"}

\* At most one upload of an event has an unknown outcome: a later edit is never
\* handed to a worker beside, or after, one that Google may or may not hold.
OneOpenUpload ==
  \A o, p \in Ops :
    /\ SameEvent(o, p)
    /\ row[o].state \in InDoubt /\ row[p].state \in InDoubt
    => row[o].leader = row[p].leader

\* The materialized leaseReady flag tells the truth: whatever is leasable heads
\* its chain, so that the demotion of stale flags in leaseOperations finds
\* nothing to repair in rows this version wrote.
ReadyHeadsChain ==
  \A o, p \in Ops :
    row[p].ready /\ Before(o, p) => row[o].state \in Done \cup {"conflict"}

\* An edit whose outcome Google may already have decided is never offered to a
\* worker as a fresh write: the only way back to "pending" is a retry that the
\* holder of its first, unexpired lease reports.
Uncertain(r) == r.state = "ambiguous" \/ (r.state = "syncing" /\ r.prev = "ambiguous")

Reconciled(o) ==
  row[o].state \in InDoubt =>
    \/ Uncertain(row'[o])
    \/ row'[o].state \in {"succeeded", "conflict", "failed"}
    \/ /\ row[o].prev = "pending"
       /\ \/ row'[o].state = "syncing" /\ row'[o].lease = row[o].lease
          \/ row'[o].state = "pending" /\ ~row[row[o].leader].due

ReconciledBeforeReplay == [][\A o \in Ops : Reconciled(o)]_vars

-----------------------------------------------------------------------------
(* Liveness.  The worker keeps asking for work, the clock keeps running,   *)
(* and Google keeps answering some of the writes it is sent.               *)

Fairness ==
  /\ WF_vars(\E l \in Leases : LeaseOperations(l))
  /\ WF_vars(\E l \in Leases : LeaseExpires(l))
  /\ WF_vars(\E o \in Ops : RetryComesDue(o))
  /\ \A o \in Ops : SF_vars(\E l \in Leases : RecordRemoteSuccess(o, l, {}))

FairSpec == Spec /\ Fairness

Blocked(o) ==
  \E p \in Ops : (p = o \/ Before(p, o)) /\ row[p].state \in {"conflict", "failed"}

\* In the end every accepted edit is acknowledged or cancelled, and stays so,
\* unless it or an earlier edit of its event fails or conflicts: no leaseReady
\* flag is lost on the way through leases, crashes, retries and compaction.
EveryEditSettles ==
  <>[](\A o \in Ops : row[o].state \in Uploadable => Blocked(o))

-----------------------------------------------------------------------------
(* The inductive invariant behind the safety properties.                   *)

\* Rows are inserted in createdAt order, each behind the latest of its event;
\* a create is the first of its event.
ChainInv ==
  /\ \A o \in Ops : row[o].state = "absent" => row[o] = NoRow
  /\ \A o \in Ops : row[o].state # "absent" =>
       /\ row[o].event \in Events /\ row[o].kind \in Kinds
       /\ row[o].at < clock
       /\ row[o].pred = None => \A x \in Ops : ~Before(x, o)
       /\ row[o].pred # None =>
            /\ row[o].kind # "create"
            /\ Before(row[o].pred, o)
            /\ \A x \in Ops : Before(x, o) => row[x].at <= row[row[o].pred].at
  /\ \A o, p \in Ops :
       row[o].state # "absent" /\ row[p].state # "absent" /\ row[o].at = row[p].at => o = p

\* A ready row may be leased: its predecessor is settled, and it leads the
\* upload it stands in, if any.
ReadyInv ==
  \A o \in Ops : row[o].ready =>
    /\ PredDone(o)
    /\ \/ row[o].state = "pending"
       \/ row[o].state \in InDoubt /\ row[o].leader = o

LeaseInv ==
  \A o \in Ops :
    /\ row[o].state = "syncing" <=> row[o].lease # None
    /\ row[o].state = "syncing" <=> row[o].prev # "none"

\* Every row in doubt has a leader at or before it whose predecessor is
\* settled; only updates follow; and between leader and follower nothing is
\* left that could be leased on its own.
Led(o, a) ==
  /\ a \in Ops
  /\ a = o \/ (Before(a, o) /\ row[o].kind = "update")
  /\ PredDone(a)
  /\ row[a].state # "pending"
  /\ row[a].state \in InDoubt => row[a].leader = a
  /\ \A x \in Ops : Before(a, x) /\ Before(x, o) =>
       /\ row[x].state # "pending"
       /\ row[x].state \in InDoubt => row[x].leader = a

LeaderInv == \A o \in Ops : row[o].state \in InDoubt => Led(o, row[o].leader)

\* Rows under their leader's current lease were leased with it, and with
\* everything between them that has not become a conflict since.
Grouped(o, a) ==
  /\ row[a].prev = "pending" => row[o].lease = row[a].lease
  /\ row[o].lease = row[a].lease =>
       /\ row[o].prev = row[a].prev
       /\ \A x \in Ops : Before(a, x) /\ Before(x, o) =>
            \/ row[x].state = "conflict"
            \/ row[x].lease = row[a].lease /\ row[x].leader = a

GroupInv ==
  \A o \in Ops :
    row[o].state \in InDoubt /\ row[row[o].leader].state = "syncing" => Grouped(o, row[o].leader)

IInv ==
  /\ TypeOK
  /\ ChainInv
  /\ ReadyInv
  /\ LeaseInv
  /\ LeaderInv
  /\ GroupInv
  /\ NoOvertaking
  /\ OneOpenUpload
=============================================================================
