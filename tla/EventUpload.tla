------------------------------ MODULE EventUpload ------------------------------
(***************************************************************************)
(* One calendar event, from the user's edits to Google and back: the       *)
(* queued operations, their upload under etags, the answers that are lost, *)
(* late or refused, reconcileAmbiguous, the receipts, and the pulls that   *)
(* put a new baseline under the edits still pending.                       *)
(*                                                                         *)
(* The fields of an event are split into the groups that conflict as a     *)
(* whole (time, attendees, ...).  The value of a group is the number of    *)
(* the operation that wrote it, 0 at first, or a number above MaxOps for a *)
(* change made by another client.                                          *)
(***************************************************************************)
EXTENDS Naturals, Sequences, FiniteSets

CONSTANTS
  Groups,      \* conflict groups
  MaxOps,      \* bound: operations the user queues
  MaxForeign   \* bound: changes other clients make

ASSUME BoundsAssumption == MaxOps \in Nat /\ MaxForeign \in Nat

VARIABLES
  google,   \* the event at Google
  ops,      \* the event's operations, oldest first; each one's predecessor is the one before
  local,    \* the event's rows and what the last pull covered
  upload,   \* the worker's upload in progress
  late,     \* requests the worker no longer waits for
  history   \* what happened so far, for the properties

eventVars == <<google, ops, local, upload, late, history>>

OpIds  == 1..MaxOps
Values == 0..(MaxOps + MaxForeign)
Etags  == Nat

\* A remoteSnapshot and its etag; NoBase is an undefined one.
Snapshot == [etag : Etags, val : [Groups -> Values]]
NoBase   == [etag |-> 0, val |-> [g \in Groups |-> 0]]

Kinds   == {"create", "update", "delete"}
Active  == {"pending", "syncing", "ambiguous", "failed", "conflict"}
Settled == {"succeeded", "cancelled"}

Op == [kind  : Kinds,
       group : Groups,           \* the fields an update changes
       base  : Snapshot,         \* baseRemoteSnapshot and baseRemoteEtag
       etag  : Etags,            \* uploadBaseRemoteEtag, 0 if undefined
       state : Active \cup Settled,
       lead  : 0..MaxOps]        \* leaseLeaderOperationId, 0 if undefined

\* A write on its way to Google: val[g] = 0 leaves the group as it is.
Request == [lead : OpIds, kind : Kinds, etag : Etags, val : [Groups -> 0..MaxOps],
            members : SUBSET OpIds]

Asleep == [at |-> "idle", members |-> {}, lead |-> 0, from |-> "pending", etag |-> 0,
           answer |-> "none", seen |-> NoBase]

EventTypeOK ==
  /\ google \in [is : {"absent", "alive", "deleted"}, etag : Etags, val : [Groups -> Values]]
  /\ ops \in Seq(Op) /\ Len(ops) <= MaxOps
  /\ local \in [home : {"here", "google"},   \* where the event was created
                present : BOOLEAN,           \* its row
                base : Snapshot,             \* the row's remoteSnapshot and remoteEtag
                twin : BOOLEAN,              \* a second row, under a derived identity
                token : Etags]               \* the last change a pull covered
  /\ upload \in [at : {"idle", "lease", "reconcile", "send", "wait", "answered", "unsure"},
                 members : SUBSET OpIds, lead : 0..MaxOps, from : {"pending", "ambiguous"},
                 etag : Etags, answer : {"none", "ok", "conflict", "changed", "gone", "invalid", "retry"},
                 seen : Snapshot]
  /\ late \subseteq Request
  /\ history \in [applied : [OpIds -> Nat], foreign : 0..MaxForeign]

-----------------------------------------------------------------------------
(* Operations and their projection.                                        *)

Positions   == 1..Len(ops)
ActiveOps   == {n \in Positions : ops[n].state \in Active}
ByKind(S, k)    == {n \in S : ops[n].kind = k}
Has(snapshot)   == snapshot.etag # 0
Here            == [etag |-> google.etag, val |-> google.val]

\* planCalendarOperationUploads: the operations one upload stands for.  Updates
\* that are pending in a row are one upload, and a create takes the pending
\* updates after it along; what has been sent together stays together.
Joins(n, k) ==
  IF ops[n].state = "pending" THEN ops[k].state = "pending"
  ELSE ops[k].state = ops[n].state /\ ops[n].lead # 0 /\ ops[k].lead = ops[n].lead

UploadGroup(n) ==
  IF ops[n].kind = "delete" THEN {n}
  ELSE {n} \cup {k \in (n + 1)..Len(ops) :
                   \A j \in (n + 1)..k : ops[j].kind = "update" /\ Joins(n, j)}

\* A create that was never sent and its delete cancel each other.
CancelGroup(n) ==
  LET G == UploadGroup(n)
      k == n + Cardinality(G) IN
  IF ops[n].kind = "create" /\ k <= Len(ops) /\ ops[k].kind = "delete" /\ Joins(n, k)
  THEN G \cup {k} ELSE {}

\* What an upload writes: in each group, its last operation.
Last(S) == CHOOSE n \in S : \A m \in S : m <= n

Patch(G) ==
  [g \in Groups |->
     LET writers == {n \in G : ops[n].kind = "update" /\ ops[n].group = g} IN
     IF writers # {} THEN Last(writers)
     ELSE IF ByKind(G, "create") # {} THEN Last(ByKind(G, "create")) ELSE 0]

InState(G, s, lead) ==
  [n \in Positions |-> IF n \in G THEN [ops[n] EXCEPT !.state = s, !.lead = lead] ELSE ops[n]]

\* Mutant: a new baseline conflicts with no edit.
RebasedBlindly(list, old, new) ==
  [n \in DOMAIN list |->
     IF list[n].state \in {"pending", "ambiguous", "failed"} /\ Has(list[n].base)
     THEN [list[n] EXCEPT !.etag = new.etag] ELSE list[n]]

\* rebuildProjection: edits of a group that differs from the old baseline are in
\* conflict, and the others will be uploaded against the new one.
Rebased(list, old, new) ==
  [n \in DOMAIN list |->
     IF /\ Has(old) /\ list[n].kind = "update" /\ old.val[list[n].group] # new.val[list[n].group]
        /\ list[n].state \in {"pending", "syncing", "ambiguous", "failed"}
     THEN [list[n] EXCEPT !.state = "conflict"]
     ELSE IF list[n].state \in {"pending", "ambiguous", "failed"} /\ Has(list[n].base)
     THEN [list[n] EXCEPT !.etag = new.etag]
     ELSE list[n]]

\* The row under a baseline: none if an active operation deletes the event.
Projected(list, snapshot) ==
  LET shown == \A n \in DOMAIN list : list[n].kind = "delete" => list[n].state \notin Active IN
  [local EXCEPT !.present = shown, !.base = IF shown THEN snapshot ELSE NoBase]

OldBase == IF local.present THEN local.base ELSE NoBase

-----------------------------------------------------------------------------
(* The user.                                                               *)

Queued(kind, g) ==
  [kind |-> kind, group |-> g, base |-> local.base, etag |-> local.base.etag,
   state |-> "pending", lead |-> 0]

Create ==
  /\ local.home = "here" /\ ops = <<>> /\ MaxOps > 0
  /\ \E g \in Groups : ops' = <<Queued("create", g)>>
  /\ local' = [local EXCEPT !.present = TRUE]
  /\ UNCHANGED <<google, upload, late, history>>

Update(g) ==
  /\ local.present /\ Len(ops) < MaxOps
  /\ ops' = Append(ops, Queued("update", g))
  /\ UNCHANGED <<google, local, upload, late, history>>

Delete ==
  /\ local.present /\ Len(ops) < MaxOps
  /\ \E g \in Groups : ops' = Append(ops, Queued("delete", g))
  /\ local' = [local EXCEPT !.present = FALSE, !.base = NoBase]
  /\ UNCHANGED <<google, upload, late, history>>

-----------------------------------------------------------------------------
(* Other clients, and Google's handling of a write.                        *)

ForeignWrite(g) ==
  /\ google.is = "alive" /\ history.foreign < MaxForeign
  /\ google' = [google EXCEPT !.etag = @ + 1, !.val[g] = MaxOps + history.foreign + 1]
  /\ history' = [history EXCEPT !.foreign = @ + 1]
  /\ UNCHANGED <<ops, local, upload, late>>

ForeignDelete ==
  /\ google.is = "alive" /\ history.foreign < MaxForeign
  /\ google' = [google EXCEPT !.etag = @ + 1, !.is = "deleted"]
  /\ history' = [history EXCEPT !.foreign = @ + 1]
  /\ UNCHANGED <<ops, local, upload, late>>

\* A create carries an event id that is used once; other writes carry If-Match.
Accepts(r) ==
  IF r.kind = "create" THEN google.is = "absent"
  ELSE google.is = "alive" /\ google.etag = r.etag

Commit(r) ==
  /\ google' = [is   |-> IF r.kind = "delete" THEN "deleted" ELSE "alive",
                etag |-> google.etag + 1,
                val  |-> [g \in Groups |-> IF r.val[g] = 0 THEN google.val[g] ELSE r.val[g]]]
  /\ history' = [history EXCEPT !.applied =
                   [n \in OpIds |-> IF n \in r.members THEN @[n] + 1 ELSE @[n]]]

Receives(r) == IF Accepts(r) THEN Commit(r) ELSE UNCHANGED <<google, history>>

-----------------------------------------------------------------------------
(* A cycle starts with a pull.                                             *)

\* localIdentityForRemoteEvent: the row is found by its provider event id, which
\* a create has from the start; an event that came from Google has the derived
\* identity anyway.
FindsRow == local.present \/ local.home = "google"

\* applyRemotePage for a live event.
PullLive ==
  IF FindsRow
  THEN /\ ops' = Rebased(ops, OldBase, Here)
       /\ local' = [Projected(ops, Here) EXCEPT !.token = google.etag, !.twin = FALSE]
  ELSE /\ local' = [local EXCEPT !.token = google.etag, !.twin = TRUE]
       /\ UNCHANGED ops

\* Mutant: the row of a deleted event stays, whether or not it has edits.
Stays == TRUE

\* A deleted event keeps its row as long as edits of it are active.
KeepsRow == ActiveOps # {}

\* applyRemotePage for a deleted one.
PullDeleted ==
  IF FindsRow
  THEN /\ ops' = [n \in Positions |-> IF n \in ActiveOps
                                      THEN [ops[n] EXCEPT !.state = "conflict"] ELSE ops[n]]
       /\ local' = [local EXCEPT !.token = google.etag, !.twin = FALSE,
                                 !.present = @ /\ KeepsRow,
                                 !.base = IF KeepsRow THEN @ ELSE NoBase]
  ELSE /\ local' = [local EXCEPT !.token = google.etag, !.twin = FALSE]
       /\ UNCHANGED ops

Pull ==
  /\ upload.at = "idle"
  /\ IF google.etag = local.token THEN UNCHANGED <<ops, local>>
     ELSE IF google.is = "alive" THEN PullLive ELSE PullDeleted
  /\ upload' = [Asleep EXCEPT !.at = "lease"]
  /\ UNCHANGED <<google, late, history>>

-----------------------------------------------------------------------------
(* leaseOperations and the upload.                                         *)

\* Mutant: a write in doubt is not taken up again.
LeaderPending(n) ==
  /\ n \in Positions /\ ops[n].state = "pending"
  /\ \A m \in 1..(n - 1) : ops[m].state \in Settled

\* The first unsettled operation, if it can be uploaded at all.
Leader(n) ==
  /\ n \in Positions /\ ops[n].state \in {"pending", "ambiguous"}
  /\ \A m \in 1..(n - 1) : ops[m].state \in Settled

\* An ambiguous operation that is not the leader of its group is never leased.
Leasable(n) == Leader(n) /\ (ops[n].state = "ambiguous" => ops[n].lead = n)

Lease(n) ==
  /\ upload.at = "lease" /\ Leasable(n) /\ CancelGroup(n) = {}
  /\ ops' = InState(UploadGroup(n), "syncing", n)
  /\ upload' = [Asleep EXCEPT
       !.at = IF ops[n].state = "ambiguous" THEN "reconcile" ELSE "send",
       !.members = UploadGroup(n), !.lead = n, !.from = ops[n].state, !.etag = ops[n].etag]
  /\ UNCHANGED <<google, local, late, history>>

CancelUnsent(n) ==
  /\ upload.at = "lease" /\ Leasable(n) /\ CancelGroup(n) # {}
  /\ ops' = InState(CancelGroup(n), "cancelled", 0)
  /\ upload' = Asleep
  /\ UNCHANGED <<google, local, late, history>>

NothingToLease ==
  /\ upload.at = "lease" /\ \A n \in Positions : ~Leasable(n)
  /\ upload' = Asleep
  /\ UNCHANGED <<google, ops, local, late, history>>

Writing == [lead |-> upload.lead, kind |-> ops[upload.lead].kind, etag |-> upload.etag,
            val |-> Patch(upload.members), members |-> upload.members]

\* executeWrite: anything but a create needs a remote event id and an etag.
Send ==
  /\ upload.at = "send"
  /\ upload' = IF ops[upload.lead].kind # "create" /\ upload.etag = 0
               THEN [upload EXCEPT !.at = "answered", !.answer = "invalid"]
               ELSE [upload EXCEPT !.at = "wait"]
  /\ UNCHANGED <<google, ops, local, late, history>>

\* classifyHttpError, for a write that Google does not take: 409 or 412, and 404 or
\* 410 for an event that is deleted.
Refusals(r) ==
  IF r.kind = "create" \/ google.is = "alive" THEN {"conflict"} ELSE {"gone", "retry"}

\* The answer arrives.
Answered ==
  /\ upload.at = "wait"
  /\ Receives(Writing)
  /\ \E answer \in IF Accepts(Writing) THEN {"ok"} ELSE Refusals(Writing) :
       upload' = [upload EXCEPT !.at = "answered", !.answer = answer,
                                !.seen = [etag |-> google'.etag, val |-> google'.val]]
  /\ UNCHANGED <<ops, local, late>>

\* A rate limit, an expired token, or a request Google finds invalid.
TurnedDown(answer) ==
  /\ upload.at = "wait"
  /\ upload' = [upload EXCEPT !.at = "answered", !.answer = answer]
  /\ UNCHANGED <<google, ops, local, late, history>>

\* Google handles the request and its answer is lost.
AnswerLost ==
  /\ upload.at = "wait"
  /\ Receives(Writing)
  /\ upload' = [upload EXCEPT !.at = "unsure"]
  /\ UNCHANGED <<ops, local, late>>

\* The worker stops waiting, and the request may still arrive.
TimesOut ==
  /\ upload.at = "wait"
  /\ late' = late \cup {Writing}
  /\ upload' = [upload EXCEPT !.at = "unsure"]
  /\ UNCHANGED <<google, ops, local, history>>

LateArrives(r) ==
  /\ r \in late
  /\ late' = late \ {r}
  /\ Receives(r)
  /\ UNCHANGED <<ops, local, upload>>

-----------------------------------------------------------------------------
(* reconcileAmbiguous: look before writing again.                          *)

\* Mutant: a write counts as done when the event is there.
FoundBlindly == google.is = "alive"

\* eventMatchesWrite, or for a create the event with its operation's id.
FoundInPlace ==
  CASE Writing.kind = "create" -> google.is = "alive"
    [] Writing.kind = "update" ->
         google.is = "alive" /\ \A g \in Groups : Writing.val[g] \in {0, google.val[g]}
    [] OTHER -> google.is = "deleted"

FoundChanged ==
  Writing.kind # "create" /\ google.is = "alive" /\ google.etag # upload.etag

\* An operation without a remote event id cannot be looked for.
CanLook == ops[upload.lead].kind = "create" \/ upload.etag # 0

Reconcile ==
  /\ upload.at \in {"reconcile", "unsure"}
  /\ upload' =
       IF CanLook /\ FoundInPlace
       THEN [upload EXCEPT !.at = "answered", !.answer = "ok", !.seen = Here]
       ELSE IF CanLook /\ FoundChanged
       THEN [upload EXCEPT !.at = "answered", !.answer = "changed", !.seen = Here]
       ELSE IF upload.at = "reconcile" THEN [upload EXCEPT !.at = "send"]
       ELSE [upload EXCEPT !.at = "answered", !.answer = "retry", !.from = "ambiguous"]
  /\ UNCHANGED <<google, ops, local, late, history>>

\* The look fails too: recordRemoteAmbiguous, or recordRemoteRetry.
ReconcileFails ==
  /\ upload.at \in {"reconcile", "unsure"}
  /\ upload' = [upload EXCEPT !.at = "answered", !.answer = "retry", !.from = "ambiguous"]
  /\ UNCHANGED <<google, ops, local, late, history>>

-----------------------------------------------------------------------------
(* The outcome is recorded under the lease.                                *)

RecordSuccess ==
  /\ upload.at = "answered"
  /\ \/ upload.answer = "ok"
     \/ upload.answer = "gone" /\ ops[upload.lead].kind = "delete"
  /\ LET done == InState(upload.members, "succeeded", 0) IN
     IF ops[upload.lead].kind = "delete"
     THEN ops' = done /\ local' = [local EXCEPT !.present = FALSE, !.base = NoBase]
     ELSE /\ ops' = Rebased(done, OldBase, upload.seen)
          /\ local' = Projected(done, upload.seen)
  /\ upload' = Asleep
  /\ UNCHANGED <<google, late, history>>

\* A refused etag or id: the event is fetched.  A create finds itself by its
\* operation's id; anything else becomes a conflict with Google's version.
FetchCurrent ==
  /\ upload.at = "answered" /\ upload.answer = "conflict"
  /\ upload' = [upload EXCEPT !.seen = Here,
       !.answer = IF google.is # "alive" THEN "invalid"
                  ELSE IF ops[upload.lead].kind = "create" THEN "ok" ELSE "changed"]
  /\ UNCHANGED <<google, ops, local, late, history>>

\* A create that cannot be looked for fails with the id's conflict.
FetchFails ==
  /\ upload.at = "answered" /\ upload.answer = "conflict"
  /\ ops[upload.lead].kind = "create"
  /\ upload' = [upload EXCEPT !.answer = "invalid"]
  /\ UNCHANGED <<google, ops, local, late, history>>

\* recordRemoteConflict: Google's version becomes the baseline of the row.
RecordConflict ==
  /\ upload.at = "answered" /\ upload.answer = "changed"
  /\ LET lost == InState(upload.members, "conflict", 0) IN
     /\ ops' = lost
     /\ local' = IF Has(ops[upload.lead].base) THEN Projected(lost, upload.seen) ELSE local
  /\ upload' = Asleep
  /\ UNCHANGED <<google, late, history>>

RecordFailure ==
  /\ upload.at = "answered"
  /\ \/ upload.answer = "invalid"
     \/ upload.answer = "gone" /\ ops[upload.lead].kind # "delete"
  /\ ops' = InState(upload.members, "failed", 0)
  /\ upload' = Asleep
  /\ UNCHANGED <<google, local, late, history>>

\* Mutant: what is to be tried again is pending again.
RetriedAsPending == "pending"

\* What was in doubt before stays in doubt.
RetryState == upload.from

RecordRetry ==
  /\ upload.at = "answered" /\ upload.answer = "retry"
  /\ ops' = InState(upload.members, RetryState, upload.lead)
  /\ upload' = Asleep
  /\ UNCHANGED <<google, local, late, history>>

\* The process dies or the lease expires: the outcome is in doubt.
WorkerDies ==
  /\ upload.at \notin {"idle", "lease"}
  /\ ops' = InState(upload.members, "ambiguous", upload.lead)
  /\ late' = IF upload.at = "wait" THEN late \cup {Writing} ELSE late
  /\ upload' = Asleep
  /\ UNCHANGED <<google, local, history>>

-----------------------------------------------------------------------------

EventInit ==
  /\ \E home \in {"here", "google"} :
       LET known == home = "google" IN
       /\ google = [is |-> IF known THEN "alive" ELSE "absent",
                    etag |-> IF known THEN 1 ELSE 0, val |-> [g \in Groups |-> 0]]
       /\ local = [home |-> home, present |-> known, twin |-> FALSE,
                   base |-> [NoBase EXCEPT !.etag = IF known THEN 1 ELSE 0],
                   token |-> IF known THEN 1 ELSE 0]
  /\ ops = <<>>
  /\ upload = Asleep
  /\ late = {}
  /\ history = [applied |-> [n \in OpIds |-> 0], foreign |-> 0]

User    == Create \/ (\E g \in Groups : Update(g)) \/ Delete
Foreign == (\E g \in Groups : ForeignWrite(g)) \/ ForeignDelete

Trouble ==
  \/ \E answer \in {"retry", "invalid"} : TurnedDown(answer)
  \/ AnswerLost
  \/ TimesOut
  \/ ReconcileFails
  \/ FetchFails
  \/ WorkerDies

Upload ==
  \/ \E n \in OpIds : Lease(n) \/ CancelUnsent(n)
  \/ NothingToLease
  \/ Send
  \/ Answered
  \/ Reconcile
  \/ RecordSuccess \/ FetchCurrent \/ RecordConflict \/ RecordFailure \/ RecordRetry

EventNext == User \/ Foreign \/ Pull \/ Upload \/ Trouble \/ (\E r \in late : LateArrives(r))

EventSpec == EventInit /\ [][EventNext]_eventVars
-----------------------------------------------------------------------------
(* Safety.                                                                 *)

DeletedSince(n) == \E m \in n..Len(ops) : ops[m].kind = "delete"

\* A write takes effect at Google at most once, however often it is sent again
\* after lost and late answers and deaths of the worker, as long as the user does
\* not delete the event: without a row a pull has nothing to compare with.  What is
\* recorded as done was done, every edit of the upload included, and what is
\* recorded as cancelled was never done.
RecordedTruly ==
  \A n \in Positions :
    /\ history.applied[n] <= 1 \/ DeletedSince(n)
    /\ ops[n].state = "succeeded" =>
         history.applied[n] > 0 \/ (ops[n].kind = "delete" /\ google.is = "deleted")
    /\ ops[n].state = "cancelled" => history.applied[n] = 0

\* An update never overwrites another client's change of the same group, unless
\* the user had that change before his eyes when he made the edit, or has deleted
\* the event since.
NoSilentOverwrite ==
  [][\A g \in Groups :
       LET n == google'.val[g] IN
       n \in OpIds /\ google.val[g] > MaxOps =>
         \/ ops[n].base.val[g] = google.val[g]
         \/ DeletedSince(n)]_eventVars

\* The event is never shown twice; and once every edit is settled and the pull has
\* seen the last change, the row shows what Google has.
InStep ==
  /\ ~(local.present /\ local.twin)
  /\ (/\ ActiveOps = {} /\ upload.at = "idle"
      /\ local.token = google.etag /\ google.is # "absent")
     => IF google.is = "alive" THEN local.twin \/ (local.present /\ local.base = Here)
        ELSE ~local.twin /\ ~local.present

-----------------------------------------------------------------------------
(* Liveness.  The worker goes on, and after some time there is no trouble. *)

FairEventSpec == EventSpec /\ WF_eventVars(Pull) /\ WF_eventVars(Upload) /\ <>[][~Trouble]_eventVars

AtRest(n) == ops[n].state \in Settled \/ \E m \in 1..n : ops[m].state \in {"failed", "conflict"}

\* In the end every edit is settled, and stays so, unless it or one before it has
\* failed or is in conflict, or the event is deleted at Google.
EditsSettle == <>[](google.is = "deleted" \/ \A n \in DOMAIN ops : AtRest(n))
=============================================================================
