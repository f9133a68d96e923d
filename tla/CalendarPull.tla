----------------------------- MODULE CalendarPull -----------------------------
(***************************************************************************)
(* One calendar of one account is kept in step with Google: the worker's   *)
(* pullWithToken and the broker's beginRemoteFullSync, applyRemotePage and *)
(* completeRemoteSync, while the user edits, other clients write to        *)
(* Google, and the worker may die or fail between any two calls.           *)
(*                                                                         *)
(* Google numbers the changes of the calendar; a sync token stands for the *)
(* number of changes it covers, and the version of an event is the number  *)
(* of its last change.  A full listing covers a window of time, which      *)
(* events leave as the clock runs.  The edits of an event are one value:   *)
(* none active, some still open, or stuck in conflict or failure.          *)
(***************************************************************************)
EXTENDS Naturals, FiniteSets

CONSTANTS
  Events,          \* events of the calendar
  NoToken,         \* the calendar has no sync token
  PassLimit,       \* MAX_FINALIZE_PASSES
  MaxChanges,      \* bound: changes made at Google
  MaxGeneration    \* bound: full syncs begun

ASSUME EventsAssumption  == IsFiniteSet(Events)
ASSUME NoTokenAssumption == NoToken \notin Nat
ASSUME LimitAssumption   == PassLimit \in Nat /\ MaxChanges \in Nat /\ MaxGeneration \in Nat

VARIABLES
  google,    \* Google's calendar: its clock and, per event, version and liveness
  row,       \* the events table, by event
  calendar,  \* syncToken and syncGeneration of the calendar's row
  worker     \* the worker's progress through one cycle

vars == <<google, row, calendar, worker>>

NoRow == [present |-> FALSE, base |-> 0, stamp |-> 0, edits |-> "none", deleting |-> FALSE]

Row == [present  : BOOLEAN,                    \* the row exists
        base     : Nat,                        \* version of remoteSnapshot, 0 if undefined;
                                               \* without a row, of the delete's upload base
        stamp    : Nat,                        \* syncGeneration, 0 if undefined
        edits    : {"none", "open", "stuck"},  \* the event's active operations
        deleting : BOOLEAN]                    \* the last operation is a delete

\* The active edits of the row end in conflict or in failure.
Stuck(r) == [r EXCEPT !.edits = "stuck"]

\* A version of Google's becomes the baseline, under the edits that remain.
Rebased(r, v, rest) == [r EXCEPT !.base = v, !.edits = rest]

NotListed == [version |-> 0, alive |-> FALSE]

Idle == [at |-> "idle", generation |-> 0, listing |-> [e \in Events |-> NotListed],
         todo |-> {}, next |-> 0, passes |-> 0]

TypeOK ==
  /\ google \in [clock : Nat, version : [Events -> Nat], alive : [Events -> BOOLEAN],
                 shown : [Events -> BOOLEAN]]
  /\ row \in [Events -> Row]
  /\ calendar \in [token : Nat \cup {NoToken}, generation : Nat]
  /\ worker \in [at : {"idle", "begin", "list", "apply", "finish", "upload", "gaveup"},
                 generation : Nat, todo : SUBSET Events, next : Nat, passes : Nat,
                 listing : [Events -> [version : Nat, alive : BOOLEAN]]]

-----------------------------------------------------------------------------
(* Google, and the other clients of the calendar.                          *)

Written(e, live) ==
  [clock   |-> google.clock + 1,
   version |-> [google.version EXCEPT ![e] = google.clock + 1],
   alive   |-> [google.alive EXCEPT ![e] = live],
   shown   |-> google.shown]

\* Someone else creates, changes or deletes the event.
RemoteWrite(e, live) ==
  /\ google.clock < MaxChanges
  /\ live \/ google.alive[e]
  /\ row[e].base = 0 => row[e] = NoRow
  /\ google' = Written(e, live)
  /\ UNCHANGED <<row, calendar, worker>>

\* Time passes and the event leaves the window of a full listing.
LeaveWindow(e) ==
  /\ google.shown[e]
  /\ google' = [google EXCEPT !.shown[e] = FALSE]
  /\ UNCHANGED <<row, calendar, worker>>

-----------------------------------------------------------------------------
(* The user.                                                               *)

\* A local create: a row without a baseline, and its first operation.
CreateLocally(e) ==
  /\ google.version[e] = 0 /\ row[e] = NoRow
  /\ row' = [row EXCEPT ![e] = [NoRow EXCEPT !.present = TRUE, !.edits = "open"]]
  /\ UNCHANGED <<google, calendar, worker>>

EditLocally(e) ==
  /\ row[e].present /\ row[e].edits = "none"
  /\ row' = [row EXCEPT ![e].edits = "open"]
  /\ UNCHANGED <<google, calendar, worker>>

\* The projection of a deleted event is null, so its row goes; deleting an
\* event that Google has not been sent cancels its create, and its identity is
\* never used again.
DeleteLocally(e) ==
  /\ row[e].present
  /\ row' = [row EXCEPT ![e] =
       IF row[e].base = 0 /\ row[e].edits = "open" THEN [NoRow EXCEPT !.deleting = TRUE]
       ELSE [row[e] EXCEPT !.present = FALSE, !.stamp = 0, !.deleting = TRUE,
                           !.edits = IF row[e].edits = "stuck" THEN "stuck" ELSE "open"]]
  /\ UNCHANGED <<google, calendar, worker>>

-----------------------------------------------------------------------------
(* The pull half of a cycle: pullWithToken.                                *)

\* listSyncCalendars, after applyRemoteCalendars.
StartPull ==
  /\ worker.at \in {"idle", "gaveup"}
  /\ worker' = [Idle EXCEPT !.at = IF calendar.token = NoToken THEN "begin" ELSE "list"]
  /\ UNCHANGED <<google, row, calendar>>

\* Another full sync is within the bound.
MayRestart == calendar.generation < MaxGeneration

\* applyRemoteCalendars: the calendar is no longer accessible.
ForgetToken ==
  /\ worker.at \in {"idle", "gaveup"}
  /\ calendar.token # NoToken /\ MayRestart
  /\ calendar' = [calendar EXCEPT !.token = NoToken]
  /\ UNCHANGED <<google, row, worker>>

BeginRemoteFullSync ==
  /\ worker.at = "begin" /\ MayRestart
  /\ calendar' = [token |-> NoToken, generation |-> calendar.generation + 1]
  /\ worker' = [worker EXCEPT !.at = "list", !.generation = calendar.generation + 1]
  /\ UNCHANGED <<google, row>>

Changed(t) == {e \in Events : google.version[e] > t}
Shown      == {e \in Events : google.version[e] > 0 /\ google.shown[e]}

\* listEventChanges: a snapshot; deleted events are listed too.
ListEventChanges ==
  /\ worker.at = "list"
  /\ LET found == IF worker.generation = 0 THEN Changed(calendar.token) ELSE Shown IN
     worker' = [worker EXCEPT
       !.at = "apply", !.todo = found, !.next = google.clock,
       !.listing = [e \in Events |->
          IF e \in found THEN [version |-> google.version[e], alive |-> google.alive[e]]
          ELSE NotListed]]
  /\ UNCHANGED <<google, row, calendar>>

\* 410 Gone: the token is too old, and a full sync takes over.
SyncTokenExpired ==
  /\ worker.at = "list" /\ worker.generation = 0 /\ MayRestart
  /\ worker' = [worker EXCEPT !.at = "begin"]
  /\ UNCHANGED <<google, row, calendar>>

\* Mutant: the page leaves the row's generation alone.
PulledUnstamped(r, v, outcome) ==
  [r EXCEPT !.present = ~r.deleting, !.base = v, !.edits = outcome]

\* rebuildProjection: a new baseline under the active edits; no row if they
\* end in a delete.
Pulled(r, v, outcome) ==
  [r EXCEPT !.present = ~r.deleting, !.base = v, !.edits = outcome,
            !.stamp = IF worker.generation = 0 THEN @ ELSE worker.generation]

\* An event deleted at Google stays as long as local edits are active.
Removed(r) == IF r.edits = "none" THEN NoRow ELSE Stuck(r)

\* A new baseline may or may not overlap the edits that are still open; without
\* a row there is no old baseline to compare it with.
Outcomes(r) == IF r.edits = "open" /\ r.present THEN {"open", "stuck"} ELSE {r.edits}

SameGeneration == worker.generation # 0 => calendar.generation = worker.generation

\* A page of one event.
ApplyRemotePage(e) ==
  /\ worker.at = "apply" /\ e \in worker.todo
  /\ SameGeneration
  /\ \E outcome \in Outcomes(row[e]) :
       row' = [row EXCEPT ![e] = IF worker.listing[e].alive
                                 THEN Pulled(row[e], worker.listing[e].version, outcome)
                                 ELSE Removed(row[e])]
  /\ worker' = [worker EXCEPT !.todo = @ \ {e}]
  /\ UNCHANGED <<google, calendar>>

Stale == {e \in Events : row[e].present /\ row[e].stamp < worker.generation}

\* Mutant: a local create stays stale.
SweptUnstamped(r) ==
  IF r.base = 0 THEN r ELSE Removed(r)

\* A row the listing did not mention: a local create waits for its upload, and
\* anything else is missing at Google.
Swept(r) ==
  IF r.base = 0 THEN [r EXCEPT !.stamp = worker.generation]
  ELSE Removed(r)

\* Mutant: the token is taken when the first page has been applied.
AllAppliedEarly == worker.todo = {} \/ Cardinality(worker.todo) < Cardinality(Events)
AllApplied      == worker.todo = {}

\* One pass of completeRemoteSync, MAX_REMOTE_PAGE being more than all rows.
SweepStale ==
  /\ worker.at = "apply" /\ AllApplied /\ worker.generation # 0
  /\ SameGeneration
  /\ Stale # {}
  /\ row' = [e \in Events |-> IF e \in Stale THEN Swept(row[e]) ELSE row[e]]
  /\ worker' = [worker EXCEPT !.passes = @ + 1,
                              !.at = IF worker.passes + 1 = PassLimit THEN "gaveup" ELSE @]
  /\ UNCHANGED <<google, calendar>>

\* Nothing is stale: the token is stored, and the uploads follow.
CompleteRemoteSync ==
  /\ worker.at = "apply" /\ AllApplied
  /\ SameGeneration
  /\ worker.generation # 0 => Stale = {}
  /\ calendar' = [calendar EXCEPT !.token = worker.next]
  /\ worker' = [Idle EXCEPT !.at = "upload"]
  /\ UNCHANGED <<google, row>>

\* A call of the cycle fails, or the process dies: nothing of the worker's
\* progress survives.
CycleFails ==
  /\ worker.at \in {"begin", "list", "apply", "upload"}
  /\ worker.generation # 0 => MayRestart
  /\ worker' = Idle
  /\ UNCHANGED <<google, row, calendar>>

-----------------------------------------------------------------------------
(* The upload half of the cycle, in its effect on rows and versions.       *)

Uploading(e) == worker.at = "upload" /\ row[e].edits = "open"

\* Google takes the write and its receipt becomes the baseline; edits that
\* were queued meanwhile remain, or overlap it.
UploadSucceeds(e, rest) ==
  /\ Uploading(e) /\ google.clock < MaxChanges
  /\ row[e].base = google.version[e]
  /\ IF row[e].base = 0 THEN rest # "stuck" ELSE google.alive[e]
  /\ google' = Written(e, ~row[e].deleting)
  /\ row' = [row EXCEPT ![e] =
       IF row[e].deleting THEN NoRow
       ELSE Rebased(row[e], google.clock + 1, rest)]
  /\ UNCHANGED <<calendar, worker>>

\* Google takes the write, and its receipt is lost.  (A create whose receipt is
\* lost is the subject of EventUpload.)
ReceiptLost(e) ==
  /\ Uploading(e) /\ google.clock < MaxChanges
  /\ row[e].base # 0 /\ row[e].base = google.version[e] /\ google.alive[e]
  /\ google' = Written(e, ~row[e].deleting)
  /\ UNCHANGED <<row, calendar, worker>>

\* reconcileAmbiguous finds the write in place.
UploadReconciled(e) ==
  /\ Uploading(e) /\ row[e].base # 0
  /\ row[e].deleting <=> ~google.alive[e]
  /\ row' = [row EXCEPT ![e] =
       IF row[e].deleting THEN NoRow
       ELSE Rebased(row[e], google.version[e], "none")]
  /\ UNCHANGED <<google, calendar, worker>>

\* The event has changed at Google: recordRemoteConflict makes Google's version
\* the baseline of the row, if the event still has one, and the replacement drops
\* the row's generation.
UploadConflicts(e) ==
  /\ Uploading(e) /\ row[e].base # 0
  /\ google.alive[e] /\ row[e].base # google.version[e]
  /\ row' = [row EXCEPT ![e] =
       IF row[e].deleting THEN Stuck(row[e])
       ELSE [Rebased(row[e], google.version[e], "stuck") EXCEPT !.stamp = 0]]
  /\ UNCHANGED <<google, calendar, worker>>

\* Google refuses the write for good, or the event is gone.
UploadFails(e) ==
  /\ Uploading(e)
  /\ row' = [row EXCEPT ![e] = Stuck(row[e])]
  /\ UNCHANGED <<google, calendar, worker>>

EndCycle ==
  /\ worker.at = "upload"
  /\ worker' = Idle
  /\ UNCHANGED <<google, row, calendar>>

-----------------------------------------------------------------------------

Init ==
  /\ google = [clock |-> 0, version |-> [e \in Events |-> 0],
               alive |-> [e \in Events |-> FALSE], shown |-> [e \in Events |-> TRUE]]
  /\ row = [e \in Events |-> NoRow]
  /\ calendar = [token |-> NoToken, generation |-> 0]
  /\ worker = Idle

Others ==
  \/ \E e \in Events, live \in BOOLEAN : RemoteWrite(e, live)
  \/ \E e \in Events : LeaveWindow(e)
  \/ \E e \in Events : CreateLocally(e)
  \/ \E e \in Events : EditLocally(e)
  \/ \E e \in Events : DeleteLocally(e)

Pull ==
  \/ StartPull
  \/ BeginRemoteFullSync
  \/ ListEventChanges
  \/ \E e \in Events : ApplyRemotePage(e)
  \/ SweepStale
  \/ CompleteRemoteSync

Upload ==
  \/ \E e \in Events, rest \in {"none", "open", "stuck"} : UploadSucceeds(e, rest)
  \/ \E e \in Events : ReceiptLost(e)
  \/ \E e \in Events : UploadReconciled(e)
  \/ \E e \in Events : UploadConflicts(e)
  \/ \E e \in Events : UploadFails(e)

Next == Others \/ Pull \/ Upload \/ EndCycle \/ SyncTokenExpired \/ ForgetToken \/ CycleFails

Spec == Init /\ [][Next]_vars

-----------------------------------------------------------------------------
(* Safety.                                                                 *)

\* What the stored token covers has reached the local rows, through failed and
\* restarted cycles, expired tokens and full syncs: a live event is there in
\* the version Google reported, unless its deletion is queued or it has left
\* the window; a deleted one is gone unless edits of it are active.
Mirrored(e) ==
  IF google.alive[e]
  THEN \/ row[e].present /\ row[e].base = google.version[e]
       \/ row[e].deleting /\ row[e].edits # "none"
       \/ ~google.shown[e]
  ELSE ~row[e].present \/ row[e].edits # "none"

TokenCovers ==
  calendar.token # NoToken =>
    \A e \in Events :
      0 < google.version[e] /\ google.version[e] <= calendar.token => Mirrored(e)

\* A pull never hides an event the user has edited and not deleted.
EditsStayVisible ==
  \A e \in Events : row[e].edits # "none" /\ ~row[e].deleting => row[e].present

\* Neither Google's changes nor the user's are lost on the rows.
MirrorIsSound == TokenCovers /\ EditsStayVisible

\* Events created here that Google has not been sent, the cancelled ones too.
LocalOnly == {e \in Events : row[e] # NoRow /\ row[e].base = 0}

\* The cleanup of a full sync touches no event that its listing reported live,
\* whatever the user and the uploads did to the row since; and it runs out of
\* passes only if an event known to Google has edits in conflict, or if the user
\* has created another event before every pass but the first: a pass has to do
\* with a local create once.
SweepSparesListed ==
  [][/\ SweepStale => \A e \in Events : worker.listing[e].alive => row'[e] = row[e]
     /\ worker'.at = "gaveup" /\ worker.at # "gaveup" =>
          \/ \E e \in Events : row[e].base # 0 /\ row[e].edits = "stuck"
          \/ Cardinality(LocalOnly) >= PassLimit - 1]_vars

-----------------------------------------------------------------------------
(* Liveness.  The periodic pull keeps starting cycles, a cycle that is      *)
(* running goes on, and from some time on calls to Google and the broker   *)
(* succeed: an outage of any length ends.                                  *)

FairSpec ==
  /\ Spec
  /\ WF_vars(StartPull) /\ WF_vars(BeginRemoteFullSync) /\ WF_vars(ListEventChanges)
  /\ \A e \in Events : WF_vars(ApplyRemotePage(e))
  /\ WF_vars(SweepStale) /\ WF_vars(CompleteRemoteSync) /\ WF_vars(EndCycle)
  /\ <>[][~CycleFails]_vars

\* Every change made at Google is eventually covered by the token, unless edits
\* of some event are stuck.
EveryChangeArrives ==
  \A n \in 1..MaxChanges :
    google.clock >= n ~>
      \/ calendar.token # NoToken /\ calendar.token >= n
      \/ \E e \in Events : row[e].edits = "stuck"
=============================================================================
