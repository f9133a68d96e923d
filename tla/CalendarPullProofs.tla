--------------------------- MODULE CalendarPullProofs ---------------------------
(***************************************************************************)
(* Proofs about CalendarPull, for every set of events, every number of     *)
(* changes, generations and passes.  What a listing knows of an event that *)
(* has not changed since carries the argument: the event is among those    *)
(* still to be applied, or its row shows it, or the listing had no reason  *)
(* to mention it.                                                          *)
(***************************************************************************)
EXTENDS CalendarPull, FiniteSetTheorems, TLAPS

\* What holds of a row by itself: it is there unless its deletion is queued, and
\* only a local create has no baseline.
RowOK(e) ==
  /\ row[e].present => ~row[e].deleting
  /\ row[e].edits # "none" /\ ~row[e].deleting => row[e].present
  /\ row[e].base = 0 /\ (row[e].present \/ row[e].deleting \/ row[e].edits # "none") =>
       google.version[e] = 0
  /\ row[e].deleting /\ row[e].edits = "none" => row[e].base = 0
  /\ row[e].base <= google.version[e]
  /\ row[e].stamp <= calendar.generation
  /\ google.version[e] <= google.clock
  /\ google.alive[e] => google.version[e] > 0

\* The event has not changed since Google's change number n.
Settled(e, n) == 0 < google.version[e] /\ google.version[e] <= n

TokenOK ==
  calendar.token # NoToken =>
    /\ calendar.token <= google.clock
    /\ \A e \in Events : Settled(e, calendar.token) => Mirrored(e)

\* A full sync is under way exactly if the worker has a generation, the
\* calendar's, and meanwhile there is no token.
PhaseOK ==
  /\ worker.at \in {"idle", "begin", "upload"} => worker.generation = 0
  /\ worker.at \in {"list", "apply"} =>
       IF worker.generation = 0 THEN calendar.token # NoToken
       ELSE calendar.token = NoToken /\ calendar.generation = worker.generation
  /\ worker.at = "list" /\ worker.generation # 0 =>
       \A e \in Events : row[e].stamp < worker.generation
  /\ worker.at # "apply" => worker.passes = 0 \/ worker.at = "gaveup"
  /\ worker.at = "apply" =>
       /\ worker.next <= google.clock
       /\ worker.generation = 0 => calendar.token <= worker.next /\ worker.passes = 0
       /\ worker.passes # 0 => worker.todo = {}
       /\ PassLimit # 0 => worker.passes < PassLimit

Listed(e) == worker.listing[e].version > 0

\* What the listing says of an event is true of it until it changes; a listed
\* event waits for its page or has had it, and one that was not listed has
\* nothing new or has left the window.
ListingOK(e) ==
  /\ worker.listing[e].version <= google.version[e]
  /\ Listed(e) /\ google.version[e] <= worker.next =>
       worker.listing[e] = [version |-> google.version[e], alive |-> google.alive[e]]
  /\ worker.listing[e].alive => Listed(e)
  /\ e \in worker.todo => Listed(e)
  /\ Settled(e, worker.next) /\ e \notin worker.todo =>
       IF worker.generation = 0 \/ Listed(e) THEN Mirrored(e) ELSE ~google.shown[e]
  /\ worker.generation # 0 /\ worker.listing[e].alive /\ e \notin worker.todo /\ row[e].present =>
       row[e].stamp = worker.generation
  /\ worker.generation # 0 /\ row[e].present /\ row[e].stamp = worker.generation
       /\ google.version[e] > 0 => Listed(e)

\* Local creates that the cleanup has seen.
Seen == {e \in LocalOnly : e \notin Stale}

\* A cleanup that goes on without an event stuck has met a new local create in
\* every pass but the first.
CleanupOK ==
  worker.at = "apply" /\ worker.passes # 0 =>
    \/ \E e \in Events : row[e].base # 0 /\ row[e].edits = "stuck"
    \/ /\ \A e \in Stale : row[e].base = 0
       /\ worker.passes <= Cardinality(Seen) + 1

-----------------------------------------------------------------------------
(* What the steps make of a row and of Google's versions.                   *)

RowEdits == {"none", "open", "stuck"}

LEMMA NoRowIs ==
  /\ NoRow \in Row
  /\ NoRow.present = FALSE /\ NoRow.base = 0 /\ NoRow.stamp = 0
  /\ NoRow.edits = "none" /\ NoRow.deleting = FALSE
BY DEF NoRow, Row

LEMMA IdleTyped ==
  ASSUME NEW p \in {"idle", "begin", "list", "upload"}
  PROVE  /\ [Idle EXCEPT !.at = p] \in
              [at : {"idle", "begin", "list", "apply", "finish", "upload", "gaveup"},
               generation : Nat, todo : SUBSET Events, next : Nat, passes : Nat,
               listing : [Events -> [version : Nat, alive : BOOLEAN]]]
         /\ [Idle EXCEPT !.at = p].at = p
         /\ [Idle EXCEPT !.at = p].generation = 0
         /\ [Idle EXCEPT !.at = p].passes = 0
BY DEF Idle, NotListed

LEMMA WrittenIs ==
  ASSUME TypeOK, NEW e \in Events, NEW live \in BOOLEAN
  PROVE  /\ Written(e, live) \in [clock : Nat, version : [Events -> Nat],
                                  alive : [Events -> BOOLEAN], shown : [Events -> BOOLEAN]]
         /\ Written(e, live).clock = google.clock + 1
         /\ Written(e, live).version[e] = google.clock + 1
         /\ Written(e, live).alive[e] = live
         /\ Written(e, live).shown = google.shown
         /\ \A f \in Events \ {e} : /\ Written(e, live).version[f] = google.version[f]
                                    /\ Written(e, live).alive[f] = google.alive[f]
BY DEF Written, TypeOK

LEMMA StuckIs ==
  ASSUME NEW r \in Row
  PROVE  /\ Stuck(r) \in Row /\ Stuck(r).edits = "stuck"
         /\ Stuck(r).present = r.present /\ Stuck(r).base = r.base
         /\ Stuck(r).stamp = r.stamp /\ Stuck(r).deleting = r.deleting
BY DEF Row, Stuck

LEMMA RebasedIs ==
  ASSUME NEW r \in Row, NEW v \in Nat, NEW k \in RowEdits
  PROVE  /\ Rebased(r, v, k) \in Row /\ Rebased(r, v, k).edits = k
         /\ Rebased(r, v, k).base = v /\ Rebased(r, v, k).present = r.present
         /\ Rebased(r, v, k).stamp = r.stamp /\ Rebased(r, v, k).deleting = r.deleting
BY DEF Row, RowEdits, Rebased

\* What a page and a cleanup pass make of a row.
LEMMA PulledIs ==
  ASSUME TypeOK, NEW r \in Row, NEW v \in Nat, NEW outcome \in RowEdits
  PROVE  /\ Pulled(r, v, outcome) \in Row
         /\ Pulled(r, v, outcome).present = ~r.deleting
         /\ Pulled(r, v, outcome).base = v
         /\ Pulled(r, v, outcome).edits = outcome
         /\ Pulled(r, v, outcome).deleting = r.deleting
         /\ Pulled(r, v, outcome).stamp =
              IF worker.generation = 0 THEN r.stamp ELSE worker.generation
BY DEF Pulled, Row, TypeOK, RowEdits

LEMMA RemovedIs ==
  ASSUME NEW r \in Row
  PROVE  /\ Removed(r) \in Row
         /\ r.edits = "none" => Removed(r) = NoRow
         /\ r.edits # "none" => Removed(r) = Stuck(r)
BY NoRowIs, StuckIs DEF Removed

LEMMA SweptIs ==
  ASSUME TypeOK, NEW r \in Row
  PROVE  /\ Swept(r) \in Row
         /\ r.base # 0 => Swept(r) = Removed(r)
         /\ r.base = 0 =>
              /\ Swept(r).present = r.present /\ Swept(r).base = 0
              /\ Swept(r).edits = r.edits /\ Swept(r).deleting = r.deleting
              /\ Swept(r).stamp = worker.generation
<1>1. CASE r.base = 0
  <2>1. Swept(r) = [r EXCEPT !.stamp = worker.generation] /\ worker.generation \in Nat
    BY <1>1 DEF Swept, TypeOK
  <2> QED
    BY <1>1, <2>1 DEF Row
<1>2. CASE r.base # 0
  BY <1>2, RemovedIs DEF Swept
<1> QED
  BY <1>1, <1>2

\* The row of one event is replaced.
Put(e, r) == r \in Row /\ row' = [row EXCEPT ![e] = r]

LEMMA PutIs ==
  ASSUME TypeOK, NEW e \in Events, NEW r, Put(e, r)
  PROVE  /\ row' \in [Events -> Row]
         /\ row'[e] = r
         /\ \A f \in Events \ {e} : row'[f] = row[f]
BY DEF Put, TypeOK

LEMMA CreateIs ==
  ASSUME TypeOK, NEW e \in Events, CreateLocally(e)
  PROVE  \E r \in Row : /\ Put(e, r)
                        /\ r.present /\ r.base = 0 /\ r.stamp = 0
                        /\ r.edits = "open" /\ ~r.deleting
<1> DEFINE r == [NoRow EXCEPT !.present = TRUE, !.edits = "open"]
<1>1. /\ r \in Row /\ r.present /\ r.base = 0 /\ r.stamp = 0
      /\ r.edits = "open" /\ ~r.deleting
  BY DEF NoRow, Row
<1>2. row' = [row EXCEPT ![e] = r]
  BY DEF CreateLocally
<1> HIDE DEF r
<1> QED
  BY <1>1, <1>2 DEF Put

LEMMA EditIs ==
  ASSUME TypeOK, NEW e \in Events, EditLocally(e)
  PROVE  \E r \in Row : /\ Put(e, r)
                        /\ r.present /\ r.edits = "open" /\ r.base = row[e].base
                        /\ r.stamp = row[e].stamp /\ r.deleting = row[e].deleting
<1> DEFINE r == [row[e] EXCEPT !.edits = "open"]
<1>1. row[e] \in Row /\ row[e].present
  BY DEF TypeOK, EditLocally
<1>2. /\ r \in Row /\ r.present /\ r.edits = "open" /\ r.base = row[e].base
      /\ r.stamp = row[e].stamp /\ r.deleting = row[e].deleting
  BY <1>1 DEF Row
<1>3. row' = [row EXCEPT ![e] = r]
  BY DEF EditLocally, TypeOK
<1> HIDE DEF r
<1> QED
  BY <1>2, <1>3 DEF Put

LEMMA DeleteIs ==
  ASSUME TypeOK, NEW e \in Events, DeleteLocally(e)
  PROVE  \E r \in Row : /\ Put(e, r)
                        /\ ~r.present /\ r.stamp = 0 /\ r.deleting
                        /\ IF row[e].base = 0 /\ row[e].edits = "open"
                           THEN r.base = 0 /\ r.edits = "none"
                           ELSE /\ r.base = row[e].base
                                /\ r.edits # "none"
                                /\ row[e].edits = "stuck" => r.edits = "stuck"
<1>1. row[e] \in Row
  BY DEF TypeOK
<1>2. CASE row[e].base = 0 /\ row[e].edits = "open"
  <2> DEFINE r == [NoRow EXCEPT !.deleting = TRUE]
  <2>1. /\ r \in Row /\ ~r.present /\ r.stamp = 0 /\ r.deleting
        /\ r.base = 0 /\ r.edits = "none"
    BY DEF NoRow, Row
  <2>2. row' = [row EXCEPT ![e] = r]
    BY <1>2 DEF DeleteLocally
  <2> HIDE DEF r
  <2> QED
    BY <1>2, <2>1, <2>2 DEF Put
<1>3. CASE ~(row[e].base = 0 /\ row[e].edits = "open")
  <2> DEFINE k == IF row[e].edits = "stuck" THEN "stuck" ELSE "open"
             r == [row[e] EXCEPT !.present = FALSE, !.stamp = 0, !.deleting = TRUE, !.edits = k]
  <2>1. /\ r \in Row /\ ~r.present /\ r.stamp = 0 /\ r.deleting
        /\ r.base = row[e].base /\ r.edits = k /\ k # "none"
    BY <1>1 DEF Row
  <2>2. row' = [row EXCEPT ![e] = r]
    BY <1>3 DEF DeleteLocally
  <2>3. row[e].edits = "stuck" => k = "stuck"
    OBVIOUS
  <2> HIDE DEF r, k
  <2> QED
    BY <1>3, <2>1, <2>2, <2>3 DEF Put
<1> QED
  BY <1>2, <1>3

LEMMA PageIs ==
  ASSUME TypeOK, NEW e \in Events, ApplyRemotePage(e)
  PROVE  IF worker.listing[e].alive
         THEN \E outcome \in RowEdits :
                /\ outcome = "none" <=> row[e].edits = "none"
                /\ Put(e, Pulled(row[e], worker.listing[e].version, outcome))
                /\ Pulled(row[e], worker.listing[e].version, outcome) \in Row
         ELSE Put(e, Removed(row[e]))
<1>1. row[e] \in Row /\ worker.listing[e].version \in Nat
  BY DEF TypeOK
<1>2. CASE worker.listing[e].alive
  <2>1. PICK outcome \in Outcomes(row[e]) :
               row' = [row EXCEPT ![e] = Pulled(row[e], worker.listing[e].version, outcome)]
    BY <1>2 DEF ApplyRemotePage
  <2>2. outcome \in RowEdits /\ (outcome = "none" <=> row[e].edits = "none")
    BY <1>1, <2>1 DEF Outcomes, Row, RowEdits
  <2>3. Pulled(row[e], worker.listing[e].version, outcome) \in Row
    BY <1>1, <2>2, PulledIs
  <2> QED
    BY <1>2, <2>1, <2>2, <2>3 DEF Put
<1>3. CASE ~worker.listing[e].alive
  <2>1. row' = [row EXCEPT ![e] = Removed(row[e])]
    BY <1>3 DEF ApplyRemotePage
  <2> QED
    BY <1>1, <1>3, <2>1, RemovedIs DEF Put
<1> QED
  BY <1>2, <1>3

LEMMA SuccessIs ==
  ASSUME TypeOK, NEW e \in Events, NEW rest \in RowEdits, UploadSucceeds(e, rest)
  PROVE  Put(e, IF row[e].deleting THEN NoRow ELSE Rebased(row[e], google.clock + 1, rest))
<1>1. row[e] \in Row /\ google.clock + 1 \in Nat
  BY DEF TypeOK
<1> QED
  BY <1>1, NoRowIs, RebasedIs DEF UploadSucceeds, Put

LEMMA ReconciledIs ==
  ASSUME TypeOK, NEW e \in Events, UploadReconciled(e)
  PROVE  Put(e, IF row[e].deleting THEN NoRow ELSE Rebased(row[e], google.version[e], "none"))
<1>1. row[e] \in Row /\ google.version[e] \in Nat /\ "none" \in RowEdits
  BY DEF TypeOK, RowEdits
<1> QED
  BY <1>1, NoRowIs, RebasedIs DEF UploadReconciled, Put

LEMMA ConflictIs ==
  ASSUME TypeOK, NEW e \in Events, UploadConflicts(e)
  PROVE  \E r \in Row : /\ Put(e, r) /\ r.edits = "stuck"
                        /\ r.present = row[e].present /\ r.deleting = row[e].deleting
                        /\ IF row[e].deleting
                           THEN r.base = row[e].base /\ r.stamp = row[e].stamp
                           ELSE r.base = google.version[e] /\ r.stamp = 0
<1>1. row[e] \in Row /\ google.version[e] \in Nat /\ "stuck" \in RowEdits
  BY DEF TypeOK, RowEdits
<1>2. CASE row[e].deleting
  <2>1. row' = [row EXCEPT ![e] = Stuck(row[e])]
    BY <1>2 DEF UploadConflicts
  <2> QED
    BY <1>1, <1>2, <2>1, StuckIs DEF Put
<1>3. CASE ~row[e].deleting
  <2> DEFINE b == Rebased(row[e], google.version[e], "stuck")
             r == [b EXCEPT !.stamp = 0]
  <2>1. /\ b \in Row /\ b.edits = "stuck" /\ b.base = google.version[e]
        /\ b.present = row[e].present /\ b.deleting = row[e].deleting
    BY <1>1, RebasedIs
  <2>2. row' = [row EXCEPT ![e] = r]
    BY <1>3 DEF UploadConflicts
  <2> HIDE DEF b
  <2>3. /\ r \in Row /\ r.edits = "stuck" /\ r.base = google.version[e] /\ r.stamp = 0
        /\ r.present = row[e].present /\ r.deleting = row[e].deleting
    BY <2>1 DEF Row
  <2> HIDE DEF r
  <2> QED
    BY <1>3, <2>2, <2>3 DEF Put
<1> QED
  BY <1>2, <1>3

LEMMA FailIs ==
  ASSUME TypeOK, NEW e \in Events, UploadFails(e)
  PROVE  Put(e, Stuck(row[e]))
<1>1. row[e] \in Row
  BY DEF TypeOK
<1> QED
  BY <1>1, StuckIs DEF UploadFails, Put

LEMMA SweepIs ==
  ASSUME TypeOK, SweepStale
  PROVE  /\ row' \in [Events -> Row]
         /\ \A e \in Events : row'[e] = IF e \in Stale THEN Swept(row[e]) ELSE row[e]
<1>1. \A e \in Events : row[e] \in Row /\ Swept(row[e]) \in Row
  BY SweptIs DEF TypeOK
<1> QED
  BY <1>1 DEF SweepStale

-----------------------------------------------------------------------------
(* Types.                                                                   *)

LEMMA TypeStep ==
  ASSUME TypeOK, Next
  PROVE  TypeOK'
<1>1. ASSUME NEW e \in Events, NEW live \in BOOLEAN, RemoteWrite(e, live)
      PROVE  TypeOK'
  BY <1>1, WrittenIs DEF RemoteWrite, TypeOK
<1>2. ASSUME NEW e \in Events, LeaveWindow(e)
      PROVE  TypeOK'
  BY <1>2 DEF LeaveWindow, TypeOK
<1>3. ASSUME NEW e \in Events, CreateLocally(e)
      PROVE  TypeOK'
  <2>1. row' \in [Events -> Row]
    BY <1>3, CreateIs, PutIs
  <2> QED
    BY <1>3, <2>1 DEF CreateLocally, TypeOK
<1>4. ASSUME NEW e \in Events, EditLocally(e)
      PROVE  TypeOK'
  <2>1. row' \in [Events -> Row]
    BY <1>4, EditIs, PutIs
  <2> QED
    BY <1>4, <2>1 DEF EditLocally, TypeOK
<1>5. ASSUME NEW e \in Events, DeleteLocally(e)
      PROVE  TypeOK'
  <2>1. row' \in [Events -> Row]
    BY <1>5, DeleteIs, PutIs
  <2> QED
    BY <1>5, <2>1 DEF DeleteLocally, TypeOK
<1>6. CASE StartPull
  BY <1>6, IdleTyped DEF StartPull, TypeOK
<1>7. CASE BeginRemoteFullSync
  <2>1. calendar' = [token |-> NoToken, generation |-> calendar.generation + 1]
        /\ google' = google /\ row' = row
        /\ worker' = [worker EXCEPT !.at = "list", !.generation = calendar.generation + 1]
    BY <1>7 DEF BeginRemoteFullSync
  <2>2. calendar' \in [token : Nat \cup {NoToken}, generation : Nat]
    BY <2>1 DEF TypeOK
  <2> QED
    BY <2>1, <2>2 DEF TypeOK
<1>8. CASE ListEventChanges
  <2> DEFINE found == IF worker.generation = 0 THEN Changed(calendar.token) ELSE Shown
             heard == [e \in Events |->
                         IF e \in found THEN [version |-> google.version[e],
                                              alive |-> google.alive[e]]
                         ELSE NotListed]
  <2>1. heard \in [Events -> [version : Nat, alive : BOOLEAN]]
    BY DEF NotListed, TypeOK
  <2>2. found \in SUBSET Events
    BY DEF Changed, Shown
  <2>3. /\ worker' = [worker EXCEPT !.at = "apply", !.todo = found, !.next = google.clock,
                                    !.listing = heard]
        /\ UNCHANGED <<google, row, calendar>>
    BY <1>8 DEF ListEventChanges
  <2> HIDE DEF found, heard
  <2> QED
    BY <2>1, <2>2, <2>3 DEF TypeOK
<1>9. ASSUME NEW e \in Events, ApplyRemotePage(e)
      PROVE  TypeOK'
  <2>1. row' \in [Events -> Row]
    BY <1>9, PageIs, PutIs
  <2> QED
    BY <1>9, <2>1 DEF ApplyRemotePage, TypeOK
<1>10. CASE SweepStale
  <2>1. row' \in [Events -> Row]
    BY <1>10, SweepIs
  <2> DEFINE n == worker.passes + 1
             p == IF n = PassLimit THEN "gaveup" ELSE worker.at
  <2>2. n \in Nat
    BY DEF TypeOK
  <2>3. p \in {"idle", "begin", "list", "apply", "finish", "upload", "gaveup"}
    BY DEF TypeOK
  <2>4. worker' = [worker EXCEPT !.passes = n, !.at = p]
    BY <1>10 DEF SweepStale
  <2> HIDE DEF n, p
  <2>5. worker' \in [at : {"idle", "begin", "list", "apply", "finish", "upload", "gaveup"},
                    generation : Nat, todo : SUBSET Events, next : Nat, passes : Nat,
                    listing : [Events -> [version : Nat, alive : BOOLEAN]]]
    BY <2>2, <2>3, <2>4 DEF TypeOK
  <2> QED
    BY <1>10, <2>1, <2>5 DEF SweepStale, TypeOK
<1>11. CASE CompleteRemoteSync
  BY <1>11, IdleTyped DEF CompleteRemoteSync, TypeOK
<1>12. ASSUME NEW e \in Events, NEW rest \in RowEdits, UploadSucceeds(e, rest)
      PROVE  TypeOK'
  <2>1. row' \in [Events -> Row]
    BY <1>12, SuccessIs, PutIs
  <2> QED
    BY <1>12, <2>1, WrittenIs DEF UploadSucceeds, TypeOK, Row
<1>13. ASSUME NEW e \in Events, ReceiptLost(e)
      PROVE  TypeOK'
  <2>1. row[e] \in Row
    BY DEF TypeOK
  <2> QED
    BY <1>13, <2>1, WrittenIs DEF ReceiptLost, Row, TypeOK
<1>14. ASSUME NEW e \in Events, UploadReconciled(e)
      PROVE  TypeOK'
  <2>1. row' \in [Events -> Row]
    BY <1>14, ReconciledIs, PutIs
  <2> QED
    BY <1>14, <2>1 DEF UploadReconciled, TypeOK
<1>15. ASSUME NEW e \in Events, UploadConflicts(e)
      PROVE  TypeOK'
  <2>1. row' \in [Events -> Row]
    BY <1>15, ConflictIs, PutIs
  <2> QED
    BY <1>15, <2>1 DEF UploadConflicts, TypeOK
<1>16. ASSUME NEW e \in Events, UploadFails(e)
      PROVE  TypeOK'
  <2>1. row' \in [Events -> Row]
    BY <1>16, FailIs, PutIs
  <2> QED
    BY <1>16, <2>1 DEF UploadFails, TypeOK
<1>17. CASE EndCycle
  BY <1>17 DEF EndCycle, TypeOK, Idle, NotListed
<1>18. CASE SyncTokenExpired
  BY <1>18 DEF SyncTokenExpired, TypeOK
<1>19. CASE ForgetToken
  BY <1>19 DEF ForgetToken, TypeOK
<1>20. CASE CycleFails
  BY <1>20 DEF CycleFails, TypeOK, Idle, NotListed
<1> QED
  BY <1>1, <1>2, <1>3, <1>4, <1>5, <1>6, <1>7, <1>8, <1>9, <1>10, <1>11, <1>12, <1>13, <1>14,
     <1>15, <1>16, <1>17, <1>18, <1>19, <1>20
  DEF Next, Others, Pull, Upload, RowEdits

-----------------------------------------------------------------------------
(* Rows.                                                                    *)

RowsOK == \A e \in Events : RowOK(e)

LEMMA RowKept ==
  ASSUME TypeOK, TypeOK', NEW f \in Events, RowOK(f), row'[f] = row[f],
         google'.version[f] = google.version[f], google'.alive[f] = google.alive[f],
         google.clock <= google'.clock, calendar.generation <= calendar'.generation
  PROVE  RowOK(f)'
<1>1. row[f] \in Row /\ google.version[f] \in Nat /\ google.clock \in Nat /\ google'.clock \in Nat
  BY DEF TypeOK
<1>2. calendar.generation \in Nat /\ calendar'.generation \in Nat
  BY DEF TypeOK
<1> QED
  BY <1>1, <1>2 DEF RowOK, Row

\* A step that replaces one row, Google and the generation staying as they are.
LEMMA RowsByPut ==
  ASSUME TypeOK, TypeOK', RowsOK, NEW e \in Events, NEW r, Put(e, r),
         google' = google, calendar' = calendar, RowOK(e)'
  PROVE  RowsOK'
<1>1. ASSUME NEW f \in Events, f # e
      PROVE  RowOK(f)'
  <2>1. row'[f] = row[f] /\ RowOK(f)
    BY <1>1, PutIs DEF RowsOK
  <2>2. google.clock <= google'.clock /\ calendar.generation <= calendar'.generation
    BY DEF TypeOK
  <2> QED
    BY <2>1, <2>2, RowKept
<1> QED
  BY <1>1 DEF RowsOK

\* A write at Google and its effect on one row.
LEMMA RowsByWrite ==
  ASSUME TypeOK, TypeOK', RowsOK, NEW e \in Events, NEW live \in BOOLEAN,
         google' = Written(e, live), calendar' = calendar, row' \in [Events -> Row],
         \A f \in Events \ {e} : row'[f] = row[f],
         RowOK(e)'
  PROVE  RowsOK'
<1>1. ASSUME NEW f \in Events, f # e
      PROVE  RowOK(f)'
  <2>1. row'[f] = row[f] /\ RowOK(f)
    BY <1>1 DEF RowsOK
  <2>2. google.clock <= google'.clock /\ calendar.generation <= calendar'.generation
    <3>1. google'.clock = google.clock + 1
      BY WrittenIs
    <3> QED
      BY <3>1 DEF TypeOK
  <2>3. google'.version[f] = google.version[f] /\ google'.alive[f] = google.alive[f]
    BY <1>1, WrittenIs
  <2> QED
    BY <2>1, <2>2, <2>3, RowKept
<1> QED
  BY <1>1 DEF RowsOK

LEMMA RowsStep ==
  ASSUME TypeOK, TypeOK', RowsOK, PhaseOK,
         worker.at = "apply" => \A e \in Events : ListingOK(e), Next
  PROVE  RowsOK'
<1>0. ASSUME NEW e \in Events
      PROVE  /\ RowOK(e) /\ row[e] \in Row /\ row'[e] \in Row
             /\ google.version[e] \in Nat /\ google'.version[e] \in Nat
             /\ google.clock \in Nat /\ calendar.generation \in Nat
             /\ google.alive[e] \in BOOLEAN /\ google'.alive[e] \in BOOLEAN
  BY DEF RowsOK, TypeOK
<1>1. ASSUME NEW e \in Events, NEW live \in BOOLEAN, RemoteWrite(e, live)
      PROVE  RowsOK'
  <2>1. google' = Written(e, live) /\ row' = row /\ calendar' = calendar
    BY <1>1 DEF RemoteWrite
  <2>2. row[e].base = 0 => row[e] = NoRow
    BY <1>1 DEF RemoteWrite
  <2>3. RowOK(e)'
    <3>1. /\ google'.version[e] = google.clock + 1 /\ google'.clock = google.clock + 1
          /\ row'[e] = row[e]
      BY <2>1, WrittenIs
    <3>2. row[e].base = 0 => ~row[e].present /\ ~row[e].deleting /\ row[e].edits = "none"
      BY <2>2, NoRowIs
    <3> QED
      BY <1>0, <2>1, <3>1, <3>2 DEF RowOK, Row
  <2> QED
    BY <2>1, <2>3, RowsByWrite DEF TypeOK
<1>2. ASSUME NEW e \in Events, LeaveWindow(e)
      PROVE  RowsOK'
  <2>1. google'.version = google.version /\ google'.alive = google.alive
        /\ google'.clock = google.clock /\ row' = row /\ calendar' = calendar
    BY <1>2 DEF LeaveWindow, TypeOK
  <2> QED
    BY <1>0, <2>1, RowKept DEF RowsOK
<1>3. ASSUME NEW e \in Events, CreateLocally(e)
      PROVE  RowsOK'
  <2>1. google' = google /\ calendar' = calendar /\ google.version[e] = 0
    BY <1>3 DEF CreateLocally
  <2>2. PICK r \in Row : /\ Put(e, r)
                         /\ r.present /\ r.base = 0 /\ r.stamp = 0
                         /\ r.edits = "open" /\ ~r.deleting
    BY <1>3, CreateIs
  <2>3. row'[e] = r
    BY <2>2, PutIs
  <2>4. RowOK(e)'
    BY <1>0, <2>1, <2>2, <2>3 DEF RowOK
  <2> QED
    BY <2>1, <2>2, <2>4, RowsByPut
<1>4. ASSUME NEW e \in Events, EditLocally(e)
      PROVE  RowsOK'
  <2>1. google' = google /\ calendar' = calendar /\ row[e].present
    BY <1>4 DEF EditLocally
  <2>2. PICK r \in Row : /\ Put(e, r)
                         /\ r.present /\ r.edits = "open" /\ r.base = row[e].base
                         /\ r.stamp = row[e].stamp /\ r.deleting = row[e].deleting
    BY <1>4, EditIs
  <2>3. row'[e] = r
    BY <2>2, PutIs
  <2>4. RowOK(e)'
    BY <1>0, <2>1, <2>2, <2>3 DEF RowOK
  <2> QED
    BY <2>1, <2>2, <2>4, RowsByPut
<1>5. ASSUME NEW e \in Events, DeleteLocally(e)
      PROVE  RowsOK'
  <2>1. google' = google /\ calendar' = calendar /\ row[e].present
    BY <1>5 DEF DeleteLocally
  <2>2. PICK r \in Row : /\ Put(e, r)
                         /\ ~r.present /\ r.stamp = 0 /\ r.deleting
                         /\ IF row[e].base = 0 /\ row[e].edits = "open"
                            THEN r.base = 0 /\ r.edits = "none"
                            ELSE /\ r.base = row[e].base
                                 /\ r.edits # "none"
                                 /\ row[e].edits = "stuck" => r.edits = "stuck"
    BY <1>5, DeleteIs
  <2>3. row'[e] = r
    BY <2>2, PutIs
  <2>4. RowOK(e)'
    BY <1>0, <2>1, <2>2, <2>3 DEF RowOK, Row
  <2> QED
    BY <2>1, <2>2, <2>4, RowsByPut
<1>6. CASE BeginRemoteFullSync
  <2>1. google' = google /\ row' = row /\ calendar'.generation = calendar.generation + 1
    BY <1>6 DEF BeginRemoteFullSync
  <2> QED
    BY <1>0, <2>1, RowKept DEF RowsOK
<1>7. ASSUME NEW e \in Events, ApplyRemotePage(e)
      PROVE  RowsOK'
  <2>1. /\ google' = google /\ calendar' = calendar /\ e \in worker.todo /\ worker.at = "apply"
        /\ worker.generation # 0 => calendar.generation = worker.generation
    BY <1>7 DEF ApplyRemotePage, SameGeneration
  <2>2. 0 < worker.listing[e].version /\ worker.listing[e].version <= google.version[e]
    BY <2>1 DEF ListingOK, Listed
  <2>3. worker.listing[e].version \in Nat
    BY DEF TypeOK
  <2>4. CASE worker.listing[e].alive
    <3> DEFINE v == worker.listing[e].version
    <3>1. PICK outcome \in RowEdits :
                 /\ outcome = "none" <=> row[e].edits = "none"
                 /\ Put(e, Pulled(row[e], v, outcome))
      BY <1>7, <2>4, PageIs
    <3>2. row'[e] = Pulled(row[e], v, outcome)
      BY <3>1, PutIs
    <3>3. RowOK(e)'
      <4>1. /\ row'[e].present = ~row[e].deleting /\ row'[e].base = v
            /\ row'[e].edits = outcome /\ row'[e].deleting = row[e].deleting
            /\ row'[e].stamp = IF worker.generation = 0 THEN row[e].stamp ELSE worker.generation
        BY <1>0, <2>3, <3>2, PulledIs
      <4> QED
        BY <1>0, <2>1, <2>2, <2>3, <3>1, <4>1 DEF RowOK, Row
    <3> QED
      BY <2>1, <3>1, <3>3, RowsByPut
  <2>5. CASE ~worker.listing[e].alive
    <3>1. Put(e, Removed(row[e])) /\ row'[e] = Removed(row[e])
      BY <1>7, <2>5, PageIs, PutIs
    <3>2. RowOK(e)'
      BY <1>0, <2>1, <3>1, RemovedIs, StuckIs, NoRowIs DEF RowOK, Row
    <3> QED
      BY <2>1, <3>1, <3>2, RowsByPut
  <2> QED
    BY <2>4, <2>5
<1>8. CASE SweepStale
  <2>1. /\ google' = google /\ calendar' = calendar
        /\ calendar.generation = worker.generation
    BY <1>8 DEF SweepStale, SameGeneration
  <2>2. ASSUME NEW e \in Events
        PROVE  RowOK(e)'
    <3>1. CASE e \in Stale
      <4>1. row'[e] = Swept(row[e]) /\ row[e].present
        BY <1>8, <3>1, SweepIs DEF Stale
      <4> QED
        <5>1. CASE row[e].base = 0
          <6> DEFINE r == row[e]
          <6>0. r \in Row /\ r.base = 0
            BY <1>0, <5>1
          <6> HIDE DEF r
          <6>2. /\ Swept(r).present = r.present /\ Swept(r).base = 0
                /\ Swept(r).edits = r.edits /\ Swept(r).deleting = r.deleting
                /\ Swept(r).stamp = worker.generation
            BY <6>0, SweptIs
          <6>1. /\ row'[e].present = row[e].present /\ row'[e].base = 0
                /\ row'[e].edits = row[e].edits /\ row'[e].deleting = row[e].deleting
                /\ row'[e].stamp = worker.generation
            BY <4>1, <6>2 DEF r
          <6> QED
            BY <1>0, <2>1, <5>1, <6>1 DEF RowOK, Row
        <5>2. CASE row[e].base # 0
          <6>1. row'[e] = Removed(row[e])
            BY <1>0, <4>1, <5>2, SweptIs
          <6> QED
            BY <1>0, <2>1, <6>1, RemovedIs, StuckIs, NoRowIs DEF RowOK, Row
        <5> QED
          BY <5>1, <5>2
    <3>2. CASE e \notin Stale
      <4>1. row'[e] = row[e]
        BY <1>8, <3>2, SweepIs
      <4> QED
        BY <1>0, <2>1, <4>1, RowKept
    <3> QED
      BY <3>1, <3>2
  <2> QED
    BY <2>2 DEF RowsOK
<1>9. ASSUME NEW e \in Events, NEW rest \in RowEdits, UploadSucceeds(e, rest)
      PROVE  RowsOK'
  <2>1. /\ google' = Written(e, ~row[e].deleting) /\ calendar' = calendar
        /\ row[e].edits = "open"
    BY <1>9 DEF UploadSucceeds, Uploading
  <2>2. Put(e, IF row[e].deleting THEN NoRow ELSE Rebased(row[e], google.clock + 1, rest))
    BY <1>9, SuccessIs
  <2>3. row'[e] = IF row[e].deleting THEN NoRow ELSE Rebased(row[e], google.clock + 1, rest)
    BY <2>2, PutIs
  <2>4. row[e].deleting \in BOOLEAN /\ google.clock + 1 \in Nat
    BY <1>0 DEF Row
  <2>5. RowOK(e)'
    <3>1. google'.version[e] = google.clock + 1 /\ google'.clock = google.clock + 1
      BY <2>1, <2>4, WrittenIs
    <3>2. CASE row[e].deleting
      BY <1>0, <2>1, <2>3, <3>1, <3>2, NoRowIs DEF RowOK
    <3>3. CASE ~row[e].deleting
      <4>1. /\ row'[e].present = row[e].present /\ row'[e].deleting = row[e].deleting
            /\ row'[e].base = google.clock + 1 /\ row'[e].stamp = row[e].stamp
            /\ row'[e].edits = rest
        BY <1>0, <2>3, <2>4, <3>3, RebasedIs
      <4> QED
        BY <1>0, <2>1, <3>1, <3>3, <4>1 DEF RowOK, Row
    <3> QED
      BY <3>2, <3>3
  <2> QED
    BY <2>1, <2>2, <2>4, <2>5, PutIs, RowsByWrite
<1>10. ASSUME NEW e \in Events, ReceiptLost(e)
      PROVE  RowsOK'
  <2>1. /\ google' = Written(e, ~row[e].deleting) /\ calendar' = calendar /\ row' = row
        /\ row[e].base # 0
    BY <1>10 DEF ReceiptLost
  <2>2. row[e].deleting \in BOOLEAN
    BY <1>0 DEF Row
  <2>3. RowOK(e)'
    <3>1. google'.version[e] = google.clock + 1 /\ google'.clock = google.clock + 1
      BY <2>1, <2>2, WrittenIs
    <3> QED
      BY <1>0, <2>1, <3>1 DEF RowOK, Row
  <2> QED
    BY <2>1, <2>2, <2>3, RowsByWrite DEF TypeOK
<1>11. ASSUME NEW e \in Events, UploadReconciled(e)
      PROVE  RowsOK'
  <2>1. google' = google /\ calendar' = calendar /\ row[e].base # 0 /\ row[e].edits = "open"
    BY <1>11 DEF UploadReconciled, Uploading
  <2>2. Put(e, IF row[e].deleting THEN NoRow ELSE Rebased(row[e], google.version[e], "none"))
    BY <1>11, ReconciledIs
  <2>3. row'[e] = IF row[e].deleting THEN NoRow ELSE Rebased(row[e], google.version[e], "none")
    BY <2>2, PutIs
  <2>4. RowOK(e)'
    <3>1. CASE row[e].deleting
      BY <1>0, <2>1, <2>3, <3>1, NoRowIs DEF RowOK
    <3>2. CASE ~row[e].deleting
      <4>0. "none" \in RowEdits
        BY DEF RowEdits
      <4>1. /\ row'[e].present = row[e].present /\ row'[e].deleting = row[e].deleting
            /\ row'[e].base = google.version[e] /\ row'[e].stamp = row[e].stamp
            /\ row'[e].edits = "none"
        BY <1>0, <2>3, <3>2, <4>0, RebasedIs
      <4> QED
        BY <1>0, <2>1, <3>2, <4>1 DEF RowOK, Row
    <3> QED
      BY <3>1, <3>2
  <2> QED
    BY <2>1, <2>2, <2>4, RowsByPut
<1>12. ASSUME NEW e \in Events, UploadConflicts(e)
      PROVE  RowsOK'
  <2>1. google' = google /\ calendar' = calendar /\ row[e].base # 0 /\ row[e].edits = "open"
    BY <1>12 DEF UploadConflicts, Uploading
  <2>2. PICK r \in Row : /\ Put(e, r) /\ r.edits = "stuck"
                         /\ r.present = row[e].present /\ r.deleting = row[e].deleting
                         /\ IF row[e].deleting
                            THEN r.base = row[e].base /\ r.stamp = row[e].stamp
                            ELSE r.base = google.version[e] /\ r.stamp = 0
    BY <1>12, ConflictIs
  <2>3. row'[e] = r
    BY <2>2, PutIs
  <2>4. RowOK(e)'
    BY <1>0, <2>1, <2>2, <2>3 DEF RowOK, Row
  <2> QED
    BY <2>1, <2>2, <2>4, RowsByPut
<1>13. ASSUME NEW e \in Events, UploadFails(e)
      PROVE  RowsOK'
  <2>1. google' = google /\ calendar' = calendar /\ row[e].edits = "open"
    BY <1>13 DEF UploadFails, Uploading
  <2>2. Put(e, Stuck(row[e])) /\ row'[e] = Stuck(row[e])
    BY <1>13, FailIs, PutIs
  <2>3. RowOK(e)'
    BY <1>0, <2>1, <2>2, StuckIs DEF RowOK, Row
  <2> QED
    BY <2>1, <2>2, <2>3, RowsByPut
<1>14. CASE StartPull \/ ListEventChanges \/ CompleteRemoteSync \/ EndCycle \/ SyncTokenExpired
            \/ ForgetToken \/ CycleFails
  <2>1. google' = google /\ row' = row /\ calendar'.generation = calendar.generation
    BY <1>14 DEF StartPull, ListEventChanges, CompleteRemoteSync, EndCycle, SyncTokenExpired,
                 ForgetToken, CycleFails, TypeOK
  <2> QED
    BY <1>0, <2>1, RowKept DEF RowsOK
<1> QED
  BY <1>1, <1>2, <1>3, <1>4, <1>5, <1>6, <1>7, <1>8, <1>9, <1>10, <1>11, <1>12, <1>13, <1>14
  DEF Next, Others, Pull, Upload, RowEdits

-----------------------------------------------------------------------------
(* What Google said, and what the rows show.                                *)

LEMMA RowTyped ==
  ASSUME TypeOK, NEW e \in Events
  PROVE  /\ row[e] \in Row /\ row[e].present \in BOOLEAN /\ row[e].deleting \in BOOLEAN
         /\ row[e].base \in Nat /\ row[e].stamp \in Nat /\ row[e].edits \in RowEdits
         /\ google.version[e] \in Nat /\ google.alive[e] \in BOOLEAN
         /\ google.shown[e] \in BOOLEAN /\ google.clock \in Nat
         /\ worker.listing[e].version \in Nat /\ worker.listing[e].alive \in BOOLEAN
         /\ worker.next \in Nat /\ worker.generation \in Nat /\ calendar.generation \in Nat
BY DEF TypeOK, Row, RowEdits

\* The row and Google's version of an event are as they were; it may have left
\* the window.
LEMMA MirrorSame ==
  ASSUME NEW e \in Events, Mirrored(e), row'[e] = row[e],
         google'.version[e] = google.version[e], google'.alive[e] = google.alive[e],
         ~google.shown[e] => ~google'.shown[e]
  PROVE  Mirrored(e)'
BY DEF Mirrored

LEMMA MirrorOthers ==
  ASSUME TypeOK, NEW e \in Events, NEW f \in Events, e # f, Mirrored(f), NEW r, Put(e, r),
         google' = google
  PROVE  Mirrored(f)'
<1>1. row'[f] = row[f]
  BY PutIs
<1> QED
  BY <1>1, MirrorSame

LEMMA MirrorWritten ==
  ASSUME TypeOK, NEW e \in Events, NEW f \in Events, Mirrored(f), NEW live \in BOOLEAN,
         google' = Written(e, live), e # f => row'[f] = row[f],
         google'.version[f] = google.version[f], google.version[f] <= google.clock
  PROVE  Mirrored(f)'
<1>1. e # f
  BY WrittenIs DEF TypeOK
<1>2. google'.alive[f] = google.alive[f] /\ google'.shown[f] = google.shown[f]
  BY <1>1, WrittenIs
<1> QED
  BY <1>1, <1>2, MirrorSame

\* Whatever is not the event's page or a cleanup keeps a row in step with a
\* version that stays Google's.
LEMMA MirrorKept ==
  ASSUME TypeOK, RowsOK, NEW f \in Events, Mirrored(f), google.version[f] > 0,
         google'.version[f] = google.version[f], Next, ~ApplyRemotePage(f), ~SweepStale
  PROVE  Mirrored(f)'
<1>0. RowOK(f) /\ google.version[f] <= google.clock
  BY DEF RowsOK, RowOK
<1>1. ASSUME NEW e \in Events, NEW live \in BOOLEAN, RemoteWrite(e, live)
      PROVE  Mirrored(f)'
  <2>1. google' = Written(e, live) /\ row' = row
    BY <1>1 DEF RemoteWrite
  <2> QED
    BY <1>0, <2>1, MirrorWritten
<1>2. ASSUME NEW e \in Events, LeaveWindow(e)
      PROVE  Mirrored(f)'
  <2>1. /\ google'.version = google.version /\ google'.alive = google.alive /\ row' = row
        /\ ~google.shown[f] => ~google'.shown[f]
    BY <1>2 DEF LeaveWindow, TypeOK
  <2> QED
    BY <2>1, MirrorSame
<1>3. ASSUME NEW e \in Events, CreateLocally(e)
      PROVE  Mirrored(f)'
  <2>1. google' = google /\ google.version[e] = 0
    BY <1>3 DEF CreateLocally
  <2>2. \E r \in Row : Put(e, r)
    BY <1>3, CreateIs
  <2> QED
    BY <2>1, <2>2, MirrorOthers
<1>4. ASSUME NEW e \in Events, EditLocally(e)
      PROVE  Mirrored(f)'
  <2>1. google' = google
    BY <1>4 DEF EditLocally
  <2>2. PICK r \in Row : /\ Put(e, r)
                         /\ r.present /\ r.edits = "open" /\ r.base = row[e].base
                         /\ r.stamp = row[e].stamp /\ r.deleting = row[e].deleting
    BY <1>4, EditIs
  <2>3. CASE e = f
    <3>1. row'[f] = r /\ row[f].present
      BY <1>4, <2>2, <2>3, PutIs DEF EditLocally
    <3> QED
      BY <1>0, <2>1, <2>2, <2>3, <3>1 DEF Mirrored, RowOK
  <2> QED
    BY <2>1, <2>2, <2>3, MirrorOthers
<1>5. ASSUME NEW e \in Events, DeleteLocally(e)
      PROVE  Mirrored(f)'
  <2>1. google' = google
    BY <1>5 DEF DeleteLocally
  <2>2. PICK r \in Row : /\ Put(e, r)
                         /\ ~r.present /\ r.stamp = 0 /\ r.deleting
                         /\ IF row[e].base = 0 /\ row[e].edits = "open"
                            THEN r.base = 0 /\ r.edits = "none"
                            ELSE /\ r.base = row[e].base
                                 /\ r.edits # "none"
                                 /\ row[e].edits = "stuck" => r.edits = "stuck"
    BY <1>5, DeleteIs
  <2>3. CASE e = f
    <3>1. row'[f] = r /\ row[f].present
      BY <1>5, <2>2, <2>3, PutIs DEF DeleteLocally
    <3>2. row[f].base # 0
      BY <1>0, <3>1, RowTyped DEF RowOK
    <3> QED
      BY <2>1, <2>2, <2>3, <3>1, <3>2 DEF Mirrored
  <2> QED
    BY <2>1, <2>2, <2>3, MirrorOthers
<1>6. ASSUME NEW e \in Events, ApplyRemotePage(e)
      PROVE  Mirrored(f)'
  <2>1. e # f /\ google' = google
    BY <1>6 DEF ApplyRemotePage
  <2>2. \E r : Put(e, r)
    BY <1>6, PageIs
  <2> QED
    BY <2>1, <2>2, MirrorOthers
<1>7. ASSUME NEW e \in Events, NEW rest \in RowEdits, UploadSucceeds(e, rest)
      PROVE  Mirrored(f)'
  <2>1. google' = Written(e, ~row[e].deleting)
    BY <1>7 DEF UploadSucceeds
  <2>2. \E r : Put(e, r)
    BY <1>7, SuccessIs
  <2>3. e # f => row'[f] = row[f]
    BY <2>2, PutIs
  <2> QED
    BY <1>0, <2>1, <2>3, RowTyped, MirrorWritten
<1>8. ASSUME NEW e \in Events, ReceiptLost(e)
      PROVE  Mirrored(f)'
  <2>1. google' = Written(e, ~row[e].deleting) /\ row' = row
    BY <1>8 DEF ReceiptLost
  <2> QED
    BY <1>0, <2>1, RowTyped, MirrorWritten
<1>9. ASSUME NEW e \in Events, UploadReconciled(e)
      PROVE  Mirrored(f)'
  <2>1. /\ google' = google /\ row[e].edits = "open"
        /\ row[e].deleting <=> ~google.alive[e]
    BY <1>9 DEF UploadReconciled, Uploading
  <2>2. Put(e, IF row[e].deleting THEN NoRow ELSE Rebased(row[e], google.version[e], "none"))
    BY <1>9, ReconciledIs
  <2>3. CASE e = f
    <3>1. row'[f] = IF row[e].deleting THEN NoRow ELSE Rebased(row[e], google.version[e], "none")
      BY <2>2, <2>3, PutIs
    <3>2. CASE row[e].deleting
      BY <2>1, <2>3, <3>1, <3>2, NoRowIs DEF Mirrored
    <3>3. CASE ~row[e].deleting
      <4>1. "none" \in RowEdits /\ row[e].present
        BY <1>0, <2>1, <2>3, <3>3 DEF RowEdits, RowOK
      <4>2. row'[f].present /\ row'[f].base = google.version[f]
        BY <2>3, <3>1, <3>3, <4>1, RowTyped, RebasedIs
      <4> QED
        BY <2>1, <2>3, <3>3, <4>2 DEF Mirrored
    <3> QED
      BY <3>2, <3>3
  <2> QED
    BY <2>1, <2>2, <2>3, MirrorOthers
<1>10. ASSUME NEW e \in Events, UploadConflicts(e)
      PROVE  Mirrored(f)'
  <2>1. google' = google /\ row[e].edits = "open" /\ google.alive[e]
    BY <1>10 DEF UploadConflicts, Uploading
  <2>2. PICK r \in Row : /\ Put(e, r) /\ r.edits = "stuck"
                         /\ r.present = row[e].present /\ r.deleting = row[e].deleting
                         /\ IF row[e].deleting
                            THEN r.base = row[e].base /\ r.stamp = row[e].stamp
                            ELSE r.base = google.version[e] /\ r.stamp = 0
    BY <1>10, ConflictIs
  <2>3. CASE e = f
    <3>1. row'[f] = r
      BY <2>2, <2>3, PutIs
    <3> QED
      BY <1>0, <2>1, <2>2, <2>3, <3>1 DEF Mirrored, RowOK
  <2> QED
    BY <2>1, <2>2, <2>3, MirrorOthers
<1>11. ASSUME NEW e \in Events, UploadFails(e)
      PROVE  Mirrored(f)'
  <2>1. google' = google /\ row[e].edits = "open"
    BY <1>11 DEF UploadFails, Uploading
  <2>2. Put(e, Stuck(row[e]))
    BY <1>11, FailIs
  <2>3. CASE e = f
    <3>1. row'[f] = Stuck(row[f])
      BY <2>2, <2>3, PutIs
    <3> QED
      BY <2>1, <2>3, <3>1, RowTyped, StuckIs DEF Mirrored
  <2> QED
    BY <2>1, <2>2, <2>3, MirrorOthers
<1>12. CASE StartPull \/ BeginRemoteFullSync \/ ListEventChanges \/ CompleteRemoteSync \/ EndCycle
            \/ SyncTokenExpired \/ ForgetToken \/ CycleFails
  <2>1. google' = google /\ row' = row
    BY <1>12 DEF StartPull, BeginRemoteFullSync, ListEventChanges, CompleteRemoteSync, EndCycle,
                 SyncTokenExpired, ForgetToken, CycleFails
  <2> QED
    BY <2>1, MirrorSame
<1> QED
  BY <1>1, <1>2, <1>3, <1>4, <1>5, <1>6, <1>7, <1>8, <1>9, <1>10, <1>11, <1>12
  DEF Next, Others, Pull, Upload, RowEdits

\* A page brings the row in step with an event that has not changed since its
\* listing.
LEMMA PageMirrors ==
  ASSUME TypeOK, RowsOK, NEW e \in Events, ApplyRemotePage(e), ListingOK(e),
         google.version[e] <= worker.next
  PROVE  Mirrored(e)'
<1>1. /\ google' = google /\ worker.listing[e].version = google.version[e]
      /\ worker.listing[e].alive = google.alive[e] /\ google.version[e] > 0
  BY DEF ApplyRemotePage, ListingOK, Listed
<1>2. RowOK(e)
  BY DEF RowsOK
<1>3. CASE google.alive[e]
  <2>1. PICK outcome \in RowEdits :
               /\ outcome = "none" <=> row[e].edits = "none"
               /\ Put(e, Pulled(row[e], google.version[e], outcome))
    BY <1>1, <1>3, PageIs
  <2>2. row'[e] = Pulled(row[e], google.version[e], outcome)
    BY <2>1, PutIs
  <2>3. /\ row'[e].present = ~row[e].deleting /\ row'[e].base = google.version[e]
        /\ row'[e].edits = outcome /\ row'[e].deleting = row[e].deleting
    BY <2>2, RowTyped, PulledIs
  <2>4. row[e].deleting => row[e].edits # "none"
    BY <1>1, <1>2, RowTyped DEF RowOK
  <2> QED
    BY <1>1, <1>3, <2>1, <2>3, <2>4, RowTyped DEF Mirrored
<1>4. CASE ~google.alive[e]
  <2>1. row'[e] = Removed(row[e])
    BY <1>1, <1>4, PageIs, PutIs
  <2>2. ~row'[e].present \/ row'[e].edits # "none"
    BY <2>1, RowTyped, RemovedIs, StuckIs, NoRowIs
  <2> QED
    BY <1>1, <1>4, <2>2 DEF Mirrored
<1> QED
  BY <1>3, <1>4, RowTyped

-----------------------------------------------------------------------------
(* The worker's cycle.                                                      *)

\* Google's clock never goes back, a change of an event is its latest, and what
\* has left the window does not come back.
EventMove(e) ==
  /\ \/ google'.version[e] = google.version[e] /\ google'.alive[e] = google.alive[e]
     \/ google'.version[e] = google.clock + 1
  /\ ~google.shown[e] => ~google'.shown[e]

ClockMove == /\ google'.clock \in Nat /\ google.clock <= google'.clock
             /\ \A e \in Events : EventMove(e)

LEMMA ClockStep ==
  ASSUME TypeOK, Next
  PROVE  ClockMove
<1>0. google.clock \in Nat
  BY DEF TypeOK
<1>1. ASSUME NEW e \in Events, NEW live \in BOOLEAN, google' = Written(e, live)
      PROVE  ClockMove
  <2>1. google'.clock = google.clock + 1 /\ google'.shown = google.shown
    BY <1>1, WrittenIs
  <2>2. ASSUME NEW f \in Events
        PROVE  EventMove(f)
    <3>1. CASE f = e
      BY <1>1, <2>1, <3>1, WrittenIs DEF EventMove
    <3>2. CASE f # e
      BY <1>1, <2>1, <3>2, WrittenIs DEF EventMove
    <3> QED
      BY <3>1, <3>2
  <2> QED
    BY <1>0, <2>1, <2>2 DEF ClockMove
<1>2. ASSUME NEW e \in Events, NEW live \in BOOLEAN, RemoteWrite(e, live)
      PROVE  google' = Written(e, live)
  BY <1>2 DEF RemoteWrite
<1>3. ASSUME NEW e \in Events, NEW rest \in RowEdits, UploadSucceeds(e, rest)
      PROVE  google' = Written(e, ~row[e].deleting) /\ row[e].deleting \in BOOLEAN
  BY <1>3, RowTyped DEF UploadSucceeds
<1>4. ASSUME NEW e \in Events, ReceiptLost(e)
      PROVE  google' = Written(e, ~row[e].deleting) /\ row[e].deleting \in BOOLEAN
  BY <1>4, RowTyped DEF ReceiptLost
<1>5. CASE \/ \E e \in Events, live \in BOOLEAN : RemoteWrite(e, live)
           \/ \E e \in Events, rest \in RowEdits : UploadSucceeds(e, rest)
           \/ \E e \in Events : ReceiptLost(e)
  <2>1. \E e \in Events, live \in BOOLEAN : google' = Written(e, live)
    BY <1>2, <1>3, <1>4, <1>5
  <2> QED
    BY <1>1, <2>1
<1>6. ASSUME NEW e \in Events, LeaveWindow(e)
      PROVE  ClockMove
  <2>1. /\ google'.clock = google.clock /\ google'.version = google.version
        /\ google'.alive = google.alive
        /\ \A f \in Events : ~google.shown[f] => ~google'.shown[f]
    BY <1>6 DEF LeaveWindow, TypeOK
  <2> QED
    BY <1>0, <2>1 DEF ClockMove, EventMove
<1>7. ASSUME google' = google
      PROVE  ClockMove
  BY <1>0, <1>7 DEF ClockMove, EventMove
<1>8. ASSUME NEW e \in Events, \/ CreateLocally(e) \/ EditLocally(e) \/ DeleteLocally(e)
                              \/ ApplyRemotePage(e) \/ UploadReconciled(e)
                              \/ UploadConflicts(e) \/ UploadFails(e)
      PROVE  google' = google
  BY <1>8 DEF CreateLocally, EditLocally, DeleteLocally, ApplyRemotePage, UploadReconciled,
              UploadConflicts, UploadFails
<1>9. ASSUME StartPull \/ BeginRemoteFullSync \/ ListEventChanges \/ SweepStale
             \/ CompleteRemoteSync \/ EndCycle \/ SyncTokenExpired \/ ForgetToken \/ CycleFails
      PROVE  google' = google
  BY <1>9 DEF StartPull, BeginRemoteFullSync, ListEventChanges, SweepStale, CompleteRemoteSync,
              EndCycle, SyncTokenExpired, ForgetToken, CycleFails
<1> QED
  BY <1>5, <1>6, <1>7, <1>8, <1>9 DEF Next, Others, Pull, Upload, RowEdits

\* The steps that are not the worker's leave it and the calendar alone.
LEMMA OthersStep ==
  ASSUME Others
  PROVE  worker' = worker /\ calendar' = calendar
<1>1. ASSUME NEW e \in Events, NEW live \in BOOLEAN, RemoteWrite(e, live)
      PROVE  worker' = worker /\ calendar' = calendar
  BY <1>1 DEF RemoteWrite
<1>2. ASSUME NEW e \in Events,
             LeaveWindow(e) \/ CreateLocally(e) \/ EditLocally(e) \/ DeleteLocally(e)
      PROVE  worker' = worker /\ calendar' = calendar
  BY <1>2 DEF LeaveWindow, CreateLocally, EditLocally, DeleteLocally
<1> QED
  BY <1>1, <1>2 DEF Others

LEMMA UploadStep ==
  ASSUME Upload
  PROVE  worker' = worker /\ calendar' = calendar /\ worker.at = "upload"
BY DEF Upload, UploadSucceeds, ReceiptLost, UploadReconciled, UploadConflicts, UploadFails,
       Uploading

\* What has been found since the token, or in the window.
Found == IF worker.generation = 0 THEN Changed(calendar.token) ELSE Shown

LEMMA ListIs ==
  ASSUME TypeOK, ListEventChanges
  PROVE  /\ worker.at = "list" /\ worker'.at = "apply" /\ worker'.generation = worker.generation
         /\ worker'.passes = worker.passes /\ worker'.next = google.clock
         /\ calendar' = calendar /\ google' = google /\ row' = row
         /\ worker'.todo = Found
         /\ \A e \in Events :
              worker'.listing[e] = IF e \in Found
                                   THEN [version |-> google.version[e], alive |-> google.alive[e]]
                                   ELSE NotListed
<1> DEFINE heard == [e \in Events |->
                       IF e \in Found THEN [version |-> google.version[e],
                                            alive |-> google.alive[e]]
                       ELSE NotListed]
<1>1. worker' = [worker EXCEPT !.at = "apply", !.todo = Found, !.next = google.clock,
                               !.listing = heard]
  BY DEF ListEventChanges, Found
<1>2. worker.at = "list" /\ calendar' = calendar /\ google' = google /\ row' = row
  BY DEF ListEventChanges
<1>3. \A e \in Events :
        heard[e] = IF e \in Found
                   THEN [version |-> google.version[e], alive |-> google.alive[e]]
                   ELSE NotListed
  OBVIOUS
<1> HIDE DEF heard
<1> QED
  BY <1>1, <1>2, <1>3 DEF TypeOK

LEMMA PhaseStep ==
  ASSUME TypeOK, TypeOK', RowsOK, PhaseOK, TokenOK, Next
  PROVE  PhaseOK'
<1> DEFINE Stamps == worker.at = "list" /\ worker.generation # 0 =>
                       \A e \in Events : row[e].stamp < worker.generation
<1>0. /\ google.clock \in Nat /\ google'.clock \in Nat /\ google.clock <= google'.clock
      /\ worker.passes \in Nat /\ worker.next \in Nat /\ worker.generation \in Nat
      /\ calendar.generation \in Nat /\ PassLimit \in Nat
  BY ClockStep, LimitAssumption DEF TypeOK, ClockMove
<1>1. CASE Others
  <2>1. worker' = worker /\ calendar' = calendar
    BY <1>1, OthersStep
  <2>2. ASSUME NEW f \in Events
        PROVE  row'[f].stamp <= row[f].stamp
    <3>1. row[f].stamp \in Nat
      BY RowTyped
    <3>2. ASSUME NEW e \in Events, NEW r, Put(e, r), e = f => r.stamp = 0 \/ r.stamp = row[f].stamp
          PROVE  row'[f].stamp <= row[f].stamp
      BY <3>1, <3>2, PutIs
    <3>3. CASE row' = row
      BY <3>1, <3>3
    <3>4. ASSUME NEW e \in Events, CreateLocally(e)
          PROVE  row'[f].stamp <= row[f].stamp
      BY <3>2, <3>4, CreateIs
    <3>5. ASSUME NEW e \in Events, EditLocally(e)
          PROVE  row'[f].stamp <= row[f].stamp
      BY <3>2, <3>5, EditIs
    <3>6. ASSUME NEW e \in Events, DeleteLocally(e)
          PROVE  row'[f].stamp <= row[f].stamp
      BY <3>2, <3>6, DeleteIs
    <3> QED
      BY <1>1, <3>3, <3>4, <3>5, <3>6 DEF Others, RemoteWrite, LeaveWindow
  <2>3. \A f \in Events : row[f].stamp \in Nat /\ row'[f].stamp \in Nat
    BY DEF TypeOK, Row
  <2>4. Stamps'
    BY <1>0, <2>1, <2>2, <2>3 DEF PhaseOK
  <2> QED
    BY <1>0, <2>1, <2>4 DEF PhaseOK
<1>2. CASE StartPull
  <2>1. /\ worker' = [Idle EXCEPT !.at = IF calendar.token = NoToken THEN "begin" ELSE "list"]
        /\ calendar' = calendar
    BY <1>2 DEF StartPull
  <2>2. /\ worker'.at = IF calendar.token = NoToken THEN "begin" ELSE "list"
        /\ worker'.generation = 0 /\ worker'.passes = 0
    BY <2>1, IdleTyped
  <2> QED
    BY <2>1, <2>2 DEF PhaseOK
<1>3. CASE BeginRemoteFullSync
  <2>1. /\ worker'.at = "list" /\ worker'.generation = calendar.generation + 1
        /\ worker'.passes = worker.passes /\ worker.at = "begin" /\ row' = row
        /\ calendar'.token = NoToken /\ calendar'.generation = calendar.generation + 1
    BY <1>3 DEF BeginRemoteFullSync, TypeOK
  <2>2. \A e \in Events : row[e].stamp \in Nat /\ row[e].stamp <= calendar.generation
    BY RowTyped DEF RowsOK, RowOK
  <2> QED
    BY <1>0, <2>1, <2>2 DEF PhaseOK
<1>4. CASE ListEventChanges
  <2>1. /\ worker.at = "list" /\ worker'.at = "apply" /\ worker'.generation = worker.generation
        /\ worker'.passes = worker.passes /\ worker'.next = google.clock
        /\ calendar' = calendar /\ google' = google
    BY <1>4, ListIs
  <2> QED
    BY <1>0, <2>1 DEF PhaseOK, TokenOK
<1>5. ASSUME NEW e \in Events, ApplyRemotePage(e)
      PROVE  PhaseOK'
  <2>1. /\ worker.at = "apply" /\ e \in worker.todo
        /\ worker'.at = "apply" /\ worker'.generation = worker.generation
        /\ worker'.passes = worker.passes /\ worker'.next = worker.next
        /\ worker'.todo = worker.todo \ {e} /\ calendar' = calendar /\ google' = google
    BY <1>5 DEF ApplyRemotePage, TypeOK
  <2> QED
    BY <1>0, <2>1 DEF PhaseOK
<1>6. CASE SweepStale
  <2>1. /\ worker.at = "apply" /\ worker.todo = {} /\ worker.generation # 0
        /\ worker'.at = IF worker.passes + 1 = PassLimit THEN "gaveup" ELSE "apply"
        /\ worker'.generation = worker.generation
        /\ worker'.passes = worker.passes + 1 /\ worker'.next = worker.next
        /\ worker'.todo = {} /\ calendar' = calendar /\ google' = google
    BY <1>6 DEF SweepStale, AllApplied, TypeOK
  <2> QED
    BY <1>0, <2>1 DEF PhaseOK
<1>7. CASE CompleteRemoteSync
  <2>1. worker' = [Idle EXCEPT !.at = "upload"]
    BY <1>7 DEF CompleteRemoteSync
  <2>2. worker'.at = "upload" /\ worker'.generation = 0 /\ worker'.passes = 0
    BY <2>1, IdleTyped
  <2> QED
    BY <2>2 DEF PhaseOK
<1>8. CASE Upload
  <2>1. worker' = worker /\ calendar' = calendar /\ worker.at = "upload"
    BY <1>8, UploadStep
  <2> QED
    BY <2>1 DEF PhaseOK
<1>9. CASE EndCycle \/ CycleFails
  <2>1. worker' = Idle
    BY <1>9 DEF EndCycle, CycleFails
  <2>2. worker'.at = "idle" /\ worker'.generation = 0 /\ worker'.passes = 0
    BY <2>1 DEF Idle
  <2> QED
    BY <2>2 DEF PhaseOK
<1>10. CASE SyncTokenExpired
  <2>1. /\ worker.at = "list" /\ worker.generation = 0
        /\ worker'.at = "begin" /\ worker'.generation = 0 /\ worker'.passes = worker.passes
    BY <1>10 DEF SyncTokenExpired, TypeOK
  <2> QED
    BY <2>1 DEF PhaseOK
<1>11. CASE ForgetToken
  <2>1. worker' = worker /\ worker.at \in {"idle", "gaveup"}
    BY <1>11 DEF ForgetToken
  <2> QED
    BY <2>1 DEF PhaseOK
<1> QED
  BY <1>1, <1>2, <1>3, <1>4, <1>5, <1>6, <1>7, <1>8, <1>9, <1>10, <1>11 DEF Next, Pull

\* What holds of every event when the last page has been applied and nothing is
\* stale: the new token covers it.
LEMMA CompleteCovers ==
  ASSUME TypeOK, RowsOK, PhaseOK, CompleteRemoteSync, NEW e \in Events, ListingOK(e),
         Settled(e, worker.next)
  PROVE  Mirrored(e)
<1>1. /\ worker.todo = {} /\ worker.at = "apply"
      /\ worker.generation # 0 => e \notin Stale
  BY DEF CompleteRemoteSync, AllApplied
<1>2. CASE worker.generation = 0 \/ Listed(e)
  BY <1>1, <1>2 DEF ListingOK
<1>3. CASE worker.generation # 0 /\ ~Listed(e)
  <2>1. ~google.shown[e] /\ google.version[e] > 0
    BY <1>1, <1>3 DEF ListingOK, Settled
  <2>2. row[e].present => row[e].stamp >= worker.generation
    BY <1>1, <1>3, RowTyped DEF Stale
  <2>3. row[e].stamp <= worker.generation
    BY <1>1, <1>3 DEF PhaseOK, RowsOK, RowOK
  <2>4. ~row[e].present
    BY <1>3, <2>1, <2>2, <2>3, RowTyped DEF ListingOK
  <2> QED
    BY <2>1, <2>4 DEF Mirrored
<1> QED
  BY <1>2, <1>3

ListingsOK == worker.at = "apply" => \A e \in Events : ListingOK(e)

LEMMA TokenStep ==
  ASSUME TypeOK, TypeOK', RowsOK, PhaseOK, TokenOK, ListingsOK, Next
  PROVE  TokenOK'
<1>0. google.clock \in Nat /\ google'.clock \in Nat /\ google.clock <= google'.clock
  BY ClockStep DEF TypeOK, ClockMove
<1>1. CASE CompleteRemoteSync
  <2>1. /\ calendar'.token = worker.next /\ worker.at = "apply"
        /\ google' = google /\ row' = row
    BY <1>1 DEF CompleteRemoteSync, TypeOK
  <2>2. worker.next <= google.clock
    BY <2>1 DEF PhaseOK
  <2>3. ASSUME NEW e \in Events, Settled(e, worker.next)
        PROVE  Mirrored(e)
    BY <1>1, <2>1, <2>3, CompleteCovers DEF ListingsOK
  <2> QED
    BY <2>1, <2>2, <2>3 DEF TokenOK, Settled, Mirrored
<1>2. CASE BeginRemoteFullSync \/ ForgetToken
  <2>1. calendar'.token = NoToken
    BY <1>2 DEF BeginRemoteFullSync, ForgetToken, TypeOK
  <2> QED
    BY <2>1 DEF TokenOK
<1>3. CASE ~CompleteRemoteSync /\ ~BeginRemoteFullSync /\ ~ForgetToken
  <2>1. calendar' = calendar
    BY <1>3, OthersStep, UploadStep
    DEF Next, Pull, StartPull, ListEventChanges, ApplyRemotePage, SweepStale, EndCycle,
        SyncTokenExpired, CycleFails
  <2>2. SUFFICES ASSUME calendar.token # NoToken
                 PROVE  /\ calendar.token <= google'.clock
                        /\ \A e \in Events : Settled(e, calendar.token)' => Mirrored(e)'
    BY <2>1 DEF TokenOK
  <2>3. calendar.token \in Nat /\ calendar.token <= google.clock
    BY <2>2 DEF TokenOK, TypeOK
  <2>4. ~SweepStale
    BY <2>2 DEF SweepStale, PhaseOK
  <2>5. ASSUME NEW e \in Events, Settled(e, calendar.token)'
        PROVE  Mirrored(e)'
    <3>1. /\ google'.version[e] = google.version[e]
          /\ google.version[e] > 0 /\ google.version[e] <= calendar.token
      BY <2>1, <2>3, <2>5, <1>0, ClockStep DEF Settled, ClockMove, EventMove
    <3>2. Mirrored(e)
      BY <2>2, <3>1 DEF TokenOK, Settled
    <3>3. CASE ApplyRemotePage(e)
      <4>1. ListingOK(e) /\ worker.at = "apply"
        BY <3>3 DEF ApplyRemotePage, ListingsOK
      <4>2. calendar.token <= worker.next
        BY <2>2, <4>1 DEF PhaseOK
      <4>3. google.version[e] <= worker.next
        BY <2>3, <3>1, <4>2, RowTyped
      <4> QED
        BY <3>3, <4>1, <4>3, PageMirrors
    <3>4. CASE ~ApplyRemotePage(e)
      BY <2>4, <3>1, <3>2, <3>4, MirrorKept
    <3> QED
      BY <3>3, <3>4
  <2> QED
    BY <1>0, <2>3, <2>5
<1> QED
  BY <1>1, <1>2, <1>3

-----------------------------------------------------------------------------
(* The listing.                                                             *)

LEMMA ListingBegins ==
  ASSUME TypeOK, RowsOK, PhaseOK, TokenOK, ListEventChanges
  PROVE  ListingsOK'
<1>1. /\ worker.at = "list" /\ worker'.generation = worker.generation
      /\ worker'.next = google.clock /\ calendar' = calendar /\ google' = google /\ row' = row
      /\ worker'.todo = Found
  BY ListIs
<1>2. SUFFICES ASSUME NEW e \in Events
               PROVE  ListingOK(e)'
  BY DEF ListingsOK
<1>3. RowOK(e)
  BY DEF RowsOK
<1>4. CASE e \in Found
  <2>1. google.version[e] > 0
    <3>1. CASE worker.generation = 0
      <4>1. calendar.token \in Nat
        BY <1>1, <3>1 DEF PhaseOK, TypeOK
      <4> QED
        BY <1>4, <3>1, <4>1, RowTyped DEF Found, Changed
    <3>2. CASE worker.generation # 0
      BY <1>4, <3>2 DEF Found, Shown
    <3> QED
      BY <3>1, <3>2
  <2>2. worker'.listing[e] = [version |-> google.version[e], alive |-> google.alive[e]]
    BY <1>4, ListIs
  <2>3. worker'.listing[e].version = google.version[e] /\ worker'.listing[e].alive = google.alive[e]
    BY <2>2
  <2> QED
    BY <1>1, <1>4, <2>1, <2>2, <2>3, RowTyped DEF ListingOK, Listed
<1>5. CASE e \notin Found
  <2>1. worker'.listing[e].version = 0 /\ worker'.listing[e].alive = FALSE
    <3>1. worker'.listing[e] = NotListed
      BY <1>5, ListIs
    <3> QED
      BY <3>1 DEF NotListed
  <2>2. CASE worker.generation = 0
    <3>1. calendar.token \in Nat /\ calendar.token # NoToken
      BY <1>1, <2>2 DEF PhaseOK, TypeOK
    <3>2. google.version[e] <= calendar.token
      BY <1>5, <2>2, <3>1, RowTyped DEF Found, Changed
    <3>3. google.version[e] > 0 => Mirrored(e)
      BY <3>1, <3>2 DEF TokenOK, Settled
    <3>4. google.version[e] > 0 => Mirrored(e)'
      BY <1>1, <3>3 DEF Mirrored
    <3> QED
      BY <1>1, <1>5, <2>1, <2>2, <3>4, RowTyped DEF ListingOK, Listed, Settled
  <2>3. CASE worker.generation # 0
    <3>1. google.version[e] > 0 => ~google.shown[e]
      BY <1>5, <2>3 DEF Found, Shown
    <3>2. row[e].stamp < worker.generation
      BY <1>1, <2>3 DEF PhaseOK
    <3> QED
      BY <1>1, <1>5, <2>1, <2>3, <3>1, <3>2, RowTyped DEF ListingOK, Listed, Settled
  <2> QED
    BY <2>2, <2>3
<1> QED
  BY <1>4, <1>5

\* How a row can change between two pages, cleanups apart.
RowMove(f) ==
  \/ row'[f] = row[f]
  \/ ~row'[f].present
  \/ google.version[f] = 0 /\ row'[f].stamp = 0
  \/ /\ row'[f].present = row[f].present /\ row'[f].stamp = row[f].stamp
     /\ row'[f].base = row[f].base
  \/ ApplyRemotePage(f)

LEMMA RowMoves ==
  ASSUME TypeOK, Others \/ \E e \in Events : ApplyRemotePage(e), NEW f \in Events
  PROVE  RowMove(f)
<1>1. ASSUME NEW e \in Events, NEW r, Put(e, r), e # f
      PROVE  RowMove(f)
  BY <1>1, PutIs DEF RowMove
<1>2. CASE row' = row
  BY <1>2 DEF RowMove
<1>3. ASSUME NEW e \in Events, CreateLocally(e)
      PROVE  RowMove(f)
  <2>1. PICK r \in Row : Put(e, r) /\ r.stamp = 0
    BY <1>3, CreateIs
  <2>2. CASE e = f
    BY <1>3, <2>1, <2>2, PutIs DEF RowMove, CreateLocally
  <2> QED
    BY <1>1, <2>1, <2>2
<1>4. ASSUME NEW e \in Events, EditLocally(e)
      PROVE  RowMove(f)
  <2>1. PICK r \in Row : /\ Put(e, r) /\ r.present /\ r.stamp = row[e].stamp
                         /\ r.base = row[e].base
    BY <1>4, EditIs
  <2>2. CASE e = f
    <3>1. row'[f].present = row[f].present
      BY <1>4, <2>1, <2>2, PutIs, RowTyped DEF EditLocally, Row
    <3> QED
      BY <2>1, <2>2, <3>1, PutIs DEF RowMove
  <2> QED
    BY <1>1, <2>1, <2>2
<1>5. ASSUME NEW e \in Events, DeleteLocally(e)
      PROVE  RowMove(f)
  <2>1. PICK r \in Row : Put(e, r) /\ ~r.present
    BY <1>5, DeleteIs
  <2>2. CASE e = f
    BY <2>1, <2>2, PutIs DEF RowMove
  <2> QED
    BY <1>1, <2>1, <2>2
<1>6. ASSUME NEW e \in Events, ApplyRemotePage(e)
      PROVE  RowMove(f)
  <2>1. \E r : Put(e, r)
    BY <1>6, PageIs
  <2>2. CASE e = f
    BY <1>6, <2>2 DEF RowMove
  <2> QED
    BY <1>1, <2>1, <2>2
<1> QED
  BY <1>2, <1>3, <1>4, <1>5, <1>6 DEF Others, RemoteWrite, LeaveWindow

\* Whatever the user, Google and the pages do, cleanups apart.
LEMMA ListingKept ==
  ASSUME TypeOK, TypeOK', RowsOK, RowsOK', PhaseOK, worker.at = "apply", Next,
         Others \/ \E e \in Events : ApplyRemotePage(e), NEW f \in Events, ListingOK(f)
  PROVE  ListingOK(f)'
<1>1. /\ worker'.listing = worker.listing /\ worker'.generation = worker.generation
      /\ worker'.next = worker.next
      /\ f \in worker'.todo => f \in worker.todo
      /\ f \notin worker'.todo => f \notin worker.todo \/ ApplyRemotePage(f)
  <2>1. CASE Others
    BY <2>1, OthersStep
  <2>2. ASSUME NEW e \in Events, ApplyRemotePage(e)
        PROVE  /\ worker'.listing = worker.listing /\ worker'.generation = worker.generation
               /\ worker'.next = worker.next /\ worker'.todo = worker.todo \ {e}
    BY <2>2 DEF ApplyRemotePage, TypeOK
  <2> QED
    BY <2>1, <2>2
<1>2. /\ worker.next \in Nat /\ google.clock \in Nat /\ worker.next <= google.clock
      /\ google.version[f] \in Nat /\ google.version[f] <= google.clock
      /\ google'.version[f] \in Nat /\ worker.listing[f].version \in Nat
  BY DEF TypeOK, PhaseOK, RowsOK, RowOK
<1>3. EventMove(f)
  BY ClockStep DEF ClockMove
<1>4. /\ google'.version[f] >= google.version[f]
      /\ google'.version[f] <= worker.next =>
           google'.version[f] = google.version[f] /\ google'.alive[f] = google.alive[f]
  BY <1>2, <1>3 DEF EventMove
<1>5. ApplyRemotePage(f) => f \in worker.todo /\ Listed(f)
  BY DEF ApplyRemotePage, ListingOK
<1>6. ~SweepStale
  <2>1. CASE Others
    <3>1. worker.passes \in Nat /\ worker' = worker
      BY <2>1, OthersStep DEF TypeOK
    <3>2. SweepStale => worker'.passes = worker.passes + 1
      BY DEF SweepStale, TypeOK
    <3> QED
      BY <3>1, <3>2
  <2>2. CASE \E e \in Events : ApplyRemotePage(e)
    BY <2>2 DEF ApplyRemotePage, SweepStale, AllApplied
  <2> QED
    BY <2>1, <2>2
<1>7. Settled(f, worker.next)' /\ f \notin worker'.todo =>
        (IF worker.generation = 0 \/ Listed(f) THEN Mirrored(f) ELSE ~google.shown[f])'
  <2>1. SUFFICES ASSUME Settled(f, worker.next)', f \notin worker'.todo
                 PROVE  IF worker.generation = 0 \/ Listed(f) THEN Mirrored(f)'
                        ELSE ~google'.shown[f]
    BY <1>1 DEF Listed
  <2>2. /\ google'.version[f] = google.version[f] /\ google'.alive[f] = google.alive[f]
        /\ google.version[f] > 0 /\ google.version[f] <= worker.next
    BY <1>1, <1>4, <2>1 DEF Settled
  <2>3. CASE ApplyRemotePage(f)
    BY <1>5, <2>2, <2>3, PageMirrors
  <2>4. CASE f \notin worker.todo
    <3>1. IF worker.generation = 0 \/ Listed(f) THEN Mirrored(f) ELSE ~google.shown[f]
      BY <2>2, <2>4 DEF ListingOK, Settled
    <3>2. CASE Mirrored(f) /\ (worker.generation = 0 \/ Listed(f))
      <4>1. ~ApplyRemotePage(f)
        BY <1>5, <2>4
      <4> QED
        BY <1>6, <2>2, <3>2, <4>1, MirrorKept
    <3> QED
      BY <1>3, <3>1, <3>2 DEF EventMove
  <2> QED
    BY <1>1, <2>1, <2>3, <2>4
<1>8. /\ row[f] \in Row /\ row'[f] \in Row /\ worker.generation \in Nat
      /\ RowOK(f) /\ RowOK(f)'
  BY DEF TypeOK, RowsOK
<1>9. worker.generation # 0 /\ worker.listing[f].alive /\ f \notin worker'.todo /\ row'[f].present =>
        row'[f].stamp = worker.generation
  <2>1. SUFFICES ASSUME worker.generation # 0, worker.listing[f].alive, f \notin worker'.todo,
                        row'[f].present
                 PROVE  row'[f].stamp = worker.generation
    OBVIOUS
  <2>2. CASE ApplyRemotePage(f)
    <3>1. PICK outcome \in RowEdits : Put(f, Pulled(row[f], worker.listing[f].version, outcome))
      BY <2>1, <2>2, PageIs
    <3> DEFINE v == worker.listing[f].version
    <3>2. row'[f] = Pulled(row[f], v, outcome)
      BY <3>1, PutIs
    <3>3. v \in Nat /\ row[f] \in Row
      BY <1>2, <1>8
    <3> HIDE DEF v
    <3>4. Pulled(row[f], v, outcome).stamp = IF worker.generation = 0 THEN row[f].stamp
                                             ELSE worker.generation
      BY <3>3, PulledIs
    <3> QED
      BY <2>1, <3>2, <3>4
  <2>3. CASE f \notin worker.todo
    <3>1. worker.listing[f].version > 0
      BY <2>1 DEF ListingOK, Listed
    <3>2. google.version[f] # 0
      BY <1>2, <3>1 DEF ListingOK
    <3>3. row'[f] = row[f] \/ (row'[f].present = row[f].present /\ row'[f].stamp = row[f].stamp)
      BY <1>5, <2>1, <2>3, <3>2, RowMoves DEF RowMove
    <3> QED
      BY <2>1, <2>3, <3>3 DEF ListingOK
  <2> QED
    BY <1>1, <2>1, <2>2, <2>3
<1>10. worker.generation # 0 /\ row'[f].present /\ row'[f].stamp = worker.generation
         /\ google'.version[f] > 0 => Listed(f)
  <2>1. SUFFICES ASSUME worker.generation # 0, row'[f].present, row'[f].stamp = worker.generation,
                        google'.version[f] > 0, ~ApplyRemotePage(f)
                 PROVE  Listed(f)
    BY <1>5
  <2>2. row[f].present /\ row[f].stamp = worker.generation
    BY <1>8, <2>1, RowMoves DEF RowMove
  <2>3. CASE google.version[f] > 0
    BY <2>1, <2>2, <2>3 DEF ListingOK
  <2>4. CASE google.version[f] = 0
    <3>1. row[f].base = 0
      BY <1>8, <2>4, RowTyped DEF RowOK
    <3>2. row'[f].base # 0
      BY <1>8, <2>1 DEF RowOK
    <3>3. row'[f].base = row[f].base
      BY <1>8, <2>1, RowMoves DEF RowMove
    <3> QED
      BY <3>1, <3>2, <3>3
  <2> QED
    BY <1>2, <2>3, <2>4
<1> QED
  BY <1>1, <1>2, <1>4, <1>7, <1>9, <1>10 DEF ListingOK, Listed

\* A cleanup leaves what was listed alive, and what it touches is not there at
\* Google or has not been sent.
LEMMA SweepSpares ==
  ASSUME TypeOK, ListingsOK, SweepStale, NEW e \in Events, worker.listing[e].alive
  PROVE  e \notin Stale /\ row'[e] = row[e]
<1>1. ListingOK(e) /\ worker.todo = {} /\ worker.generation # 0
  BY DEF SweepStale, AllApplied, ListingsOK
<1>2. e \notin Stale
  BY <1>1, RowTyped DEF ListingOK, Stale
<1> QED
  BY <1>2, SweepIs

LEMMA ListingSwept ==
  ASSUME TypeOK, RowsOK, ListingsOK, SweepStale, NEW e \in Events
  PROVE  ListingOK(e)'
<1>1. /\ google' = google /\ worker'.listing = worker.listing /\ worker'.next = worker.next
      /\ worker'.generation = worker.generation /\ worker'.todo = {} /\ worker.todo = {}
      /\ worker.generation # 0 /\ ListingOK(e) /\ RowOK(e)
  BY DEF SweepStale, AllApplied, TypeOK, ListingsOK, RowsOK
<1>2. CASE e \notin Stale
  <2>1. row'[e] = row[e]
    BY <1>2, SweepIs
  <2>2. Mirrored(e) => Mirrored(e)'
    BY <1>1, <2>1, MirrorSame
  <2> QED
    BY <1>1, <2>1, <2>2 DEF ListingOK, Listed, Settled
<1>3. CASE e \in Stale
  <2>1. row[e].present /\ row[e].stamp < worker.generation /\ row'[e] = Swept(row[e])
    BY <1>3, SweepIs DEF Stale
  <2>2. ~worker.listing[e].alive
    BY <1>3, SweepSpares
  <2>3. CASE row[e].base = 0
    <3>1. google.version[e] = 0
      BY <1>1, <2>1, <2>3 DEF RowOK
    <3> QED
      BY <1>1, <2>2, <3>1 DEF ListingOK, Listed, Settled
  <2>4. CASE row[e].base # 0
    <3>1. row'[e] = Removed(row[e])
      BY <2>1, <2>4, RowTyped, SweptIs
    <3>2. row'[e].present => row'[e].edits # "none" /\ row'[e].stamp # worker.generation
      BY <2>1, <3>1, RowTyped, RemovedIs, StuckIs, NoRowIs
    <3>3. Settled(e, worker.next) /\ Listed(e) => ~google.alive[e]
      BY <1>1, <2>2 DEF ListingOK, Listed, Settled
    <3>4. Settled(e, worker.next) /\ Listed(e) => Mirrored(e)'
      BY <1>1, <3>2, <3>3 DEF Mirrored
    <3> QED
      BY <1>1, <2>2, <3>2, <3>4 DEF ListingOK, Listed, Settled
  <2> QED
    BY <2>3, <2>4
<1> QED
  BY <1>2, <1>3

LEMMA ListingStep ==
  ASSUME TypeOK, TypeOK', RowsOK, RowsOK', PhaseOK, TokenOK, ListingsOK, Next
  PROVE  ListingsOK'
<1>1. CASE ListEventChanges
  BY <1>1, ListingBegins
<1>2. CASE SweepStale
  BY <1>2, ListingSwept DEF ListingsOK
<1>3. CASE Others \/ \E e \in Events : ApplyRemotePage(e)
  <2>1. worker'.at = worker.at
    <3>1. CASE Others
      BY <3>1, OthersStep
    <3>2. CASE \E e \in Events : ApplyRemotePage(e)
      BY <3>2 DEF ApplyRemotePage, TypeOK
    <3> QED
      BY <1>3, <3>1, <3>2
  <2> QED
    BY <1>3, <2>1, ListingKept DEF ListingsOK
<1>4. CASE Upload
  BY <1>4, UploadStep DEF ListingsOK
<1>5. CASE StartPull \/ BeginRemoteFullSync \/ CompleteRemoteSync \/ EndCycle
           \/ SyncTokenExpired \/ ForgetToken \/ CycleFails
  <2>1. worker'.at # "apply"
    <3>1. CASE StartPull
      <4>1. worker' = [Idle EXCEPT !.at = IF calendar.token = NoToken THEN "begin" ELSE "list"]
        BY <3>1 DEF StartPull
      <4> QED
        BY <4>1, IdleTyped
    <3>2. CASE CompleteRemoteSync
      <4>1. worker' = [Idle EXCEPT !.at = "upload"]
        BY <3>2 DEF CompleteRemoteSync
      <4> QED
        BY <4>1, IdleTyped
    <3>3. CASE EndCycle \/ CycleFails
      BY <3>3 DEF EndCycle, CycleFails, Idle
    <3>4. CASE BeginRemoteFullSync \/ SyncTokenExpired
      BY <3>4 DEF BeginRemoteFullSync, SyncTokenExpired, TypeOK
    <3>5. CASE ForgetToken
      BY <3>5 DEF ForgetToken
    <3> QED
      BY <1>5, <3>1, <3>2, <3>3, <3>4, <3>5
  <2> QED
    BY <2>1 DEF ListingsOK
<1> QED
  BY <1>1, <1>2, <1>3, <1>4, <1>5 DEF Next, Pull

-----------------------------------------------------------------------------
(* The cleanup's passes.                                                    *)

Conflicted == \E e \in Events : row[e].base # 0 /\ row[e].edits = "stuck"

LEMMA SeenFinite ==
  /\ IsFiniteSet(Seen) /\ Cardinality(Seen) \in Nat
  /\ IsFiniteSet(LocalOnly) /\ Cardinality(LocalOnly) \in Nat
<1>1. Seen \in SUBSET Events /\ LocalOnly \in SUBSET Events
  BY DEF Seen, LocalOnly
<1> QED
  BY <1>1, EventsAssumption, FS_Subset, FS_CardinalityType

LEMMA SeenFiniteNext == (IsFiniteSet(Seen) /\ Cardinality(Seen) \in Nat)'
<1>1. Seen' \in SUBSET Events
  BY DEF Seen, LocalOnly
<1> QED
  BY <1>1, EventsAssumption, FS_Subset, FS_CardinalityType

\* What the user does between two passes: at most a new create becomes stale.
UserMove ==
  /\ Conflicted => Conflicted'
  /\ \A e \in Events : /\ e \in Stale' => e \in Stale \/ row'[e].base = 0
                       /\ e \in Stale /\ row[e].base = 0 => row'[e].base = 0
                       /\ e \in Seen => e \in Seen'

LEMMA UserMoves ==
  ASSUME TypeOK, RowsOK, Others
  PROVE  UserMove
<1>1. worker' = worker
  BY OthersStep
<1>2. CASE row' = row
  BY <1>1, <1>2 DEF UserMove, Conflicted, Stale, Seen, LocalOnly
<1>3. ASSUME NEW e \in Events, NEW r \in Row, Put(e, r),
             row[e].base # 0 /\ row[e].edits = "stuck" => r.base # 0 /\ r.edits = "stuck",
             r.present /\ r.stamp < worker.generation => e \in Stale \/ r.base = 0,
             row[e].base = 0 => r.base = 0,
             e \in Seen => r # NoRow /\ ~(r.present /\ r.stamp < worker.generation)
      PROVE  UserMove
  <2>1. row'[e] = r /\ \A f \in Events \ {e} : row'[f] = row[f]
    BY <1>3, PutIs
  <2>2. Conflicted => Conflicted'
    BY <1>3, <2>1 DEF Conflicted
  <2>3. ASSUME NEW f \in Events
        PROVE  /\ f \in Stale' => f \in Stale \/ row'[f].base = 0
               /\ f \in Stale /\ row[f].base = 0 => row'[f].base = 0
               /\ f \in Seen => f \in Seen'
    <3>1. CASE f = e
      BY <1>1, <1>3, <2>1, <3>1 DEF Stale, Seen, LocalOnly
    <3>2. CASE f # e
      BY <1>1, <2>1, <3>2 DEF Stale, Seen, LocalOnly
    <3> QED
      BY <3>1, <3>2
  <2> QED
    BY <2>2, <2>3 DEF UserMove
<1>4. ASSUME NEW e \in Events, CreateLocally(e)
      PROVE  UserMove
  <2>1. row[e] = NoRow
    BY <1>4 DEF CreateLocally
  <2>2. e \notin Seen /\ row[e].edits = "none"
    BY <2>1, NoRowIs DEF Seen, LocalOnly
  <2>3. PICK r \in Row : Put(e, r) /\ r.base = 0
    BY <1>4, CreateIs
  <2> QED
    BY <1>3, <2>2, <2>3
<1>5. ASSUME NEW e \in Events, EditLocally(e)
      PROVE  UserMove
  <2>1. row[e].present /\ row[e].edits = "none"
    BY <1>5 DEF EditLocally
  <2>2. PICK r \in Row : /\ Put(e, r) /\ r.present /\ r.base = row[e].base
                         /\ r.stamp = row[e].stamp
    BY <1>5, EditIs
  <2>3. r # NoRow
    BY <2>2, NoRowIs
  <2>4. e \in Stale <=> row[e].stamp < worker.generation
    BY <2>1 DEF Stale
  <2> QED
    BY <1>3, <2>1, <2>2, <2>3, <2>4 DEF Seen
<1>6. ASSUME NEW e \in Events, DeleteLocally(e)
      PROVE  UserMove
  <2>1. PICK r \in Row : /\ Put(e, r) /\ ~r.present /\ r.deleting
                         /\ IF row[e].base = 0 /\ row[e].edits = "open"
                            THEN r.base = 0 /\ r.edits = "none"
                            ELSE /\ r.base = row[e].base
                                 /\ row[e].edits = "stuck" => r.edits = "stuck"
    BY <1>6, DeleteIs
  <2>2. r # NoRow
    BY <2>1, NoRowIs
  <2> QED
    BY <1>3, <2>1, <2>2
<1> QED
  BY <1>2, <1>4, <1>5, <1>6 DEF Others, RemoteWrite, LeaveWindow

\* A pass has done with every local create, and only a conflict stays stale.
LEMMA PassMoves ==
  ASSUME TypeOK, RowsOK, SweepStale
  PROVE  /\ Conflicted => Conflicted'
         /\ Stale' # {} => Conflicted'
         /\ Seen \subseteq Seen'
         /\ \A e \in Stale : row[e].base = 0 => e \in Seen' /\ e \notin Seen
<1>1. worker'.generation = worker.generation
  BY DEF SweepStale, TypeOK
<1>2. ASSUME NEW e \in Events
      PROVE  /\ row[e].base # 0 /\ row[e].edits = "stuck" => row'[e].base # 0 /\ row'[e].edits = "stuck"
             /\ e \in Stale' => row'[e].base # 0 /\ row'[e].edits = "stuck"
             /\ e \in Seen => e \in Seen'
             /\ e \in Stale /\ row[e].base = 0 => e \in Seen' /\ e \notin Seen
  <2>1. CASE e \notin Stale
    <3>1. row'[e] = row[e]
      BY <2>1, SweepIs
    <3> QED
      BY <1>1, <2>1, <3>1 DEF Stale, Seen, LocalOnly
  <2>2. CASE e \in Stale /\ row[e].base = 0
    <3> DEFINE r == row[e]
    <3>1. r \in Row /\ r.base = 0 /\ r.present
      BY <2>2, RowTyped DEF Stale
    <3>2. row'[e] = Swept(r)
      BY <2>2, SweepIs
    <3>3. e \notin Seen /\ row[e].base = 0
      BY <2>2 DEF Seen
    <3> HIDE DEF r
    <3>4. Swept(r).base = 0 /\ Swept(r).stamp = worker.generation /\ Swept(r).present
      BY <3>1, SweptIs
    <3>5. row'[e].base = 0 /\ row'[e].stamp = worker'.generation /\ row'[e] # NoRow
      BY <1>1, <3>2, <3>4, NoRowIs
    <3>6. worker'.generation \in Nat
      BY <1>1, RowTyped
    <3>7. e \notin Stale' /\ e \in Seen'
      BY <3>5, <3>6 DEF Stale, Seen, LocalOnly
    <3> QED
      BY <3>3, <3>7
  <2>3. CASE e \in Stale /\ row[e].base # 0
    <3>1. row'[e] = Removed(row[e])
      BY <2>3, SweepIs, RowTyped, SweptIs
    <3>2. CASE row[e].edits = "none"
      <4>1. ~row'[e].present
        BY <3>1, <3>2, RowTyped, RemovedIs, NoRowIs
      <4> QED
        BY <2>3, <3>2, <4>1 DEF Stale, Seen
    <3>3. CASE row[e].edits # "none"
      <4>1. row'[e].base # 0 /\ row'[e].edits = "stuck"
        BY <2>3, <3>1, <3>3, RowTyped, RemovedIs, StuckIs
      <4> QED
        BY <2>3, <4>1 DEF Seen
    <3> QED
      BY <3>2, <3>3
  <2> QED
    BY <2>1, <2>2, <2>3
<1>3. Stale' \subseteq Events /\ Stale \subseteq Events /\ Seen \subseteq Events
  BY DEF Stale, Seen, LocalOnly
<1> QED
  BY <1>2, <1>3 DEF Conflicted

LEMMA CleanupStep ==
  ASSUME TypeOK, TypeOK', RowsOK, PhaseOK, PhaseOK', CleanupOK, Next
  PROVE  CleanupOK'
<1>0. /\ worker.passes \in Nat
      /\ IsFiniteSet(Seen) /\ Cardinality(Seen) \in Nat
      /\ IsFiniteSet(Seen') /\ Cardinality(Seen') \in Nat
  BY SeenFinite, SeenFiniteNext DEF TypeOK
<1>1. CASE Others
  <2>1. worker' = worker /\ UserMove
    BY <1>1, OthersStep, UserMoves
  <2>2. SUFFICES ASSUME worker.at = "apply", worker.passes # 0, ~Conflicted
                 PROVE  /\ \A e \in Stale' : row'[e].base = 0
                        /\ worker.passes <= Cardinality(Seen') + 1
    BY <2>1 DEF CleanupOK, UserMove, Conflicted
  <2>3. /\ \A e \in Stale : row[e].base = 0
        /\ worker.passes <= Cardinality(Seen) + 1
    BY <2>2 DEF CleanupOK, Conflicted
  <2>4. Stale' \subseteq Events /\ Seen \subseteq Seen'
    BY <2>1 DEF Stale, UserMove, Seen, LocalOnly
  <2>5. Cardinality(Seen) <= Cardinality(Seen')
    BY <1>0, <2>4, FS_Subset
  <2> QED
    BY <1>0, <2>1, <2>3, <2>4, <2>5 DEF UserMove
<1>2. CASE SweepStale
  <2>1. worker.at = "apply" /\ worker'.passes = worker.passes + 1 /\ Stale # {}
    BY <1>2 DEF SweepStale, TypeOK
  <2>2. SUFFICES ASSUME ~Conflicted, ~Conflicted'
                 PROVE  /\ \A e \in Stale' : row'[e].base = 0
                        /\ worker.passes + 1 <= Cardinality(Seen') + 1
    BY <1>2, <2>1, PassMoves DEF CleanupOK, Conflicted
  <2>3. Stale' = {} /\ Seen \subseteq Seen'
    BY <1>2, <2>2, PassMoves
  <2>4. CASE worker.passes = 0
    BY <1>0, <2>3, <2>4
  <2>5. CASE worker.passes # 0
    <3>1. /\ \A e \in Stale : row[e].base = 0
          /\ worker.passes <= Cardinality(Seen) + 1
      BY <2>1, <2>2, <2>5 DEF CleanupOK, Conflicted
    <3>2. PICK e \in Stale : e \in Seen' /\ e \notin Seen
      BY <1>2, <2>1, <3>1, PassMoves
    <3>3. Cardinality(Seen \cup {e}) = Cardinality(Seen) + 1
      BY <1>0, <3>2, FS_AddElement
    <3>4. Cardinality(Seen \cup {e}) <= Cardinality(Seen')
      BY <1>0, <2>3, <3>2, FS_Subset
    <3> QED
      BY <1>0, <2>3, <3>1, <3>3, <3>4
  <2> QED
    BY <2>4, <2>5
<1>3. ASSUME NEW e \in Events, ApplyRemotePage(e)
      PROVE  CleanupOK'
  <2>1. worker.at = "apply" /\ worker.todo # {} /\ worker'.passes = worker.passes
    BY <1>3 DEF ApplyRemotePage, TypeOK
  <2> QED
    BY <2>1 DEF PhaseOK, CleanupOK
<1>4. CASE ListEventChanges
  BY <1>4, ListIs DEF PhaseOK, CleanupOK
<1>5. CASE Upload
  BY <1>5, UploadStep DEF CleanupOK
<1>6. CASE BeginRemoteFullSync \/ SyncTokenExpired \/ ForgetToken
  <2>1. worker'.at # "apply"
    BY <1>6 DEF BeginRemoteFullSync, SyncTokenExpired, ForgetToken, TypeOK
  <2> QED
    BY <2>1 DEF CleanupOK
<1>7. CASE StartPull \/ CompleteRemoteSync \/ EndCycle \/ CycleFails
  <2>1. worker'.passes = 0
    <3>1. CASE StartPull
      <4>1. worker' = [Idle EXCEPT !.at = IF calendar.token = NoToken THEN "begin" ELSE "list"]
        BY <3>1 DEF StartPull
      <4> QED
        BY <4>1, IdleTyped
    <3>2. CASE CompleteRemoteSync
      <4>1. worker' = [Idle EXCEPT !.at = "upload"]
        BY <3>2 DEF CompleteRemoteSync
      <4> QED
        BY <4>1, IdleTyped
    <3>3. CASE EndCycle \/ CycleFails
      BY <3>3 DEF EndCycle, CycleFails, Idle
    <3> QED
      BY <1>7, <3>1, <3>2, <3>3
  <2> QED
    BY <2>1 DEF CleanupOK
<1> QED
  BY <1>1, <1>2, <1>3, <1>4, <1>5, <1>6, <1>7 DEF Next, Pull

-----------------------------------------------------------------------------
(* The theorems.                                                            *)

IInv ==
  /\ TypeOK
  /\ RowsOK
  /\ TokenOK
  /\ PhaseOK
  /\ ListingsOK
  /\ CleanupOK

LEMMA InvInit ==
  ASSUME Init
  PROVE  IInv
<1>1. TypeOK
  <2>1. google \in [clock : Nat, version : [Events -> Nat], alive : [Events -> BOOLEAN],
                   shown : [Events -> BOOLEAN]]
    BY DEF Init
  <2>2. calendar \in [token : Nat \cup {NoToken}, generation : Nat]
    BY DEF Init
  <2>3. row \in [Events -> Row]
    BY NoRowIs DEF Init
  <2> QED
    BY <2>1, <2>2, <2>3 DEF Init, TypeOK, Idle, NotListed
<1>2. RowsOK
  BY NoRowIs DEF Init, RowsOK, RowOK
<1>3. worker.at = "idle" /\ worker.generation = 0 /\ worker.passes = 0
  BY DEF Init, Idle
<1>4. calendar.token = NoToken
  BY DEF Init
<1> QED
  BY <1>1, <1>2, <1>3, <1>4 DEF IInv, TokenOK, PhaseOK, ListingsOK, CleanupOK

LEMMA InvNext ==
  ASSUME IInv, [Next]_vars
  PROVE  IInv'
<1>1. CASE Next
  <2>1. TypeOK'
    BY <1>1, TypeStep DEF IInv
  <2>2. RowsOK'
    BY <1>1, <2>1, RowsStep DEF IInv, ListingsOK
  <2>3. TokenOK'
    BY <1>1, <2>1, TokenStep DEF IInv
  <2>4. PhaseOK'
    BY <1>1, <2>1, PhaseStep DEF IInv
  <2>5. ListingsOK'
    BY <1>1, <2>1, <2>2, ListingStep DEF IInv
  <2>6. CleanupOK'
    BY <1>1, <2>1, <2>4, CleanupStep DEF IInv
  <2> QED
    BY <2>1, <2>2, <2>3, <2>4, <2>5, <2>6 DEF IInv
<1>2. CASE UNCHANGED vars
  BY <1>2 DEF vars, IInv, TypeOK, RowsOK, RowOK, TokenOK, Settled, Mirrored, PhaseOK, ListingsOK,
              ListingOK, Listed, CleanupOK, Stale, Seen, LocalOnly
<1> QED
  BY <1>1, <1>2

LEMMA Invariance == Spec => []IInv
BY InvInit, InvNext, PTL DEF Spec

\* The state of the pull has its types.
THEOREM PullTyped == Spec => []TypeOK
<1>1. IInv => TypeOK
  BY DEF IInv
<1> QED
  BY <1>1, Invariance, PTL

\* Whatever the token covers is on the rows, and no pull hides an edited event.
THEOREM TokenNeverOvertakesRows == Spec => []MirrorIsSound
<1>1. IInv => MirrorIsSound
  BY DEF IInv, MirrorIsSound, TokenCovers, TokenOK, Settled, EditsStayVisible, RowsOK, RowOK
<1> QED
  BY <1>1, Invariance, PTL

\* A cleanup that gives up has met a conflict, or a new local create in every
\* pass but the first.
LEMMA GivingUp ==
  ASSUME IInv, Next, worker'.at = "gaveup", worker.at # "gaveup"
  PROVE  Conflicted \/ Cardinality(LocalOnly) >= PassLimit - 1
<1>1. SweepStale
  <2>1. CASE Others \/ Upload
    BY <2>1, OthersStep, UploadStep
  <2>2. CASE StartPull
    <3>1. worker' = [Idle EXCEPT !.at = IF calendar.token = NoToken THEN "begin" ELSE "list"]
      BY <2>2 DEF StartPull
    <3> QED
      BY <3>1, IdleTyped
  <2>3. CASE CompleteRemoteSync
    <3>1. worker' = [Idle EXCEPT !.at = "upload"]
      BY <2>3 DEF CompleteRemoteSync
    <3> QED
      BY <3>1, IdleTyped
  <2>4. CASE EndCycle \/ CycleFails
    BY <2>4 DEF EndCycle, CycleFails, Idle
  <2>5. CASE BeginRemoteFullSync \/ SyncTokenExpired \/ ForgetToken
    BY <2>5 DEF BeginRemoteFullSync, SyncTokenExpired, ForgetToken, IInv, TypeOK
  <2>6. CASE ListEventChanges
    BY <2>6, ListIs DEF IInv
  <2>7. CASE \E e \in Events : ApplyRemotePage(e)
    BY <2>7 DEF ApplyRemotePage, IInv, TypeOK
  <2> QED
    BY <2>1, <2>2, <2>3, <2>4, <2>5, <2>6, <2>7 DEF Next, Pull
<1>2. /\ worker.at = "apply" /\ Stale # {} /\ worker.passes + 1 = PassLimit
      /\ worker.passes \in Nat
  BY <1>1 DEF SweepStale, IInv, TypeOK
<1>3. CASE worker.passes = 0
  BY <1>2, <1>3, SeenFinite, LimitAssumption
<1>4. CASE worker.passes # 0 /\ ~Conflicted
  <2>1. /\ \A e \in Stale : row[e].base = 0
        /\ worker.passes <= Cardinality(Seen) + 1
    BY <1>2, <1>4 DEF IInv, CleanupOK, Conflicted
  <2>2. PICK e \in Stale : e \in LocalOnly /\ e \notin Seen
    BY <1>2, <2>1, NoRowIs DEF Stale, LocalOnly, Seen
  <2>3. Cardinality(Seen \cup {e}) = Cardinality(Seen) + 1
    BY <2>2, SeenFinite, FS_AddElement
  <2>4. Seen \cup {e} \subseteq LocalOnly
    BY <2>2 DEF Seen
  <2>5. Cardinality(Seen \cup {e}) <= Cardinality(LocalOnly)
    BY <2>4, SeenFinite, FS_Subset
  <2> QED
    BY <1>2, <2>1, <2>3, <2>5, SeenFinite, LimitAssumption
<1> QED
  BY <1>3, <1>4

\* No cleanup takes an event away that was listed, and none gives up without a
\* conflict or a new local create between every two passes.
THEOREM CleanupIsSafe == Spec => SweepSparesListed
<1>1. ASSUME IInv, [Next]_vars
      PROVE  [/\ SweepStale => \A e \in Events : worker.listing[e].alive => row'[e] = row[e]
              /\ worker'.at = "gaveup" /\ worker.at # "gaveup" =>
                   \/ \E e \in Events : row[e].base # 0 /\ row[e].edits = "stuck"
                   \/ Cardinality(LocalOnly) >= PassLimit - 1]_vars
  <2>1. SweepStale => \A e \in Events : worker.listing[e].alive => row'[e] = row[e]
    BY <1>1, SweepSpares DEF IInv
  <2>2. CASE Next
    BY <1>1, <2>1, <2>2, GivingUp DEF Conflicted
  <2> QED
    BY <1>1, <2>1, <2>2
<1> QED
  BY <1>1, Invariance, PTL DEF Spec, SweepSparesListed
================================================================================
