------------------------- MODULE CalendarQueueProofs -------------------------
(***************************************************************************)
(* Proofs about CalendarQueue, for every value of its constants.  Each     *)
(* action is first reduced to what it does to the fields of every row      *)
(* (Becomes), then the inductive invariant IInv is shown to survive it;    *)
(* last, every step is mapped to a step of EditLog.  Proofs about          *)
(* SeriesUpload, the uploads of a recurring event's edits, follow.         *)
(***************************************************************************)
EXTENDS CalendarQueueRefinement, SeriesUpload, FiniteSetTheorems, SequenceTheorems, TLAPS

LEMMA InitIInv == Init => IInv
<1> SUFFICES ASSUME Init PROVE IInv
  OBVIOUS
<1> USE DEF Init, NoRow
<1>1. TypeOK
  BY DEF TypeOK, Row, Kinds, Done, Active
<1>2. ChainInv
  BY DEF ChainInv
<1>3. ReadyInv /\ LeaseInv /\ LeaderInv /\ GroupInv /\ OneOpenUpload
  BY DEF ReadyInv, LeaseInv, LeaderInv, GroupInv, OneOpenUpload, InDoubt
<1>4. NoOvertaking
  BY DEF NoOvertaking, Before, SameEvent, OnEvent
<1> QED
  BY <1>1, <1>2, <1>3, <1>4 DEF IInv

-----------------------------------------------------------------------------
(* What a step does to one row.                                            *)

\* A row is never moved to another chain, nor within its chain.
Static(o) ==
  /\ row'[o] \in Row
  /\ row'[o].event = row[o].event
  /\ row'[o].at    = row[o].at
  /\ row'[o].pred  = row[o].pred
  /\ row'[o].kind  = row[o].kind
  /\ row[o].state = "absent" => row'[o] = row[o]
  /\ row'[o].state = "absent" => row[o].state = "absent"

Becomes(o, state, ready, lease, prev, leader) ==
  /\ Static(o)
  /\ row'[o].state = state
  /\ row'[o].ready <=> ready
  /\ row'[o].lease = lease
  /\ row'[o].prev = prev
  /\ row'[o].leader = leader

Kept(o) == Becomes(o, row[o].state, row[o].ready, row[o].lease, row[o].prev, row[o].leader)

LEMMA KeptRow ==
  ASSUME TypeOK, NEW o \in Ops,
         row'[o] \in {row[o], PostponedRow(o), DueRow(o)},
         row[o].state = "absent" => row'[o] = row[o]
  PROVE  Kept(o)
<1>1. row[o] \in Row
  BY DEF TypeOK
<1>2. CASE row'[o] = row[o]
  BY <1>1, <1>2 DEF Kept, Becomes, Static
<1>3. CASE row[o].state # "absent" /\ \E due \in BOOLEAN : row'[o] = [row[o] EXCEPT !.due = due]
  <2>1. PICK due \in BOOLEAN : row'[o] = [row[o] EXCEPT !.due = due]
    BY <1>3
  <2> QED
    BY <1>1, <1>3, <2>1 DEF Kept, Becomes, Static, Row
<1> QED
  BY <1>2, <1>3 DEF PostponedRow, DueRow

LEMMA DemotedRowEffect ==
  ASSUME TypeOK, NEW o \in Ops, row[o].state # "absent", row'[o] = DemotedRow(o)
  PROVE  Becomes(o, row[o].state, FALSE, row[o].lease, row[o].prev, row[o].leader)
  BY DEF DemotedRow, Becomes, Static, TypeOK, Row

LEMMA UnlockedRowEffect ==
  ASSUME TypeOK, NEW o \in Ops, row[o].state # "absent", row'[o] = UnlockedRow(o)
  PROVE  Becomes(o, row[o].state, TRUE, row[o].lease, row[o].prev, row[o].leader)
  BY DEF UnlockedRow, Becomes, Static, TypeOK, Row

LEMMA CancelledRowEffect ==
  ASSUME TypeOK, NEW o \in Ops, row[o].state # "absent", row'[o] = CancelledRow(o)
  PROVE  Becomes(o, "cancelled", FALSE, row[o].lease, row[o].prev, row[o].leader)
  BY DEF CancelledRow, Becomes, Static, TypeOK, Row, Done

LEMMA AcknowledgedRowEffect ==
  ASSUME TypeOK, NEW o \in Ops, row[o].state # "absent", row'[o] = AcknowledgedRow(o)
  PROVE  Becomes(o, "succeeded", FALSE, None, "none", None)
  BY DEF AcknowledgedRow, Becomes, Static, TypeOK, Row, Done

LEMMA RefusedRowEffect ==
  ASSUME TypeOK, NEW o \in Ops, row[o].state # "absent",
         NEW s \in {"failed", "conflict"}, row'[o] = RefusedRow(o, s)
  PROVE  Becomes(o, s, FALSE, None, "none", None)
<1>1. row[o] \in Row
  BY DEF TypeOK
<1>2. row'[o] \in Row
  BY <1>1 DEF RefusedRow, Row, Active
<1> QED
  BY <1>1, <1>2 DEF RefusedRow, Becomes, Static, Row

LEMMA ConflictRowEffect ==
  ASSUME TypeOK, NEW o \in Ops, row[o].state # "absent",
         row'[o] \in {ConflictRow(o), [ConflictRow(o) EXCEPT !.due = TRUE]}
  PROVE  Becomes(o, "conflict", FALSE, None, "none", row[o].leader)
<1>1. row[o] \in Row
  BY DEF TypeOK
<1>2. CASE row'[o] = ConflictRow(o)
  <2>1. row'[o] \in Row
    BY <1>1, <1>2 DEF ConflictRow, Row, Active
  <2> QED
    BY <1>1, <1>2, <2>1 DEF ConflictRow, Becomes, Static, Row
<1>3. CASE row'[o] = [ConflictRow(o) EXCEPT !.due = TRUE]
  <2>1. row'[o] = [row[o] EXCEPT !.state = "conflict", !.ready = FALSE, !.due = TRUE,
                                 !.lease = None, !.prev = "none"]
    BY <1>1, <1>3 DEF ConflictRow, Row
  <2>2. row'[o] \in Row
    BY <1>1, <2>1 DEF Row, Active
  <2> QED
    BY <1>1, <2>1, <2>2 DEF Becomes, Static, Row
<1> QED
  BY <1>2, <1>3

LEMMA AmbiguousRowEffect ==
  ASSUME TypeOK, NEW o \in Ops, row[o].state # "absent", row'[o] = AmbiguousRow(o)
  PROVE  Becomes(o, "ambiguous", row[o].leader = o, None, "none", row[o].leader)
<1>1. row[o] \in Row
  BY DEF TypeOK
<1>2. CASE row[o].leader = o
  <2>1. row'[o] = [row[o] EXCEPT !.state = "ambiguous", !.ready = TRUE, !.due = FALSE,
                             !.lease = None, !.prev = "none"]
    BY <1>2 DEF AmbiguousRow
  <2>2. row'[o] \in Row
    BY <1>1, <2>1 DEF Row, Active
  <2> QED
    BY <1>1, <1>2, <2>1, <2>2 DEF Becomes, Static, Row
<1>3. CASE row[o].leader # o
  <2>1. row'[o] = [row[o] EXCEPT !.state = "ambiguous", !.ready = FALSE, !.due = FALSE,
                             !.lease = None, !.prev = "none"]
    BY <1>3 DEF AmbiguousRow
  <2>2. row'[o] \in Row
    BY <1>1, <2>1 DEF Row, Active
  <2> QED
    BY <1>1, <1>3, <2>1, <2>2 DEF Becomes, Static, Row
<1> QED
  BY <1>2, <1>3

LEMMA ReleasedRowEffect ==
  ASSUME TypeOK, NEW o \in Ops, row[o].state # "absent", row[o].leader # None,
         row'[o] = ReleasedRow(o)
  PROVE  Becomes(o, "ambiguous", row[o].leader = o, None, "none", row[o].leader)
<1>1. row[o] \in Row
  BY DEF TypeOK
<1>4. (row[o].leader \in {None, o}) = (row[o].leader = o)
  OBVIOUS
<1>2. CASE row[o].leader = o
  <2>1. row'[o] = [row[o] EXCEPT !.state = "ambiguous", !.ready = TRUE, !.due = TRUE,
                             !.lease = None, !.prev = "none"]
    BY <1>2, <1>4 DEF ReleasedRow
  <2>2. row'[o] \in Row
    BY <1>1, <2>1 DEF Row, Active
  <2> QED
    BY <1>1, <1>2, <2>1, <2>2 DEF Becomes, Static, Row
<1>3. CASE row[o].leader # o
  <2>1. row'[o] = [row[o] EXCEPT !.state = "ambiguous", !.ready = FALSE, !.due = TRUE,
                             !.lease = None, !.prev = "none"]
    BY <1>3, <1>4 DEF ReleasedRow
  <2>2. row'[o] \in Row
    BY <1>1, <2>1 DEF Row, Active
  <2> QED
    BY <1>1, <1>3, <2>1, <2>2 DEF Becomes, Static, Row
<1> QED
  BY <1>2, <1>3

LEMMA RetriedRowEffect ==
  ASSUME TypeOK, NEW o \in Ops, row[o].state # "absent", row'[o] = RetriedRow(o),
         NEW s \in {"pending", "ambiguous"}, s = "ambiguous" <=> row[o].prev = "ambiguous"
  PROVE  Becomes(o, s, row[o].leader = o, None, "none", row[o].leader)
<1>1. row[o] \in Row
  BY DEF TypeOK
<1>4. s = IF row[o].prev = "ambiguous" THEN "ambiguous" ELSE "pending"
  OBVIOUS
<1>2. CASE row[o].leader = o
  <2>1. row'[o] = [row[o] EXCEPT !.state = s, !.ready = TRUE, !.due = FALSE,
                             !.lease = None, !.prev = "none"]
    BY <1>2, <1>4 DEF RetriedRow
  <2>2. row'[o] \in Row
    BY <1>1, <2>1 DEF Row, Active
  <2> QED
    BY <1>1, <1>2, <2>1, <2>2 DEF Becomes, Static, Row
<1>3. CASE row[o].leader # o
  <2>1. row'[o] = [row[o] EXCEPT !.state = s, !.ready = FALSE, !.due = FALSE,
                             !.lease = None, !.prev = "none"]
    BY <1>3, <1>4 DEF RetriedRow
  <2>2. row'[o] \in Row
    BY <1>1, <2>1 DEF Row, Active
  <2> QED
    BY <1>1, <1>3, <2>1, <2>2 DEF Becomes, Static, Row
<1> QED
  BY <1>2, <1>3

LEMMA LeasedRowEffect ==
  ASSUME TypeOK, NEW o \in Ops, NEW a \in Ops, NEW l \in Leases,
         row[o].state \in Uploadable, row'[o] = LeasedRow(o, a, l),
         NEW p \in {"pending", "ambiguous"}, p = "pending" <=> row[o].state = "pending"
  PROVE  Becomes(o, "syncing", o = a, l, p, a)
<1>1. row[o] \in Row /\ row[o].state # "absent"
  BY DEF TypeOK, Uploadable
<1>4. p = IF row[o].state = "syncing" THEN "ambiguous" ELSE row[o].state
  BY DEF Uploadable
<1>2. CASE o = a
  <2>1. row'[o] = [row[o] EXCEPT !.state = "syncing", !.ready = TRUE, !.due = FALSE,
                             !.lease = l, !.prev = p, !.leader = a]
    BY <1>2, <1>4 DEF LeasedRow
  <2>2. row'[o] \in Row
    BY <1>1, <2>1 DEF Row, Active
  <2> QED
    BY <1>1, <1>2, <2>1, <2>2 DEF Becomes, Static, Row
<1>3. CASE o # a
  <2>1. row'[o] = [row[o] EXCEPT !.state = "syncing", !.ready = FALSE, !.due = FALSE,
                             !.lease = l, !.prev = p, !.leader = a]
    BY <1>3, <1>4 DEF LeasedRow
  <2>2. row'[o] \in Row
    BY <1>1, <2>1 DEF Row, Active
  <2> QED
    BY <1>1, <1>3, <2>1, <2>2 DEF Becomes, Static, Row
<1> QED
  BY <1>2, <1>3

-----------------------------------------------------------------------------
(* The chain of an event.                                                  *)

LEMMA BeforeOrder ==
  ASSUME TypeOK, ChainInv, NEW x \in Ops, NEW y \in Ops, NEW z \in Ops
  PROVE  /\ ~Before(x, x)
         /\ Before(x, y) => ~Before(y, x)
         /\ Before(x, y) => row[x].state # "absent" /\ row[y].state # "absent"
         /\ Before(x, y) => SameEvent(x, y) /\ SameEvent(y, x)
         /\ Before(x, y) /\ Before(y, z) => Before(x, z)
         /\ SameEvent(x, y) /\ row[y].state # "absent" => x = y \/ Before(x, y) \/ Before(y, x)
<1>1. row[x].at \in Nat /\ row[y].at \in Nat /\ row[z].at \in Nat
  BY DEF TypeOK, Row
<1>2. \A o \in Ops : row[o].state = "absent" => row[o].event = None
  BY DEF ChainInv, NoRow
<1>3. \A o \in Ops : row[o].state # "absent" => row[o].event # None
  BY NoneAssumption DEF ChainInv
<1>4. row[x].state # "absent" /\ row[y].state # "absent" /\ row[x].at = row[y].at => x = y
  BY DEF ChainInv
<1> QED
  BY <1>1, <1>2, <1>3, <1>4 DEF Before, SameEvent, OnEvent

\* Behind a row whose predecessor is settled everything is settled.
LEMMA PredDoneBehind ==
  ASSUME TypeOK, ChainInv, NoOvertaking,
         NEW p \in Ops, PredDone(p), NEW o \in Ops, Before(o, p)
  PROVE  row[o].state \in Done \cup {"conflict"}
<1> DEFINE q == row[p].pred
<1>1. row[p].state # "absent"
  BY BeforeOrder
<1>2. q # None
  BY <1>1 DEF ChainInv
<1>3. q \in Ops
  BY <1>2 DEF TypeOK, Row
<1>4. row[q].state \in Done
  BY <1>2 DEF PredDone
<1>5. Before(q, p) /\ row[o].at <= row[q].at
  BY <1>1, <1>2 DEF ChainInv
<1>6. o = q \/ Before(o, q)
  <2>1. row[o].state # "absent" /\ row[q].state # "absent"
    BY <1>3, <1>5, BeforeOrder
  <2>2. row[o].at \in Nat /\ row[q].at \in Nat
    BY <1>3 DEF TypeOK, Row
  <2>3. SameEvent(o, q)
    BY <1>5 DEF Before, SameEvent, OnEvent
  <2>4. row[o].at = row[q].at => o = q
    BY <2>1, <1>3 DEF ChainInv
  <2> QED
    BY <1>5, <2>2, <2>3, <2>4 DEF Before
<1> HIDE DEF q
<1> QED
  BY <1>3, <1>4, <1>6 DEF NoOvertaking

-----------------------------------------------------------------------------
(* Steps that change states only: chains, and their order, stay.           *)

ChangesStates ==
  /\ row' = [o \in Ops |-> row'[o]]
  /\ \A o \in Ops : Static(o)
  /\ clock' = clock

LEMMA StaticStep ==
  ASSUME TypeOK, ChainInv, ChangesStates
  PROVE  /\ TypeOK'
         /\ ChainInv'
         /\ \A x, y \in Ops : Before(x, y)' <=> Before(x, y)
         /\ \A x, y \in Ops : SameEvent(x, y)' <=> SameEvent(x, y)
<1>1. TypeOK'
  BY DEF TypeOK, ChangesStates, Static
<1>2. \A x, y \in Ops : SameEvent(x, y)' <=> SameEvent(x, y)
  BY DEF SameEvent, OnEvent, ChangesStates, Static
<1>3. \A x, y \in Ops : Before(x, y)' <=> Before(x, y)
  BY <1>2 DEF Before, ChangesStates, Static
<1>4. ChainInv'
  <2>1. \A o \in Ops : row'[o].state = "absent" <=> row[o].state = "absent"
    BY DEF ChangesStates, Static
  <2>2. (\A o \in Ops : row[o].state = "absent" => row[o] = NoRow)'
    BY <2>1 DEF ChainInv, ChangesStates, Static, NoRow
  <2>3. ASSUME NEW o \in Ops, row'[o].state # "absent"
        PROVE  /\ row'[o].event \in Events /\ row'[o].kind \in Kinds
               /\ row'[o].at < clock'
               /\ row'[o].pred = None => \A x \in Ops : ~Before(x, o)'
               /\ row'[o].pred # None =>
                    /\ row'[o].kind # "create"
                    /\ Before(row[o].pred, o)'
                    /\ \A x \in Ops : Before(x, o)' => row'[x].at <= row'[row'[o].pred].at
    <3>1. row[o].state # "absent" /\ row'[o].pred = row[o].pred
      BY <2>1, <2>3 DEF ChangesStates, Static
    <3>2. row[o].pred # None => row[o].pred \in Ops
      BY DEF TypeOK, Row
    <3>3. /\ row[o].event \in Events /\ row[o].kind \in Kinds
          /\ row[o].at < clock
          /\ row[o].pred = None => \A x \in Ops : ~Before(x, o)
          /\ row[o].pred # None =>
               /\ row[o].kind # "create"
               /\ Before(row[o].pred, o)
               /\ \A x \in Ops : Before(x, o) => row[x].at <= row[row[o].pred].at
      BY <3>1 DEF ChainInv
    <3>4. row[o].pred # None => Before(row[o].pred, o)'
      BY <3>2, <3>3, <1>3, <3>1
    <3>5. \A x \in Ops : row'[x].at = row[x].at
      BY DEF ChangesStates, Static
    <3>6. /\ row'[o].event = row[o].event /\ row'[o].kind = row[o].kind
          /\ clock' = clock
      BY DEF ChangesStates, Static
    <3> QED
      BY <3>1, <3>2, <3>3, <3>4, <3>5, <3>6, <1>3
  <2>4. \A o, p \in Ops :
          row'[o].state # "absent" /\ row'[p].state # "absent" /\ row'[o].at = row'[p].at => o = p
    BY <2>1 DEF ChainInv, ChangesStates, Static
  <2> QED
    BY <2>2, <2>3, <2>4 DEF ChainInv
<1> QED
  BY <1>1, <1>2, <1>3, <1>4

\* Nothing but lease times changes.
LEMMA KeptStep ==
  ASSUME IInv, ChangesStates, \A o \in Ops : Kept(o)
  PROVE  IInv'
<1> USE DEF IInv, Kept, Becomes
<1>1. /\ TypeOK' /\ ChainInv'
      /\ \A x, y \in Ops : Before(x, y)' <=> Before(x, y)
      /\ \A x, y \in Ops : SameEvent(x, y)' <=> SameEvent(x, y)
  BY StaticStep
<1>2. \A o \in Ops : PredDone(o) => PredDone(o)'
  BY DEF PredDone, Static, TypeOK, Row
<1>3. ReadyInv'
  BY <1>2 DEF ReadyInv
<1>4. LeaseInv'
  BY DEF LeaseInv
<1>5. LeaderInv'
  BY <1>1, <1>2 DEF LeaderInv, Static, Led
<1>6. GroupInv'
  BY <1>1 DEF GroupInv, LeaderInv, Led, Grouped
<1>7. NoOvertaking' /\ OneOpenUpload'
  BY <1>1 DEF NoOvertaking, OneOpenUpload
<1> QED
  BY <1>1, <1>3, <1>4, <1>5, <1>6, <1>7

\* The unsettled rows of a set C become conflicts.
LEMMA ConflictStep ==
  ASSUME IInv, ChangesStates,
         NEW C \in SUBSET Ops, \A o \in C : row[o].state \notin Done,
         \A o \in C : Becomes(o, "conflict", FALSE, None, "none", row[o].leader),
         \A o \in Ops \ C : Kept(o)
  PROVE  IInv'
<1> USE DEF IInv, Kept, Becomes
<1>1. /\ TypeOK' /\ ChainInv'
      /\ \A x, y \in Ops : Before(x, y)' <=> Before(x, y)
      /\ \A x, y \in Ops : SameEvent(x, y)' <=> SameEvent(x, y)
  BY StaticStep
<1>2. \A o \in Ops : PredDone(o) => PredDone(o)'
  <2>1. \A o \in Ops : row[o].pred # None => row[o].pred \in Ops
    BY DEF TypeOK, Row
  <2>2. \A o \in Ops : row[o].state \in Done => row'[o].state \in Done
    OBVIOUS
  <2> QED
    BY <2>1, <2>2 DEF PredDone, ChangesStates, Static
<1>3. ReadyInv'
  BY <1>2 DEF ReadyInv
<1>4. LeaseInv'
  BY DEF LeaseInv
<1>5. LeaderInv'
  BY <1>1, <1>2 DEF LeaderInv, InDoubt, ChangesStates, Static, Led
<1>6. GroupInv'
  BY <1>1 DEF GroupInv, LeaderInv, InDoubt, Led, Grouped
<1>7. NoOvertaking' /\ OneOpenUpload'
  BY <1>1 DEF NoOvertaking, OneOpenUpload, Done, InDoubt
<1> QED
  BY <1>1, <1>3, <1>4, <1>5, <1>6, <1>7

-----------------------------------------------------------------------------
(* Outcomes of a lease.  A set of leased rows is closed when it holds every *)
(* row leased with one of its rows under the same leader.                   *)

Closed(G) ==
  /\ G \subseteq Ops
  /\ \A o \in G : row[o].state = "syncing"
  /\ \A o \in G, p \in Ops :
       row[p].state = "syncing" /\ row[p].lease = row[o].lease /\ row[p].leader = row[o].leader
         => p \in G

LEMMA LeasedGroupClosed ==
  ASSUME TypeOK, NEW o \in Ops, NEW l \in Leases
  PROVE  Closed(LeasedGroup(o, l)) /\ Closed(Leased(l))
  BY DEF Closed, LeasedGroup, Leased

\* Outside a closed set no leader of a leased row, and nothing leased with it,
\* is in the set.
LEMMA ClosedApart ==
  ASSUME IInv, NEW G, Closed(G), NEW q \in Ops \ G, row[q].state \in InDoubt,
         NEW a, a = row[q].leader, row[a].state = "syncing", a \notin G
  PROVE  \A x \in Ops : row[x].lease = row[a].lease /\ row[x].leader = a => x \notin G
  BY DEF IInv, LeaderInv, Closed, LeaseInv, InDoubt, Led

\* The outcome is unknown: recordRemoteAmbiguous, releaseLease, and a retry of
\* what was in doubt before.
LEMMA AmbiguousStep ==
  ASSUME IInv, ChangesStates, NEW G, Closed(G),
         \A o \in G : Becomes(o, "ambiguous", row[o].leader = o, None, "none", row[o].leader),
         \A o \in Ops \ G : Kept(o)
  PROVE  IInv'
<1> USE DEF IInv, Kept, Becomes
<1>1. /\ TypeOK' /\ ChainInv'
      /\ \A x, y \in Ops : Before(x, y)' <=> Before(x, y)
      /\ \A x, y \in Ops : SameEvent(x, y)' <=> SameEvent(x, y)
  BY StaticStep
<1>2. \A o \in Ops : PredDone(o) => PredDone(o)'
  <2>1. \A o \in Ops : row[o].pred # None => row[o].pred \in Ops
    BY DEF TypeOK, Row
  <2>2. \A o \in Ops : row[o].state \in Done => row'[o].state \in Done
    BY DEF Closed, Done
  <2> QED
    BY <2>1, <2>2 DEF PredDone, ChangesStates, Static
<1>3. ReadyInv'
  <2>1. ASSUME NEW o \in Ops, row'[o].ready, o \in G PROVE PredDone(o)
    BY <2>1 DEF LeaderInv, Closed, InDoubt, Led
  <2> QED
    BY <1>2, <2>1 DEF ReadyInv, InDoubt
<1>4. LeaseInv'
  BY DEF LeaseInv
<1>5. LeaderInv'
  BY <1>1, <1>2 DEF LeaderInv, Closed, InDoubt, ChangesStates, Static, Led
<1>6. GroupInv'
  <2> SUFFICES ASSUME NEW o \in Ops, row'[o].state \in InDoubt, row'[row'[o].leader].state = "syncing"
               PROVE  Grouped(o, row[o].leader)'
    BY DEF GroupInv
  <2> DEFINE a == row[o].leader
  <2>1. row[o].state \in InDoubt /\ row'[o].leader = a
    BY DEF Closed, InDoubt
  <2>2. a \in Ops
    BY <2>1 DEF LeaderInv, Led
  <2>3. a \notin G /\ row[a].state = "syncing"
    BY <2>1, <2>2 DEF Closed
  <2>4. row'[a].prev = row[a].prev /\ row'[a].lease = row[a].lease /\ row[a].lease # None
    BY <2>2, <2>3 DEF LeaseInv
  <2>5. row[a].leader = a
    BY <2>1, <2>3 DEF LeaderInv, InDoubt, Led
  <2>6. \A x \in Ops : row[x].lease = row[a].lease /\ row[x].leader = a => x \notin G
    BY <2>2, <2>3, <2>4, <2>5 DEF Closed, LeaseInv
  <2>7. /\ row[a].prev = "pending" => row[o].lease = row[a].lease
        /\ row[o].lease = row[a].lease =>
             /\ row[o].prev = row[a].prev
             /\ \A x \in Ops : Before(a, x) /\ Before(x, o) =>
                  \/ row[x].state = "conflict"
                  \/ row[x].lease = row[a].lease /\ row[x].leader = a
    BY <2>1, <2>3 DEF GroupInv, Grouped
  <2>8. row'[o].lease = row[a].lease => o \notin G
    BY <2>4
  <2> HIDE DEF a
  <2>9. \A x \in Ops : row[x].state = "conflict" => row'[x].state = "conflict"
    BY DEF Closed
  <2> QED
    BY <1>1, <2>1, <2>2, <2>4, <2>6, <2>7, <2>8, <2>9 DEF Grouped
<1>7. NoOvertaking' /\ OneOpenUpload'
  BY <1>1 DEF NoOvertaking, OneOpenUpload, Done, InDoubt, Closed
<1> QED
  BY <1>1, <1>3, <1>4, <1>5, <1>6, <1>7

\* The write is certainly not at Google: a retry of a fresh upload.
LEMMA PendingStep ==
  ASSUME IInv, ChangesStates, NEW G, Closed(G),
         NEW l \in Ops, l \in G, row[l].prev = "pending", \A o \in G : row[o].leader = l,
         \A o \in G : Becomes(o, "pending", row[o].leader = o, None, "none", row[o].leader),
         \A o \in Ops \ G : Kept(o)
  PROVE  IInv'
<1> USE DEF IInv, Kept, Becomes
<1>1. /\ TypeOK' /\ ChainInv'
      /\ \A x, y \in Ops : Before(x, y)' <=> Before(x, y)
      /\ \A x, y \in Ops : SameEvent(x, y)' <=> SameEvent(x, y)
  BY StaticStep
<1>2. \A o \in Ops : PredDone(o) => PredDone(o)'
  <2>1. \A o \in Ops : row[o].pred # None => row[o].pred \in Ops
    BY DEF TypeOK, Row
  <2>2. \A o \in Ops : row[o].state \in Done => row'[o].state \in Done
    BY DEF Closed, Done
  <2> QED
    BY <2>1, <2>2 DEF PredDone, ChangesStates, Static
<1>3. ReadyInv'
  <2>1. ASSUME NEW o \in Ops, row'[o].ready, o \in G PROVE PredDone(o)
    BY <2>1 DEF LeaderInv, Closed, InDoubt, Led
  <2> QED
    BY <1>2, <2>1 DEF ReadyInv, InDoubt
<1>4. LeaseInv'
  BY DEF LeaseInv
<1>a. ASSUME NEW q \in Ops, row'[q].state \in InDoubt
      PROVE  /\ q \notin G /\ row[q].state \in InDoubt
             /\ row[q].leader \in Ops \ G
             /\ \A x \in G : row[x].leader # row[q].leader
  <2>1. q \notin G /\ row[q].state \in InDoubt
    BY <1>a DEF InDoubt
  <2>2. row[q].leader \in Ops
    BY <2>1 DEF LeaderInv, Led
  <2>3. row[q].leader \in G => row[q].leader = l
    BY <2>1 DEF LeaderInv, InDoubt, Closed, Led
  <2>4. row[q].leader # l
    BY <2>1 DEF GroupInv, Closed, LeaseInv, Grouped
  <2> QED
    BY <2>1, <2>2, <2>3, <2>4
<1>5. LeaderInv'
  <2> SUFFICES ASSUME NEW o \in Ops, row'[o].state \in InDoubt
               PROVE  Led(o, row[o].leader)'
    BY DEF LeaderInv
  <2>1. /\ row[o].state \in InDoubt /\ row'[o].leader = row[o].leader
        /\ row[o].leader \in Ops \ G
        /\ row'[o].kind = row[o].kind
    BY <1>a DEF ChangesStates, Static
  <2>2. \A x \in Ops : Before(row[o].leader, x) /\ Before(x, o) => x \notin G
    BY <1>a, <2>1 DEF LeaderInv, Closed, InDoubt, Led
  <2> QED
    BY <1>1, <1>2, <2>1, <2>2 DEF LeaderInv, Led
<1>6. GroupInv'
  BY <1>1, <1>a DEF GroupInv, Closed, Grouped
<1>7. NoOvertaking' /\ OneOpenUpload'
  BY <1>1 DEF NoOvertaking, OneOpenUpload, Done, InDoubt, Closed
<1> QED
  BY <1>1, <1>3, <1>4, <1>5, <1>6, <1>7

\* The write is refused for good: recordRemoteFailure, recordRemoteConflict.
LEMMA RefusedStep ==
  ASSUME IInv, ChangesStates, NEW G, Closed(G),
         NEW l \in Ops, l \in G, \A o \in G : row[o].leader = l,
         NEW s \in {"failed", "conflict"},
         \A o \in G : Becomes(o, s, FALSE, None, "none", None),
         \A o \in Ops \ G : Kept(o)
  PROVE  IInv'
<1> USE DEF IInv, Kept, Becomes
<1>1. /\ TypeOK' /\ ChainInv'
      /\ \A x, y \in Ops : Before(x, y)' <=> Before(x, y)
      /\ \A x, y \in Ops : SameEvent(x, y)' <=> SameEvent(x, y)
  BY StaticStep
<1>2. \A o \in Ops : PredDone(o) => PredDone(o)'
  <2>1. \A o \in Ops : row[o].pred # None => row[o].pred \in Ops
    BY DEF TypeOK, Row
  <2>2. \A o \in Ops : row[o].state \in Done => row'[o].state \in Done
    BY DEF Closed, Done
  <2> QED
    BY <2>1, <2>2 DEF PredDone, ChangesStates, Static
<1>3. ReadyInv'
  BY <1>2 DEF ReadyInv, InDoubt
<1>4. LeaseInv'
  BY DEF LeaseInv
<1>5. ASSUME NEW q \in Ops, row'[q].state \in InDoubt
      PROVE  /\ q \in Ops \ G /\ row[q].state \in InDoubt
             /\ row[q].leader \in Ops
  BY <1>5 DEF InDoubt, LeaderInv, Led
<1>6. LeaderInv'
  <2> SUFFICES ASSUME NEW o \in Ops, row'[o].state \in InDoubt
               PROVE  Led(o, row[o].leader)'
    BY DEF LeaderInv
  <2>1. Led(o, row[o].leader) /\ row'[o].leader = row[o].leader /\ row'[o].kind = row[o].kind
    BY <1>5 DEF LeaderInv, ChangesStates, Static
  <2>2. \A x \in G : row'[x].state \notin InDoubt \cup {"pending"}
    BY DEF InDoubt
  <2> QED
    BY <1>1, <1>2, <2>1, <2>2 DEF Led
<1>7. GroupInv'
  <2> SUFFICES ASSUME NEW o \in Ops, row'[o].state \in InDoubt, row'[row'[o].leader].state = "syncing"
               PROVE  Grouped(o, row[o].leader)'
    BY DEF GroupInv
  <2>1. /\ o \in Ops \ G /\ row[o].state \in InDoubt /\ row[o].leader \in Ops
        /\ row'[o].leader = row[o].leader
    BY <1>5
  <2>2. row[o].leader \notin G
    BY <2>1
  <2>3. row[row[o].leader].state = "syncing"
    BY <2>1, <2>2
  <2>4. \A x \in Ops : row[x].leader = row[o].leader => x \notin G
    BY <2>2
  <2>5. \A x \in Ops : row[x].state = "conflict" => row'[x].state = "conflict"
    BY DEF Closed
  <2> QED
    BY <1>1, <2>1, <2>2, <2>3, <2>4, <2>5 DEF GroupInv, Grouped
<1>8. NoOvertaking' /\ OneOpenUpload'
  BY <1>1 DEF NoOvertaking, OneOpenUpload, Done, InDoubt, Closed
<1> QED
  BY <1>1, <1>3, <1>4, <1>6, <1>7, <1>8

\* The write is acknowledged, the rows of S lose to the receipt, the rows of U
\* are unlocked.
LEMMA AcknowledgedStep ==
  ASSUME IInv, ChangesStates, NEW G, Closed(G),
         NEW l \in Ops, l \in G, \A o \in G : row[o].leader = l /\ row[o].lease = row[l].lease,
         NEW S \in SUBSET Ops, S \cap G = {}, \A o \in S : row[o].state \notin Done \cup {"conflict"},
         NEW U \in SUBSET Ops, U \cap (S \cup G) = {},
         \A o \in U : row[o].state = "pending" /\ row[o].pred \in G,
         \A o \in G : Becomes(o, "succeeded", FALSE, None, "none", None),
         \A o \in S : Becomes(o, "conflict", FALSE, None, "none", row[o].leader),
         \A o \in U : Becomes(o, row[o].state, TRUE, row[o].lease, row[o].prev, row[o].leader),
         \A o \in Ops \ (G \cup S \cup U) : Kept(o)
  PROVE  IInv'
<1> USE DEF IInv, Kept, Becomes
<1>1. /\ TypeOK' /\ ChainInv'
      /\ \A x, y \in Ops : Before(x, y)' <=> Before(x, y)
      /\ \A x, y \in Ops : SameEvent(x, y)' <=> SameEvent(x, y)
  BY StaticStep
<1>a. \A o \in Ops : row[o].state \in Done => row'[o].state \in Done
  BY DEF Closed, Done
<1>b. \A o \in Ops : row[o].state = "conflict" => row'[o].state = "conflict"
  BY DEF Closed, Done
<1>2. \A o \in Ops : PredDone(o) => PredDone(o)'
  <2>1. \A o \in Ops : row[o].pred # None => row[o].pred \in Ops
    BY DEF TypeOK, Row
  <2> QED
    BY <2>1, <1>a DEF PredDone, ChangesStates, Static
<1>3. ReadyInv'
  <2>1. \A o \in U : PredDone(o)'
    BY DEF PredDone, ChangesStates, Static, Done, Closed
  <2> QED
    BY <1>2, <2>1 DEF ReadyInv
<1>4. LeaseInv'
  BY DEF LeaseInv
<1>5. \A q \in Ops : row'[q].state \in InDoubt =>
        /\ q \in Ops \ (G \cup S \cup U) /\ row[q].state \in InDoubt
        /\ row[q].leader \in Ops
  BY DEF InDoubt, LeaderInv, Led
<1>6. LeaderInv'
  <2> SUFFICES ASSUME NEW o \in Ops, row'[o].state \in InDoubt
               PROVE  Led(o, row[o].leader)'
    BY DEF LeaderInv
  <2>1. Led(o, row[o].leader) /\ row'[o].leader = row[o].leader /\ row'[o].kind = row[o].kind
    BY <1>5 DEF LeaderInv, ChangesStates, Static
  <2>2. \A x \in Ops : row'[x].state \in InDoubt => row[x].state \in InDoubt /\ row'[x].leader = row[x].leader
    BY <1>5
  <2>3. \A x \in Ops : row'[x].state = "pending" => row[x].state = "pending"
    OBVIOUS
  <2> QED
    BY <1>1, <1>2, <2>1, <2>2, <2>3 DEF Led
<1>7. GroupInv'
  <2> SUFFICES ASSUME NEW o \in Ops, row'[o].state \in InDoubt, row'[row'[o].leader].state = "syncing"
               PROVE  Grouped(o, row[o].leader)'
    BY DEF GroupInv
  <2>1. /\ o \in Ops \ (G \cup S \cup U) /\ row[o].state \in InDoubt /\ row[o].leader \in Ops
        /\ row'[o].leader = row[o].leader
    BY <1>5
  <2>2. row[o].leader \in Ops \ (G \cup S \cup U)
    BY <2>1
  <2>3. row[row[o].leader].state = "syncing"
    BY <2>1, <2>2
  <2>4. \A x \in Ops : row[x].leader = row[o].leader => x \notin G
    BY <2>2
  <2> QED
    BY <1>1, <1>b, <2>1, <2>2, <2>3, <2>4 DEF GroupInv, Grouped
<1>8. NoOvertaking'
  <2> SUFFICES ASSUME NEW o \in Ops, NEW p \in Ops, Before(o, p), row'[p].state \in Done
               PROVE  row'[o].state \in Done \cup {"conflict"}
    BY <1>1 DEF NoOvertaking
  <2>1. CASE p \notin G
    <3>1. row[p].state \in Done
      BY <2>1 DEF Done
    <3> QED
      BY <3>1, <1>a, <1>b DEF NoOvertaking
  <2>2. CASE p \in G
    <3>1. row[p].state = "syncing" /\ row[l].state = "syncing" /\ row[p].leader = l
      BY <2>2 DEF Closed
    <3>2. Led(p, l) /\ Grouped(p, l)
      BY <3>1 DEF LeaderInv, GroupInv, InDoubt
    <3>3. o = l \/ Before(o, l) \/ Before(l, o)
      <4>1. p = l \/ Before(l, p)
        BY <3>2 DEF Led
      <4>2. SameEvent(o, l) /\ row[l].state # "absent"
        BY <4>1, BeforeOrder DEF Before, SameEvent, OnEvent
      <4> QED
        BY <4>2, BeforeOrder
    <3>4. CASE o = l
      BY <3>4 DEF Done
    <3>5. CASE Before(o, l)
      <4>1. PredDone(l)
        BY <3>2 DEF Led
      <4> QED
        BY <3>5, <4>1, PredDoneBehind, <1>a, <1>b
    <3>6. CASE Before(l, o)
      <4>1. row[o].state = "conflict" \/ (row[o].lease = row[l].lease /\ row[o].leader = l)
        BY <2>2, <3>2, <3>6 DEF Grouped
      <4>2. row[o].lease = row[l].lease => row[o].state = "syncing"
        BY <3>1 DEF LeaseInv
      <4>3. row[o].state = "conflict" \/ o \in G
        BY <4>1, <4>2 DEF Closed
      <4> QED
        BY <4>3, <1>b DEF Done
    <3> QED
      BY <3>3, <3>4, <3>5, <3>6
  <2> QED
    BY <2>1, <2>2
<1>9. OneOpenUpload'
  BY <1>1, <1>5 DEF OneOpenUpload
<1> QED
  BY <1>1, <1>3, <1>4, <1>6, <1>7, <1>8, <1>9

-----------------------------------------------------------------------------
(* A new row at the end of a chain.                                        *)

LEMMA NewRowTyped ==
  ASSUME TypeOK, NEW e \in Events, NEW k \in UserKinds, NEW p \in Ops \cup {None}
  PROVE  /\ NewRow(e, k, p) \in Row
         /\ NewRow(e, k, p).ready <=> (p # None => row[p].state \in Done)
<1> DEFINE b == p # None => row[p].state \in Done
<1>1. b \in BOOLEAN
  OBVIOUS
<1>2. NewRow(e, k, p) =
        [state |-> "pending", kind |-> k, event |-> e, at |-> clock,
         pred |-> p, ready |-> b, due |-> TRUE,
         lease |-> None, prev |-> "none", leader |-> None]
  BY DEF NewRow
<1>3. k \in Kinds /\ clock \in Nat
  BY KindAssumption DEF TypeOK
<1>4. NewRow(e, k, p).ready = b
  BY <1>2
<1> HIDE DEF b
<1>5. NewRow(e, k, p) \in Row
  BY <1>1, <1>2, <1>3 DEF Row, Active
<1> USE DEF b
<1> QED
  BY <1>4, <1>5

LEMMA EnqueueStep ==
  ASSUME IInv, NEW n \in Ops, NEW e \in Events, NEW k \in UserKinds, Enqueue(n, e, k)
  PROVE  IInv'
<1> USE DEF IInv
<1>1. PICK p \in Ops \cup {None} : IsLatest(p, e) /\ row' = [row EXCEPT ![n] = NewRow(e, k, p)]
  BY DEF Enqueue
<1>2. /\ row[n].state = "absent" /\ clock' = clock + 1 /\ clock \in Nat
      /\ OnEvent(e) # {} => k # "create"
      /\ k \in Kinds
  BY KindAssumption DEF Enqueue, TypeOK
<1>3. \A o \in Ops \ {n} : row'[o] = row[o]
  BY <1>1 DEF TypeOK
<1>4. /\ row'[n] \in Row
      /\ row'[n].state = "pending" /\ row'[n].kind = k /\ row'[n].event = e
      /\ row'[n].at = clock /\ row'[n].pred = p
      /\ row'[n].lease = None /\ row'[n].prev = "none" /\ row'[n].leader = None
      /\ row'[n].ready <=> (p # None => row[p].state \in Done)
  <2>1. row'[n] = NewRow(e, k, p)
    BY <1>1 DEF TypeOK
  <2> QED
    BY <2>1, NewRowTyped DEF NewRow
<1>5. TypeOK'
  BY <1>1, <1>2, <1>4, NewRowTyped DEF TypeOK
<1>6. \A o \in Ops : row[o].state = "absent" => row[o].event = None
  BY DEF ChainInv, NoRow
<1>7. \A x, y \in Ops \ {n} : /\ SameEvent(x, y)' <=> SameEvent(x, y)
                              /\ Before(x, y)' <=> Before(x, y)
  BY <1>3 DEF Before, SameEvent, OnEvent
<1>8. \A x \in Ops : ~Before(n, x)'
  <2>1. \A x \in Ops \ {n} : row'[x].state # "absent" => row'[x].at < clock
    BY <1>3 DEF ChainInv
  <2>2. \A x \in Ops : row'[x].at \in Nat
    BY <1>5 DEF TypeOK, Row
  <2>3. \A x \in Ops \ {n} : row[x].state = "absent" => row'[x].event = None
    BY <1>3, <1>6
  <2> QED
    BY <1>2, <1>3, <1>4, <2>1, <2>2, <2>3, NoneAssumption DEF Before, SameEvent, OnEvent
<1>9. \A x \in Ops : Before(x, n)' <=> x \in OnEvent(e)
  <2>1. \A x \in Ops \ {n} : row[x].state # "absent" => row[x].at < clock
    BY DEF ChainInv
  <2>2. n \notin OnEvent(e)
    BY <1>2 DEF OnEvent
  <2> QED
    BY <1>2, <1>3, <1>4, <1>8, <2>1, <2>2 DEF Before, SameEvent, OnEvent
<1>10. p # None => p \in OnEvent(e) /\ p # n /\ \A q \in OnEvent(e) : row[q].at <= row[p].at
  BY <1>1, <1>2 DEF IsLatest, OnEvent
<1>11. p = None => OnEvent(e) = {}
  BY <1>1, NoneAssumption DEF IsLatest, OnEvent
<1>12. ChainInv'
  <2>1. (\A o \in Ops : row[o].state = "absent" => row[o] = NoRow)'
    BY <1>3, <1>4 DEF ChainInv, NoRow
  <2>2. ASSUME NEW o \in Ops, row'[o].state # "absent"
        PROVE  /\ row'[o].event \in Events /\ row'[o].kind \in Kinds
               /\ row'[o].at < clock'
               /\ row'[o].pred = None => \A x \in Ops : ~Before(x, o)'
               /\ row'[o].pred # None =>
                    /\ row'[o].kind # "create"
                    /\ Before(IF o = n THEN p ELSE row[o].pred, o)'
                    /\ \A x \in Ops : Before(x, o)' => row'[x].at <= row'[row'[o].pred].at
    <3>1. CASE o = n
      BY <3>1, <1>2, <1>3, <1>4, <1>9, <1>10, <1>11 DEF OnEvent
    <3>2. CASE o # n
      <4>1. /\ row[o].event \in Events /\ row[o].kind \in Kinds
            /\ row[o].at < clock
            /\ row[o].pred = None => \A x \in Ops : ~Before(x, o)
            /\ row[o].pred # None =>
                 /\ row[o].kind # "create"
                 /\ Before(row[o].pred, o)
                 /\ \A x \in Ops : Before(x, o) => row[x].at <= row[row[o].pred].at
        BY <2>2, <3>2, <1>3 DEF ChainInv
      <4>2. row[o].pred # None => row[o].pred \in Ops \ {n}
        BY <4>1, <1>2, BeforeOrder DEF TypeOK, Row
      <4>3. row[o].at \in Nat
        BY DEF TypeOK, Row
      <4> QED
        BY <3>2, <4>1, <4>2, <4>3, <1>2, <1>3, <1>7, <1>8
    <3> QED
      BY <3>1, <3>2
  <2>3. \A o, q \in Ops :
          row'[o].state # "absent" /\ row'[q].state # "absent" /\ row'[o].at = row'[q].at => o = q
    <3>1. \A x \in Ops \ {n} : row[x].state # "absent" => row[x].at < clock /\ row[x].at \in Nat
      BY DEF ChainInv, TypeOK, Row
    <3> QED
      BY <1>2, <1>3, <1>4, <3>1 DEF ChainInv
  <2>4. \A o \in Ops : (IF o = n THEN p ELSE row[o].pred) = row'[o].pred
    BY <1>3, <1>4
  <2> QED
    BY <2>1, <2>2, <2>3, <2>4 DEF ChainInv
<1>13. \A o \in Ops \ {n} : PredDone(o) => PredDone(o)'
  <2>1. \A o \in Ops : row[o].pred # None => row[o].pred \in Ops
    BY DEF TypeOK, Row
  <2> QED
    BY <2>1, <1>2, <1>3 DEF PredDone, Done
<1>14. ReadyInv'
  <2>1. row'[n].ready => PredDone(n)'
    BY <1>3, <1>4, <1>10 DEF PredDone
  <2> QED
    BY <1>3, <1>4, <1>13, <2>1 DEF ReadyInv
<1>15. LeaseInv'
  BY <1>3, <1>4 DEF LeaseInv
<1>16. \A o \in Ops : row'[o].state \in InDoubt =>
         /\ o # n /\ row[o].state \in InDoubt
         /\ row[o].leader \in Ops \ {n}
  BY <1>2, <1>3, <1>4, BeforeOrder DEF InDoubt, LeaderInv, Led
<1>17. LeaderInv'
  <2> SUFFICES ASSUME NEW o \in Ops, row'[o].state \in InDoubt
               PROVE  Led(o, row[o].leader)'
    BY <1>3, <1>16 DEF LeaderInv
  <2> QED
    BY <1>3, <1>7, <1>8, <1>13, <1>16 DEF LeaderInv, Led
<1>18. GroupInv'
  <2> SUFFICES ASSUME NEW o \in Ops, row'[o].state \in InDoubt, row'[row'[o].leader].state = "syncing"
               PROVE  Grouped(o, row[o].leader)'
    BY <1>3, <1>16 DEF GroupInv
  <2> QED
    BY <1>3, <1>7, <1>8, <1>16 DEF GroupInv, Grouped
<1>19. NoOvertaking'
  BY <1>3, <1>4, <1>7, <1>8 DEF NoOvertaking, Done
<1>20. OneOpenUpload'
  BY <1>3, <1>4, <1>7 DEF OneOpenUpload, InDoubt
<1> QED
  BY <1>5, <1>12, <1>14, <1>15, <1>17, <1>18, <1>19, <1>20

-----------------------------------------------------------------------------
(* How states move: what the refinement and the action property need.      *)

Moves(o) ==
  \/ row'[o].state = row[o].state
  \/ row[o].state \in Uploadable /\ row'[o].state \in Active \cup Done
  \/ row[o].state = "failed" /\ row'[o].state = "conflict"

Effect == ChangesStates /\ \A o \in Ops : Moves(o) /\ Reconciled(o)

LEMMA KeptMoves ==
  ASSUME IInv, NEW o \in Ops, Kept(o)
  PROVE  Moves(o) /\ Reconciled(o)
<1>1. row[o].prev \in {"none", "pending", "ambiguous"}
  BY DEF IInv, TypeOK, Row
<1> QED
  BY <1>1 DEF IInv, LeaseInv, Kept, Becomes, Moves, Reconciled, Uncertain, InDoubt

-----------------------------------------------------------------------------
(* Leasing.                                                                *)

\* What a create and its delete annihilate is pending, heads its chain, and
\* has nothing but its own and settled rows before it.
LEMMA CancelledPending ==
  ASSUME IInv, NEW e, NEW o \in CancelledOn(e)
  PROVE  /\ o \in ActiveOn(e) /\ row[o].state = "pending"
         /\ \A x \in Ops : Before(x, o) => x \in CancelledOn(e) \/ row[x].state \in Done
<1> USE DEF IInv
<1>1. PICK a \in ActiveOn(e), d \in ActiveOn(e) : Annihilates(a, d) /\ o \in {a} \cup Following(a, d)
  BY DEF CancelledOn
<1>2. /\ o \in Ops /\ a \in Ops /\ d \in Ops /\ o \in ActiveOn(e)
      /\ row[a].event = e /\ row[d].event = e /\ row[o].event = e
      /\ row[a].state # "absent" /\ row[d].state # "absent" /\ row[o].state # "absent"
  BY <1>1 DEF CancelledOn, ActiveOn, OnEvent
<1>3. /\ row[a].kind = "create" /\ row[d].kind = "delete"
      /\ row[a].state \in Uploadable /\ Before(a, d)
      /\ CanCompactTogether(a, d)
      /\ \A x \in Following(a, d) \ {d} : Absorbs(a, x)
  BY <1>1 DEF Annihilates
<1>4. row[a].state = "pending"
  <2> SUFFICES ASSUME row[a].state # "pending" PROVE FALSE
    OBVIOUS
  <2>1. row[a].state \in InDoubt /\ row[d].state \in InDoubt /\ row[d].leader = row[a].leader
    BY <1>3 DEF CanCompactTogether, Uploadable, InDoubt
  <2>2. row[d].leader = d
    BY <1>2, <1>3, <2>1 DEF LeaderInv, Led
  <2>3. Before(d, a)
    BY <1>2, <1>3, <2>1, <2>2, BeforeOrder DEF LeaderInv, Led
  <2> QED
    BY <1>2, <1>3, <2>3, BeforeOrder
<1>5. \A x \in Following(a, d) : row[x].state = "pending"
  BY <1>3, <1>4 DEF CanCompactTogether, Absorbs
<1>6. row[o].state = "pending"
  BY <1>1, <1>4, <1>5
<1>7. \A x \in Ops : ~Before(x, a)
  BY <1>2, <1>3 DEF ChainInv
<1>8. ASSUME NEW x \in Ops, Before(x, o)
      PROVE  x \in CancelledOn(e) \/ row[x].state \in Done
  <2>1. SameEvent(x, a) /\ row[x].state # "absent" /\ row[x].event = e
    BY <1>2, <1>8 DEF Before, SameEvent, OnEvent
  <2>2. x = a \/ Before(a, x)
    BY <1>2, <1>7, <2>1, BeforeOrder
  <2>3. CASE row[x].state \notin Active
    BY <2>1, <2>3 DEF TypeOK, Row
  <2>4. CASE row[x].state \in Active
    <3>1. x \in ActiveOn(e)
      BY <2>1, <2>4 DEF ActiveOn, OnEvent
    <3>2. row[x].at <= row[d].at
      <4>1. row[x].at \in Nat /\ row[o].at \in Nat /\ row[d].at \in Nat
        BY <1>2 DEF TypeOK, Row
      <4>2. row[o].at <= row[d].at
        BY <1>1, <1>3, <4>1 DEF Following, Before
      <4> QED
        BY <1>8, <4>1, <4>2 DEF Before
    <3>3. x \in {a} \cup Following(a, d)
      BY <2>2, <3>1, <3>2, <1>2 DEF Following, Before
    <3> QED
      BY <1>1, <3>1, <3>3 DEF CancelledOn
  <2> QED
    BY <2>3, <2>4
<1> QED
  BY <1>2, <1>6, <1>8

\* What is leased together: a leasable head and the updates behind it, in its
\* state, with nothing between them.
LEMMA ClaimedGroup ==
  ASSUME IInv, NEW a \in Claimed, NEW q \in UploadGroup(a)
  PROVE  /\ a \in Ops /\ q \in Ops /\ a \in UploadGroup(a)
         /\ PredDone(a)
         /\ row[a].state \in Uploadable /\ row[q].state = row[a].state
         /\ q = a \/ (Before(a, q) /\ row[q].kind = "update")
         /\ row[a].state \in InDoubt => row[a].leader = a /\ row[q].leader = a
         /\ \A x \in Ops : Before(a, x) /\ Before(x, q) => x \in UploadGroup(a)
         /\ a \notin CancelledOn(row[a].event)
<1> USE DEF IInv
<1>1. /\ a \in Ops /\ row[a].state \in Uploadable /\ row[a].ready
      /\ PredDone(a) /\ a \notin CancelledOn(row[a].event)
  BY DEF Claimed, Claimable, Candidates, Leads
<1>2. row[a].state \in InDoubt => row[a].leader = a
  BY <1>1 DEF ReadyInv, InDoubt
<1>3. a \in UploadGroup(a)
  BY DEF UploadGroup
<1>4. CASE q = a
  BY <1>1, <1>2, <1>3, <1>4, BeforeOrder
<1>5. CASE q # a
  <2>1. /\ q \in ActiveOn(row[a].event) /\ row[a].kind \in {"create", "update"}
        /\ row[a].at < row[q].at
        /\ \A x \in Following(a, q) : Absorbs(a, x)
    BY <1>5 DEF UploadGroup
  <2>2. q \in Ops /\ row[q].state # "absent" /\ row[q].event = row[a].event
    BY <2>1 DEF ActiveOn, OnEvent
  <2>3. row[a].state # "absent"
    BY <1>1 DEF Uploadable
  <2>4. Before(a, q)
    BY <1>1, <2>1, <2>2, <2>3 DEF Before, SameEvent, OnEvent
  <2>5. Absorbs(a, q)
    BY <2>1, <2>2 DEF Following, TypeOK, Row
  <2>6. /\ row[q].kind = "update" /\ row[q].state = row[a].state
        /\ row[a].state \in InDoubt => row[q].leader = a
    BY <1>1, <1>2, <2>5 DEF Absorbs, CanCompactTogether, Uploadable, InDoubt
  <2>7. ASSUME NEW x \in Ops, Before(a, x), Before(x, q)
        PROVE  x \in UploadGroup(a)
    <3>1. row[x].state \notin Done
      BY <1>1, <2>7 DEF NoOvertaking, Done, Uploadable
    <3>2. row[x].state # "absent" /\ row[x].event = row[a].event
      BY <2>2, <2>7, BeforeOrder DEF Before, SameEvent, OnEvent
    <3>3. x \in ActiveOn(row[a].event)
      BY <3>1, <3>2 DEF ActiveOn, OnEvent, TypeOK, Row
    <3>4. row[a].at < row[x].at /\ row[x].at < row[q].at
      BY <2>7 DEF Before
    <3>5. Following(a, x) \subseteq Following(a, q)
      <4>1. \A y \in Ops : row[y].at \in Nat
        BY DEF TypeOK, Row
      <4> QED
        BY <1>1, <2>2, <3>4, <4>1 DEF Following, ActiveOn, OnEvent
    <3> QED
      BY <2>1, <3>3, <3>4, <3>5 DEF UploadGroup
  <2> QED
    BY <1>1, <1>2, <1>3, <2>2, <2>4, <2>6, <2>7
<1> QED
  BY <1>4, <1>5

\* One upload per event.
LEMMA OneClaim ==
  ASSUME IInv, NEW a \in Claimed, NEW b \in Claimed, NEW q \in UploadGroup(a), NEW r \in UploadGroup(b),
         SameEvent(q, r)
  PROVE  a = b
<1> USE DEF IInv
<1>1. /\ a \in Ops /\ b \in Ops /\ q \in Ops /\ r \in Ops
      /\ row[a].state \in Uploadable /\ row[b].state \in Uploadable
      /\ q = a \/ Before(a, q)
      /\ r = b \/ Before(b, r)
  BY ClaimedGroup
<1>2. row[a].event = row[q].event /\ row[b].event = row[r].event
  BY <1>1 DEF Before, SameEvent, OnEvent
<1>3. row[q].event = row[r].event
  BY DEF SameEvent, OnEvent
<1>4. row[a].state # "absent" /\ row[b].state # "absent"
  BY <1>1 DEF Uploadable
<1>5. SameEvent(a, b) /\ SameEvent(b, a)
  BY <1>1, <1>2, <1>3, <1>4 DEF SameEvent, OnEvent
<1>6. row[a].at <= row[b].at /\ row[b].at <= row[a].at
  BY <1>5 DEF Claimed, Claimable
<1>7. row[a].at = row[b].at
  BY <1>1, <1>6 DEF TypeOK, Row
<1> QED
  BY <1>1, <1>4, <1>7 DEF ChainInv

LEMMA LeaseStep ==
  ASSUME IInv, NEW l \in Leases, LeaseOperations(l)
  PROVE  IInv' /\ Effect
<1> USE DEF IInv
<1> DEFINE Group(o) == {a \in Claimed : o \in UploadGroup(a)}
           W == {o \in Ops : Group(o) # {}}
           A(o) == CHOOSE a \in Group(o) : TRUE
           K == {o \in Ops \ W : o \in Cancelled}
           D == {o \in Ops \ (W \cup K) : o \in Demoted}
           U == {o \in Ops \ (W \cup K \cup D) :
                   row[o].pred \in Cancelled /\ row[o].state = "pending"}
           P(o) == IF row[o].state = "pending" THEN "pending" ELSE "ambiguous"
<1>1. /\ \A o \in Ops : row[o].lease # l
      /\ clock' = clock
      /\ row' = [o \in Ops |->
           IF Group(o) # {} THEN LeasedRow(o, A(o), l)
           ELSE IF o \in Cancelled THEN CancelledRow(o)
           ELSE IF o \in Demoted THEN DemotedRow(o)
           ELSE IF row[o].pred \in Cancelled /\ row[o].state = "pending" THEN UnlockedRow(o)
           ELSE row[o]]
  BY DEF LeaseOperations
<1>2. ASSUME NEW o \in W
      PROVE  /\ A(o) \in Claimed /\ o \in UploadGroup(A(o)) /\ A(o) \in Ops
             /\ row[o].state \in Uploadable
  <2>1. A(o) \in Group(o)
    OBVIOUS
  <2> HIDE DEF A
  <2> QED
    BY <2>1, ClaimedGroup
<1>3. \A o \in Cancelled : /\ o \in Ops /\ row[o].state = "pending"
                           /\ \A x \in Ops : Before(x, o) => x \in Cancelled \/ row[x].state \in Done
  <2> SUFFICES ASSUME NEW o \in Cancelled
               PROVE  /\ o \in Ops /\ row[o].state = "pending"
                      /\ \A x \in Ops : Before(x, o) => x \in Cancelled \/ row[x].state \in Done
    OBVIOUS
  <2>1. PICK c \in Reached : Cancels(c) /\ o \in CancelledOn(row[c].event)
    BY DEF Cancelled
  <2>2. CancelledOn(row[c].event) \subseteq Cancelled
    BY <2>1 DEF Cancelled
  <2> QED
    BY <2>1, <2>2, CancelledPending DEF ActiveOn, OnEvent
<1>4. \A o \in Demoted : o \in Ops /\ row[o].state \in Uploadable
  BY DEF Demoted, Reached, Candidates
<1>5. \A o \in W : Becomes(o, "syncing", o = A(o), l, P(o), A(o))
  <2> SUFFICES ASSUME NEW o \in W PROVE Becomes(o, "syncing", o = A(o), l, P(o), A(o))
    OBVIOUS
  <2>1. row'[o] = LeasedRow(o, A(o), l)
    BY <1>1
  <2>2. P(o) \in {"pending", "ambiguous"} /\ (P(o) = "pending" <=> row[o].state = "pending")
    OBVIOUS
  <2>3. A(o) \in Ops /\ row[o].state \in Uploadable
    BY <1>2
  <2> HIDE DEF A, P, W
  <2>4. o \in Ops
    BY DEF W
  <2> QED
    BY <2>1, <2>2, <2>3, <2>4, LeasedRowEffect
<1>6. \A o \in K : Becomes(o, "cancelled", FALSE, row[o].lease, row[o].prev, row[o].leader)
  <2> SUFFICES ASSUME NEW o \in K
               PROVE  Becomes(o, "cancelled", FALSE, row[o].lease, row[o].prev, row[o].leader)
    OBVIOUS
  <2>1. row'[o] = CancelledRow(o) /\ row[o].state # "absent"
    BY <1>1, <1>3
  <2> QED
    BY <2>1, CancelledRowEffect
<1>7. \A o \in D : Becomes(o, row[o].state, FALSE, row[o].lease, row[o].prev, row[o].leader)
  <2> SUFFICES ASSUME NEW o \in D
               PROVE  Becomes(o, row[o].state, FALSE, row[o].lease, row[o].prev, row[o].leader)
    OBVIOUS
  <2>1. row'[o] = DemotedRow(o) /\ row[o].state # "absent"
    BY <1>1, <1>4 DEF Uploadable
  <2> QED
    BY <2>1, DemotedRowEffect
<1>8. \A o \in U : Becomes(o, row[o].state, TRUE, row[o].lease, row[o].prev, row[o].leader)
  <2> SUFFICES ASSUME NEW o \in U
               PROVE  Becomes(o, row[o].state, TRUE, row[o].lease, row[o].prev, row[o].leader)
    OBVIOUS
  <2>1. row'[o] = UnlockedRow(o) /\ row[o].state # "absent"
    BY <1>1
  <2> QED
    BY <2>1, UnlockedRowEffect
<1>9. \A o \in Ops \ (W \cup K \cup D \cup U) : Kept(o)
  <2> SUFFICES ASSUME NEW o \in Ops \ (W \cup K \cup D \cup U) PROVE Kept(o)
    OBVIOUS
  <2>1. row'[o] = row[o]
    BY <1>1
  <2> QED
    BY <2>1, KeptRow
<1>10. \A a \in Claimed : a \in W
  <2> SUFFICES ASSUME NEW a \in Claimed PROVE a \in W
    OBVIOUS
  <2>1. a \in Ops /\ a \in UploadGroup(a)
    BY ClaimedGroup DEF Claimed, Claimable, Candidates, UploadGroup
  <2> QED
    BY <2>1
<1>11. \A o \in Ops, a \in Claimed : o \in UploadGroup(a) => o \in W /\ A(o) = a
  <2> SUFFICES ASSUME NEW o \in Ops, NEW a \in Claimed, o \in UploadGroup(a)
               PROVE  o \in W /\ A(o) = a
    OBVIOUS
  <2>1. o \in W
    OBVIOUS
  <2>2. A(o) \in Claimed /\ o \in UploadGroup(A(o))
    BY <1>2, <2>1
  <2>3. row[o].state # "absent"
    BY <1>2, <2>1 DEF Uploadable
  <2> HIDE DEF A, W
  <2>4. SameEvent(o, o)
    BY <2>3 DEF SameEvent, OnEvent
  <2> QED
    BY <2>1, <2>2, <2>4, OneClaim
<1>12. W \cap Cancelled = {}
  <2> SUFFICES ASSUME NEW q \in W, q \in Cancelled PROVE FALSE
    OBVIOUS
  <2>1. A(q) \in Claimed /\ q \in UploadGroup(A(q))
    BY <1>2
  <2> HIDE DEF A, W
  <2>2. PICK c \in Reached : q \in CancelledOn(row[c].event)
    BY DEF Cancelled
  <2>3. row[q].event = row[c].event
    BY <2>2 DEF CancelledOn, ActiveOn, OnEvent
  <2>4. /\ A(q) \in Ops /\ q \in Ops /\ row[A(q)].state \in Uploadable
        /\ q = A(q) \/ Before(A(q), q)
        /\ A(q) \notin CancelledOn(row[A(q)].event)
    BY <2>1, ClaimedGroup
  <2>5. row[A(q)].event = row[q].event
    BY <2>4 DEF Before, SameEvent, OnEvent
  <2>6. A(q) \in CancelledOn(row[c].event)
    BY <2>2, <2>4, CancelledPending DEF Uploadable, Done
  <2> QED
    BY <2>3, <2>4, <2>5, <2>6
<1> HIDE DEF A, P, W, K, D, U, Group
<1>13. /\ W \subseteq Ops /\ K \subseteq Ops /\ D \subseteq Ops /\ U \subseteq Ops
       /\ K = Cancelled /\ W \cap K = {} /\ W \cap D = {} /\ W \cap U = {}
       /\ K \cap D = {} /\ K \cap U = {} /\ D \cap U = {}
       /\ \A o \in U : row[o].pred \in K /\ row[o].state = "pending"
       /\ \A o \in D : row[o].state \in Uploadable
  BY <1>3, <1>4, <1>12 DEF W, K, D, U
<1>14. ChangesStates
  <2>1. row' = [o \in Ops |-> row'[o]]
    BY <1>1
  <2>2. \A o \in Ops : Static(o)
    BY <1>5, <1>6, <1>7, <1>8, <1>9 DEF Becomes, Kept
  <2> QED
    BY <1>1, <2>1, <2>2 DEF ChangesStates
<1>15. /\ TypeOK' /\ ChainInv'
       /\ \A x, y \in Ops : Before(x, y)' <=> Before(x, y)
       /\ \A x, y \in Ops : SameEvent(x, y)' <=> SameEvent(x, y)
  BY <1>14, StaticStep
\* The fields of each row after the step, by the set it is in.
<1>16. \A o \in W : /\ row'[o].state = "syncing" /\ (row'[o].ready <=> o = A(o)) /\ row'[o].lease = l
                    /\ row'[o].prev = P(o) /\ row'[o].leader = A(o)
                    /\ A(o) \in Claimed /\ o \in UploadGroup(A(o)) /\ A(o) \in W
                    /\ row[o].state \in Uploadable
  BY <1>2, <1>5, <1>10 DEF Becomes
<1>17. \A o \in K : row'[o].state = "cancelled" /\ ~row'[o].ready /\ row'[o].lease = row[o].lease
                    /\ row'[o].prev = row[o].prev /\ row[o].state = "pending"
  BY <1>3, <1>6, <1>13 DEF Becomes
<1>18. \A o \in Ops \ (W \cup K) :
         /\ row'[o].state = row[o].state /\ row'[o].lease = row[o].lease
         /\ row'[o].prev = row[o].prev /\ row'[o].leader = row[o].leader
         /\ row'[o].ready => row[o].ready \/ (row[o].state = "pending" /\ row[o].pred \in K)
  BY <1>7, <1>8, <1>9, <1>13 DEF Becomes, Kept
<1>19. \A o \in Ops : row[o].state \in Done => row'[o].state \in Done
  BY <1>13, <1>16, <1>17, <1>18 DEF Uploadable, Done
<1>20. \A o \in Ops : row[o].state = "conflict" => row'[o].state = "conflict"
  BY <1>13, <1>16, <1>17, <1>18 DEF Uploadable, Done
<1>21. \A o \in Ops : PredDone(o) => PredDone(o)'
  <2>1. \A o \in Ops : row[o].pred # None => row[o].pred \in Ops
    BY DEF TypeOK, Row
  <2> QED
    BY <2>1, <1>14, <1>19 DEF PredDone, ChangesStates, Static
\* The group of each leased row.
<1>22. \A o \in W : /\ A(o) \in Ops /\ A(A(o)) = A(o) /\ PredDone(A(o))
                    /\ row[o].state = row[A(o)].state
                    /\ o = A(o) \/ (Before(A(o), o) /\ row[o].kind = "update")
                    /\ row[o].state \in InDoubt => row[A(o)].leader = A(o) /\ row[o].leader = A(o)
                    /\ \A x \in Ops : Before(A(o), x) /\ Before(x, o) => x \in W /\ A(x) = A(o)
  <2> SUFFICES ASSUME NEW o \in W
               PROVE  /\ A(o) \in Ops /\ A(A(o)) = A(o) /\ PredDone(A(o))
                      /\ row[o].state = row[A(o)].state
                      /\ o = A(o) \/ (Before(A(o), o) /\ row[o].kind = "update")
                      /\ row[o].state \in InDoubt => row[A(o)].leader = A(o) /\ row[o].leader = A(o)
                      /\ \A x \in Ops : Before(A(o), x) /\ Before(x, o) => x \in W /\ A(x) = A(o)
    OBVIOUS
  <2>1. A(o) \in Claimed /\ o \in UploadGroup(A(o))
    BY <1>2
  <2>2. /\ A(o) \in Ops /\ A(o) \in UploadGroup(A(o))
        /\ PredDone(A(o)) /\ row[o].state = row[A(o)].state
        /\ o = A(o) \/ (Before(A(o), o) /\ row[o].kind = "update")
        /\ row[A(o)].state \in InDoubt => row[A(o)].leader = A(o) /\ row[o].leader = A(o)
        /\ \A x \in Ops : Before(A(o), x) /\ Before(x, o) => x \in UploadGroup(A(o))
    BY <2>1, ClaimedGroup
  <2> QED
    BY <2>1, <2>2, <1>11
<1>23. ReadyInv'
  <2> SUFFICES ASSUME NEW o \in Ops, row'[o].ready
               PROVE  /\ PredDone(o)'
                      /\ \/ row'[o].state = "pending"
                         \/ row'[o].state \in InDoubt /\ row'[o].leader = o
    BY DEF ReadyInv
  <2>1. CASE o \in W
    BY <2>1, <1>16, <1>21, <1>22 DEF InDoubt
  <2>2. CASE o \in Ops \ (W \cup K) /\ row[o].ready
    BY <2>2, <1>18, <1>21 DEF ReadyInv
  <2>3. CASE o \in Ops \ (W \cup K) /\ row[o].state = "pending" /\ row[o].pred \in K
    BY <2>3, <1>14, <1>17, <1>18 DEF PredDone, Done, ChangesStates, Static
  <2> QED
    BY <2>1, <2>2, <2>3, <1>17, <1>18
<1>24. LeaseInv'
  <2>1. \A o \in W : row'[o].lease # None /\ row'[o].prev # "none" /\ row'[o].state = "syncing"
    BY <1>16, NoneAssumption DEF P
  <2>2. \A o \in K : row'[o].lease = None /\ row'[o].prev = "none" /\ row'[o].state # "syncing"
    BY <1>13, <1>17 DEF LeaseInv
  <2> QED
    BY <2>1, <2>2, <1>18 DEF LeaseInv
<1>25. ASSUME NEW o \in Ops, row'[o].state \in InDoubt, o \notin W
       PROVE  /\ row[o].state \in InDoubt /\ row'[o].leader = row[o].leader
              /\ row'[o].lease = row[o].lease /\ row'[o].prev = row[o].prev
              /\ Led(o, row[o].leader)
  BY <1>25, <1>17, <1>18 DEF LeaderInv, InDoubt
\* A row that was in doubt before is leased again by its old leader only.
<1>26. ASSUME NEW x \in W, row[x].state \in InDoubt
       PROVE  row'[x].leader = row[x].leader
  BY <1>26, <1>16, <1>22
<1>27. \A x \in W : row[x].state # "pending" => row[x].state \in InDoubt
  BY <1>16 DEF Uploadable, InDoubt
<1>28. LeaderInv'
  <2> SUFFICES ASSUME NEW o \in Ops, row'[o].state \in InDoubt,
                      NEW a, a = row'[o].leader
               PROVE  Led(o, a)'
    BY DEF LeaderInv
  <2>1. row'[o].kind = row[o].kind
    BY <1>14 DEF ChangesStates, Static
  <2>2. CASE o \in W
    <3>1. /\ a = A(o) /\ a \in W /\ a \in Ops
          /\ a = o \/ (Before(a, o) /\ row[o].kind = "update")
          /\ PredDone(a)
          /\ \A x \in Ops : Before(a, x) /\ Before(x, o) => x \in W /\ A(x) = a
      BY <2>2, <1>16, <1>22, <1>13
    <3>2. row'[a].state = "syncing" /\ row'[a].leader = a
      BY <2>2, <3>1, <1>16, <1>22
    <3>3. \A x \in Ops : Before(a, x) /\ Before(x, o) => row'[x].state = "syncing" /\ row'[x].leader = a
      BY <3>1, <1>16
    <3>4. PredDone(a)'
      BY <3>1, <1>21
    <3> QED
      BY <2>1, <3>1, <3>2, <3>3, <3>4, <1>15 DEF Led
  <2>3. CASE o \notin W
    <3>1. /\ a \in Ops
          /\ a = o \/ (Before(a, o) /\ row[o].kind = "update")
          /\ PredDone(a)
          /\ row[a].state # "pending"
          /\ row[a].state \in InDoubt => row[a].leader = a
          /\ \A x \in Ops : Before(a, x) /\ Before(x, o) =>
               /\ row[x].state # "pending"
               /\ row[x].state \in InDoubt => row[x].leader = a
      BY <2>3, <1>25 DEF Led
    <3>2. ASSUME NEW x \in Ops, row[x].state # "pending", row[x].state \in InDoubt => row[x].leader = a
          PROVE  row'[x].state # "pending" /\ (row'[x].state \in InDoubt => row'[x].leader = a)
      BY <3>2, <1>16, <1>17, <1>18, <1>25, <1>26, <1>27
    <3>3. PredDone(a)'
      BY <3>1, <1>21
    <3>4. row'[a].state # "pending" /\ (row'[a].state \in InDoubt => row'[a].leader = a)
      BY <3>1, <3>2
    <3>5. \A x \in Ops : Before(a, x)' /\ Before(x, o)' =>
               /\ row'[x].state # "pending"
               /\ row'[x].state \in InDoubt => row'[x].leader = a
      BY <3>1, <3>2, <1>15
    <3>6. a = o \/ (Before(a, o)' /\ row'[o].kind = "update")
      BY <2>1, <3>1, <1>15
    <3> QED
      BY <3>1, <3>3, <3>4, <3>5, <3>6 DEF Led
  <2> QED
    BY <2>2, <2>3
<1>29. GroupInv'
  <2> SUFFICES ASSUME NEW o \in Ops, row'[o].state \in InDoubt,
                      NEW a, a = row'[o].leader, row'[a].state = "syncing"
               PROVE  Grouped(o, a)'
    BY DEF GroupInv
  <2>1. CASE o \in W
    <3>1. /\ a = A(o) /\ a \in W /\ a \in Ops /\ row[o].state = row[a].state
          /\ \A x \in Ops : Before(a, x) /\ Before(x, o) => x \in W /\ A(x) = a
      BY <2>1, <1>16, <1>22
    <3>2. /\ row'[o].lease = l /\ row'[a].lease = l
          /\ row'[o].prev = row'[a].prev
      BY <2>1, <3>1, <1>16 DEF P
    <3>3. \A x \in Ops : Before(a, x) /\ Before(x, o) => row'[x].lease = l /\ row'[x].leader = a
      BY <3>1, <1>16
    <3> QED
      BY <3>1, <3>2, <3>3, <1>15 DEF Grouped
  <2>2. CASE o \notin W
    <3>1. /\ row[o].state \in InDoubt /\ a = row[o].leader /\ a \in Ops
          /\ row'[o].lease = row[o].lease /\ row'[o].prev = row[o].prev
          /\ row[a].state # "pending" /\ (row[a].state \in InDoubt => row[a].leader = a)
      BY <2>2, <1>25 DEF Led
    <3>2. CASE a \in W
      <4>1. row'[a].prev = "ambiguous" /\ row'[a].lease = l
        BY <3>1, <3>2, <1>16 DEF P
      <4>2. row'[o].lease # l
        BY <3>1, <1>1
      <4>3. row'[a].prev # "pending" /\ row'[o].lease # row'[a].lease
        BY <4>1, <4>2
      <4> QED
        BY <4>3 DEF Grouped
    <3>3. CASE a \notin W
      <4>1. /\ row[a].state = "syncing" /\ row'[a].lease = row[a].lease /\ row'[a].prev = row[a].prev
            /\ row[a].lease # None
        BY <3>1, <3>3, <1>17, <1>18 DEF LeaseInv
      <4>2. Grouped(o, a)
        BY <3>1, <4>1 DEF GroupInv
      <4>3. ASSUME NEW x \in Ops, row[x].lease = row[a].lease, row[x].leader = a
            PROVE  row'[x].lease = row[a].lease /\ row'[x].leader = a
        <5>1. row[x].state = "syncing"
          BY <4>1, <4>3 DEF LeaseInv
        <5>2. x \notin W
          BY <5>1, <4>3, <3>3, <1>16, <1>22 DEF InDoubt
        <5>3. x \notin K
          BY <5>1, <1>17
        <5> QED
          BY <5>2, <5>3, <4>3, <1>18
      <4>4. \A x \in Ops : Before(a, x)' /\ Before(x, o)' /\ row'[o].lease = row'[a].lease =>
               \/ row'[x].state = "conflict"
               \/ row'[x].lease = row'[a].lease /\ row'[x].leader = a
        BY <1>15, <1>20, <3>1, <4>1, <4>2, <4>3 DEF Grouped
      <4>5. /\ row'[a].prev = "pending" => row'[o].lease = row'[a].lease
            /\ row'[o].lease = row'[a].lease => row'[o].prev = row'[a].prev
        BY <3>1, <4>1, <4>2 DEF Grouped
      <4> QED
        BY <4>4, <4>5 DEF Grouped
    <3> QED
      BY <3>2, <3>3
  <2> QED
    BY <2>1, <2>2
<1>30. NoOvertaking'
  <2> SUFFICES ASSUME NEW o \in Ops, NEW p \in Ops, Before(o, p), row'[p].state \in Done
               PROVE  row'[o].state \in Done \cup {"conflict"}
    BY <1>15 DEF NoOvertaking
  <2>1. CASE p \in K
    BY <2>1, <1>3, <1>13, <1>17, <1>19 DEF Done
  <2>2. CASE p \notin K
    <3>1. row[p].state \in Done
      BY <2>2, <1>16, <1>18 DEF Done
    <3> QED
      BY <3>1, <1>19, <1>20 DEF NoOvertaking
  <2> QED
    BY <2>1, <2>2
<1>31. OneOpenUpload'
  \* A row in doubt on the event of a leased row is leased with it.
  <2>1. ASSUME NEW o \in W, NEW r \in Ops, SameEvent(o, r), row'[r].state \in InDoubt, r \notin W
        PROVE  row[r].leader = A(o)
    <3> DEFINE a == A(o)
               b == row[r].leader
    <3>1. /\ a \in W /\ a \in Ops /\ A(a) = a /\ PredDone(a) /\ o \in Ops
          /\ o = a \/ Before(a, o)
          /\ row[a].state \in Uploadable /\ (row[a].state \in InDoubt => row[a].leader = a)
      BY <1>13, <1>16, <1>22
    <3>2. row[r].state \in InDoubt /\ Led(r, b)
      BY <2>1, <1>25
    <3> HIDE DEF a, b
    <3>3. b \in Ops /\ (b = r \/ Before(b, r)) /\ PredDone(b)
      BY <3>2 DEF Led
    <3>4. SameEvent(r, a) /\ SameEvent(a, r) /\ row[r].state # "absent" /\ row[a].state # "absent"
      BY <2>1, <3>1, <3>2 DEF Before, SameEvent, OnEvent, InDoubt, Uploadable
    <3>5. Before(a, r)
      <4>1. r # a
        BY <2>1, <3>1
      <4>2. ~Before(r, a)
        BY <3>1, <3>2, PredDoneBehind DEF InDoubt, Done
      <4> QED
        BY <3>1, <3>4, <4>1, <4>2, BeforeOrder
    <3>6. row[a].state \notin Done \cup {"conflict"}
      BY <3>1 DEF Uploadable, Done
    <3>7. ~Before(a, b)
      BY <3>1, <3>3, <3>6, PredDoneBehind
    <3>8. b = a \/ Before(b, a)
      <4>1. row[b].state # "absent" /\ SameEvent(a, b)
        BY <3>3, <3>4 DEF Before, SameEvent, OnEvent
      <4> QED
        BY <3>1, <3>3, <3>7, <4>1, BeforeOrder
    <3>9. row[a].state # "pending" /\ row[a].state \in InDoubt
      BY <3>1, <3>2, <3>5, <3>8, <1>27 DEF Led
    <3>10. b = a
      BY <3>1, <3>2, <3>5, <3>8, <3>9, BeforeOrder DEF Led
    <3> QED
      BY <3>10 DEF a, b
  <2> SUFFICES ASSUME NEW o \in Ops, NEW p \in Ops, SameEvent(o, p),
                      row'[o].state \in InDoubt, row'[p].state \in InDoubt
               PROVE  row'[o].leader = row'[p].leader
    BY <1>15 DEF OneOpenUpload
  <2>2. SameEvent(p, o)
    <3>1. \A x \in Ops : row'[x].state \in InDoubt => row[x].state # "absent"
      BY <1>16, <1>25 DEF InDoubt, Uploadable
    <3> QED
      BY <3>1 DEF SameEvent, OnEvent
  <2>3. CASE o \in W /\ p \in W
    <3>1. A(o) = A(p)
      BY <2>3, <1>16, OneClaim
    <3> QED
      BY <2>3, <3>1, <1>16
  <2>4. CASE o \in W /\ p \notin W
    BY <2>4, <2>1, <1>16, <1>25
  <2>5. CASE o \notin W /\ p \in W
    BY <2>5, <2>1, <2>2, <1>16, <1>25
  <2>6. CASE o \notin W /\ p \notin W
    BY <2>6, <1>25 DEF OneOpenUpload
  <2> QED
    BY <2>3, <2>4, <2>5, <2>6
<1>32. ASSUME NEW o \in Ops PROVE Moves(o) /\ Reconciled(o)
  <2>1. CASE o \in W
    <3>1. row[o].state \in Uploadable /\ row'[o].state = "syncing"
      BY <2>1, <1>16
    <3>2. row[o].state \in InDoubt => row'[o].prev = "ambiguous"
      BY <2>1, <1>16 DEF P, InDoubt
    <3> QED
      BY <3>1, <3>2 DEF Moves, Reconciled, Uncertain, Active
  <2>2. CASE o \in K
    BY <2>2, <1>17 DEF Moves, Reconciled, InDoubt, Uploadable, Done
  <2>3. CASE o \in Ops \ (W \cup K)
    <3>1. /\ row'[o].state = row[o].state /\ row'[o].lease = row[o].lease
          /\ row'[o].prev = row[o].prev
      BY <2>3, <1>18
    <3>2. row[o].state = "syncing" => row[o].prev \in {"pending", "ambiguous"}
      BY DEF LeaseInv, TypeOK, Row
    <3> QED
      BY <3>1, <3>2 DEF Moves, Reconciled, Uncertain, InDoubt
  <2> QED
    BY <2>1, <2>2, <2>3
<1> QED
  BY <1>14, <1>15, <1>23, <1>24, <1>28, <1>29, <1>30, <1>31, <1>32 DEF Effect

-----------------------------------------------------------------------------
(* Every step keeps the invariant.                                         *)

LEMMA SuccessStep ==
  ASSUME IInv, NEW o \in Ops, NEW l \in Leases, NEW S \in SUBSET Ops, RecordRemoteSuccess(o, l, S)
  PROVE  IInv' /\ Effect
<1> DEFINE G == LeasedGroup(o, l)
           U == {p \in Ops \ (S \cup G) : row[p].pred \in G /\ row[p].state = "pending"}
<1>1. TypeOK
  BY DEF IInv
<1>2. Closed(G) /\ o \in G /\ \A p \in G : row[p].leader = o /\ row[p].lease = row[o].lease
  BY <1>1, LeasedGroupClosed DEF RecordRemoteSuccess, HoldsLease, LeasedGroup
<1>3. S \cap G = {} /\ \A p \in S : row[p].state \in Uploadable \cup {"failed"}
  BY DEF RecordRemoteSuccess, Rebasable
<1>a. \A p \in S : row[p].state \notin Done \cup {"conflict", "absent"}
  BY <1>3 DEF Uploadable, Done
<1>4. \A p \in G : row[p].state = "syncing" /\ p \in Ops
  BY DEF LeasedGroup
<1>5. \A p \in Ops :
        /\ p \in G => row'[p] = AcknowledgedRow(p)
        /\ p \in S => row'[p] = ConflictRow(p)
        /\ p \in U => row'[p] = UnlockedRow(p)
        /\ p \in Ops \ (G \cup S \cup U) => row'[p] = row[p]
  BY <1>3 DEF RecordRemoteSuccess
<1>6. U \in SUBSET Ops /\ U \cap (S \cup G) = {} /\ \A p \in U : row[p].state = "pending" /\ row[p].pred \in G
  OBVIOUS
<1>7. row' = [p \in Ops |-> row'[p]] /\ clock' = clock
  BY DEF RecordRemoteSuccess
<1> HIDE DEF G, U
<1>8. \A p \in G : Becomes(p, "succeeded", FALSE, None, "none", None)
  BY <1>1, <1>4, <1>5, AcknowledgedRowEffect
<1>9. \A p \in S : Becomes(p, "conflict", FALSE, None, "none", row[p].leader)
  BY <1>1, <1>a, <1>5, ConflictRowEffect
<1>10. \A p \in U : Becomes(p, row[p].state, TRUE, row[p].lease, row[p].prev, row[p].leader)
  BY <1>1, <1>5, <1>6, UnlockedRowEffect
<1>11. \A p \in Ops \ (G \cup S \cup U) : Kept(p)
  BY <1>1, <1>5, KeptRow
<1>12. ChangesStates
  BY <1>2, <1>6, <1>7, <1>8, <1>9, <1>10, <1>11 DEF ChangesStates, Becomes, Kept
<1>13. IInv'
  BY <1>2, <1>3, <1>a, <1>6, <1>8, <1>9, <1>10, <1>11, <1>12, AcknowledgedStep
<1>14. \A p \in G : Moves(p) /\ Reconciled(p)
  BY <1>4, <1>8 DEF Becomes, Moves, Reconciled, Uploadable, Done
<1>15. \A p \in S : Moves(p) /\ Reconciled(p)
  BY <1>3, <1>9 DEF Becomes, Moves, Reconciled, Active
<1>16. \A p \in U : Moves(p) /\ Reconciled(p)
  BY <1>6, <1>10 DEF Becomes, Moves, Reconciled, InDoubt
<1> QED
  BY <1>11, <1>12, <1>13, <1>14, <1>15, <1>16, KeptMoves DEF Effect

\* The other outcomes touch the rows of one closed set, and only those.
OnlyRows(G) ==
  /\ row' = [p \in Ops |-> row'[p]] /\ clock' = clock
  /\ \A p \in Ops \ G : row'[p] = row[p]

LEMMA OnlyRowsChange ==
  ASSUME TypeOK, NEW G \in SUBSET Ops, OnlyRows(G), \A p \in G : Static(p)
  PROVE  ChangesStates /\ \A p \in Ops \ G : Kept(p)
<1>1. \A p \in Ops \ G : Kept(p)
  BY KeptRow DEF OnlyRows
<1> QED
  BY <1>1 DEF ChangesStates, OnlyRows, Kept, Becomes

LEMMA AmbiguousOutcome ==
  ASSUME IInv, NEW o \in Ops, NEW l \in Leases, RecordRemoteAmbiguous(o, l)
  PROVE  IInv' /\ Effect
<1> DEFINE G == LeasedGroup(o, l)
<1>1. TypeOK /\ Closed(G) /\ G \in SUBSET Ops
  BY LeasedGroupClosed DEF IInv, LeasedGroup
<1>2. OnlyRows(G) /\ \A p \in G : row'[p] = AmbiguousRow(p) /\ row[p].state = "syncing"
  BY DEF OnlyRows, RecordRemoteAmbiguous, LeasedGroup
<1> HIDE DEF G
<1>3. \A p \in G : Becomes(p, "ambiguous", row[p].leader = p, None, "none", row[p].leader)
  BY <1>1, <1>2, AmbiguousRowEffect
<1>4. ChangesStates /\ \A p \in Ops \ G : Kept(p)
  BY <1>1, <1>2, <1>3, OnlyRowsChange DEF Becomes
<1>5. \A p \in G : Moves(p) /\ Reconciled(p)
  BY <1>2, <1>3 DEF Becomes, Moves, Reconciled, Uncertain, Uploadable, Active
<1> QED
  BY <1>1, <1>3, <1>4, <1>5, AmbiguousStep, KeptMoves DEF Effect

LEMMA ReleaseOutcome ==
  ASSUME IInv, NEW l \in Leases, ReleaseLease(l)
  PROVE  IInv' /\ Effect
<1> DEFINE G == Leased(l)
<1>1. TypeOK /\ Closed(G) /\ G \in SUBSET Ops
  <2>1. \A o \in G : row[o].state = "syncing"
    BY DEF Leased
  <2> QED
    BY <2>1 DEF IInv, Leased, Closed
<1>2. OnlyRows(G) /\ \A p \in G : row'[p] = ReleasedRow(p) /\ row[p].state = "syncing"
  BY DEF OnlyRows, ReleaseLease, Leased
<1>3. \A p \in G : row[p].leader # None
  BY <1>2, NoneAssumption DEF IInv, LeaderInv, Led, InDoubt, Leased
<1> HIDE DEF G
<1>4. \A p \in G : Becomes(p, "ambiguous", row[p].leader = p, None, "none", row[p].leader)
  BY <1>1, <1>2, <1>3, ReleasedRowEffect
<1>5. ChangesStates /\ \A p \in Ops \ G : Kept(p)
  BY <1>1, <1>2, <1>4, OnlyRowsChange DEF Becomes
<1>6. \A p \in G : Moves(p) /\ Reconciled(p)
  BY <1>2, <1>4 DEF Becomes, Moves, Reconciled, Uncertain, Uploadable, Active
<1> QED
  BY <1>1, <1>4, <1>5, <1>6, AmbiguousStep, KeptMoves DEF Effect

LEMMA RetryOutcome ==
  ASSUME IInv, NEW o \in Ops, NEW l \in Leases, RecordRemoteRetry(o, l)
  PROVE  IInv' /\ Effect
<1> DEFINE G == LeasedGroup(o, l)
           s == IF row[o].prev = "ambiguous" THEN "ambiguous" ELSE "pending"
<1>1. TypeOK /\ Closed(G) /\ G \in SUBSET Ops
  BY LeasedGroupClosed DEF IInv, LeasedGroup
<1>2. o \in G /\ ~row[o].due /\ \A p \in G : row[p].leader = o /\ row[p].state = "syncing" /\ row[p].lease = l
  BY DEF RecordRemoteRetry, HoldsLease, LeasedGroup
<1>3. OnlyRows(G) /\ \A p \in G : row'[p] = RetriedRow(p)
  BY DEF OnlyRows, RecordRemoteRetry, LeasedGroup
\* The rows of a lease were leased in one state.
<1>4. \A p \in G : row[p].prev = row[o].prev /\ row[p].prev \in {"pending", "ambiguous"}
  <2>1. \A p \in G : row[p].prev # "none" /\ row[p].prev \in {"none", "pending", "ambiguous"}
    BY <1>1, <1>2 DEF IInv, LeaseInv, TypeOK, Row
  <2> QED
    BY <1>1, <1>2, <2>1 DEF IInv, GroupInv, Grouped, InDoubt
<1>5. s \in {"pending", "ambiguous"} /\ (s = "ambiguous" <=> row[o].prev = "ambiguous")
  OBVIOUS
<1> HIDE DEF G, s
<1>6. \A p \in G : Becomes(p, s, row[p].leader = p, None, "none", row[p].leader)
  BY <1>1, <1>2, <1>3, <1>4, <1>5, RetriedRowEffect
<1>7. ChangesStates /\ \A p \in Ops \ G : Kept(p)
  BY <1>1, <1>3, <1>6, OnlyRowsChange DEF Becomes
<1>8. ASSUME s = "ambiguous" PROVE IInv'
  BY <1>1, <1>6, <1>7, <1>8, AmbiguousStep
<1>9. ASSUME s = "pending" PROVE IInv'
  BY <1>1, <1>2, <1>4, <1>5, <1>6, <1>7, <1>9, PendingStep
<1>10. \A p \in G : Moves(p) /\ Reconciled(p)
  BY <1>2, <1>4, <1>5, <1>6 DEF Becomes, Moves, Reconciled, Uncertain, Uploadable, Active
<1> QED
  BY <1>5, <1>7, <1>8, <1>9, <1>10, KeptMoves DEF Effect

LEMMA RefuseOutcome ==
  ASSUME IInv, NEW o \in Ops, NEW l \in Leases, NEW s \in {"failed", "conflict"}, Refuse(o, l, s)
  PROVE  IInv' /\ Effect
<1> DEFINE G == LeasedGroup(o, l)
<1>1. TypeOK /\ Closed(G) /\ G \in SUBSET Ops
  BY LeasedGroupClosed DEF IInv, LeasedGroup
<1>2. o \in G /\ \A p \in G : row[p].leader = o /\ row[p].state = "syncing"
  BY DEF Refuse, HoldsLease, LeasedGroup
<1>3. OnlyRows(G) /\ \A p \in G : row'[p] = RefusedRow(p, s)
  BY DEF OnlyRows, Refuse, LeasedGroup
<1> HIDE DEF G
<1>4. \A p \in G : Becomes(p, s, FALSE, None, "none", None)
  BY <1>1, <1>2, <1>3, RefusedRowEffect
<1>5. ChangesStates /\ \A p \in Ops \ G : Kept(p)
  BY <1>1, <1>3, <1>4, OnlyRowsChange DEF Becomes
<1>6. \A p \in G : Moves(p) /\ Reconciled(p)
  BY <1>2, <1>4 DEF Becomes, Moves, Reconciled, Uploadable, Active
<1> QED
  BY <1>1, <1>2, <1>4, <1>5, <1>6, RefusedStep, KeptMoves DEF Effect

\* A pull only turns unsettled rows into conflicts.
LEMMA RemoteStep ==
  ASSUME IInv, NEW e \in Events,
         (\E S \in SUBSET Ops : RemoteOverlap(e, S)) \/ RemoteGone(e)
  PROVE  IInv' /\ Effect
<1>1. TypeOK
  BY DEF IInv
<1>2. PICK C \in SUBSET Ops :
        /\ \A o \in C : row[o].state \in Active
        /\ OnlyRows(C)
        /\ \A o \in C : row'[o] \in {ConflictRow(o), [ConflictRow(o) EXCEPT !.due = TRUE]}
  <2>1. ASSUME NEW S \in SUBSET Ops, RemoteOverlap(e, S)
        PROVE  /\ \A o \in S : row[o].state \in Active
               /\ OnlyRows(S)
               /\ \A o \in S : row'[o] = ConflictRow(o)
    BY <2>1 DEF RemoteOverlap, Rebasable, Uploadable, Active, OnlyRows
  <2>2. ASSUME RemoteGone(e)
        PROVE  /\ ActiveOn(e) \in SUBSET Ops
               /\ \A o \in ActiveOn(e) : row[o].state \in Active
               /\ OnlyRows(ActiveOn(e))
               /\ \A o \in ActiveOn(e) : row'[o] = [ConflictRow(o) EXCEPT !.due = TRUE]
    BY <2>2 DEF RemoteGone, ActiveOn, OnEvent, OnlyRows
  <2> QED
    BY <2>1, <2>2
<1>3. \A o \in C : row[o].state # "absent" /\ row[o].state \notin Done
  BY <1>2 DEF Active, Done
<1>4. \A o \in C : Becomes(o, "conflict", FALSE, None, "none", row[o].leader)
  BY <1>1, <1>2, <1>3, ConflictRowEffect
<1>5. ChangesStates /\ \A p \in Ops \ C : Kept(p)
  BY <1>1, <1>2, <1>4, OnlyRowsChange DEF Becomes
<1>6. \A p \in C : Moves(p) /\ Reconciled(p)
  BY <1>2, <1>4 DEF Becomes, Moves, Reconciled, Uploadable, Active
<1> QED
  BY <1>3, <1>4, <1>5, <1>6, ConflictStep, KeptMoves DEF Effect

\* The clock and the heartbeats move lease times only.
LEMMA ClockStep ==
  ASSUME IInv,
         \/ \E l \in Leases : HeartbeatLease(l) \/ LeaseExpires(l)
         \/ \E o \in Ops : RetryComesDue(o)
         \/ UNCHANGED vars
  PROVE  IInv' /\ Effect
<1>1. TypeOK
  BY DEF IInv
<1>2. /\ row' = [p \in Ops |-> row'[p]] /\ clock' = clock
      /\ \A p \in Ops : /\ row'[p] \in {row[p], PostponedRow(p), DueRow(p)}
                        /\ row[p].state = "absent" => row'[p] = row[p]
  BY <1>1 DEF HeartbeatLease, LeaseExpires, RetryComesDue, Leased, vars, TypeOK
<1>3. \A p \in Ops : Kept(p)
  BY <1>1, <1>2, KeptRow
<1>4. ChangesStates
  BY <1>2, <1>3 DEF ChangesStates, Kept, Becomes
<1> QED
  BY <1>3, <1>4, KeptStep, KeptMoves DEF Effect

\* A step appends an edit, or only moves states.
LEMMA Step ==
  ASSUME IInv, [Next]_vars
  PROVE  /\ IInv'
         /\ Effect \/ \E o \in Ops, e \in Events, k \in UserKinds : Enqueue(o, e, k)
<1>1. ASSUME NEW o \in Ops, NEW e \in Events, NEW k \in UserKinds, Enqueue(o, e, k) PROVE IInv'
  BY <1>1, EnqueueStep
<1>2. ASSUME NEW l \in Leases, LeaseOperations(l) PROVE IInv' /\ Effect
  BY <1>2, LeaseStep
<1>3. ASSUME NEW o \in Ops, NEW l \in Leases, Answer(o, l) PROVE IInv' /\ Effect
  BY <1>3, SuccessStep, AmbiguousOutcome, RetryOutcome, RefuseOutcome
  DEF Answer, RecordRemoteFailure, RecordRemoteConflict
<1>4. ASSUME NEW l \in Leases, ReleaseLease(l) PROVE IInv' /\ Effect
  BY <1>4, ReleaseOutcome
<1>5. ASSUME NEW e \in Events, (\E S \in SUBSET Ops : RemoteOverlap(e, S)) \/ RemoteGone(e)
      PROVE  IInv' /\ Effect
  BY <1>5, RemoteStep
<1>6. ASSUME \/ \E l \in Leases : HeartbeatLease(l) \/ LeaseExpires(l)
             \/ \E o \in Ops : RetryComesDue(o)
             \/ UNCHANGED vars
      PROVE IInv' /\ Effect
  BY <1>6, ClockStep
<1> QED
  BY <1>1, <1>2, <1>3, <1>4, <1>5, <1>6 DEF Next

-----------------------------------------------------------------------------
(* The theorems.                                                           *)

\* The queue's inductive invariant holds in every reachable state.
THEOREM Invariance == Spec => []IInv
BY InitIInv, Step, PTL DEF Spec

\* Every row keeps its type: states, lease fields and chain links of the
\* calendarOperations table under all mutations of operations.ts and
\* calendarBroker.ts.
THEOREM TypeCorrect == Spec => []TypeOK
<1>1. IInv => TypeOK
  BY DEF IInv
<1> QED
  BY <1>1, Invariance, PTL

\* No edit is acknowledged or cancelled before the earlier edits of its event,
\* however leases, expiries, retries, compaction and pulls interleave.
THEOREM InOrder == Spec => []NoOvertaking
<1>1. IInv => NoOvertaking
  BY DEF IInv
<1> QED
  BY <1>1, Invariance, PTL

\* Two uploads of one event are never in doubt at once.
THEOREM SingleUpload == Spec => []OneOpenUpload
<1>1. IInv => OneOpenUpload
  BY DEF IInv
<1> QED
  BY <1>1, Invariance, PTL

\* leaseReady marks chain heads only.
THEOREM HeadsOnly == Spec => []ReadyHeadsChain
<1>1. IInv => ReadyHeadsChain
  <2> SUFFICES ASSUME IInv, NEW o \in Ops, NEW p \in Ops, row[p].ready, Before(o, p)
               PROVE  row[o].state \in Done \cup {"conflict"}
    BY DEF ReadyHeadsChain
  <2>1. PredDone(p)
    BY DEF IInv, ReadyInv
  <2> QED
    BY <2>1, PredDoneBehind DEF IInv
<1> QED
  BY <1>1, Invariance, PTL

\* A write that Google may hold never returns to the queue as a fresh one,
\* except by the report of a lease that still stands.
THEOREM NoBlindReplay == Spec => ReconciledBeforeReplay
<1>1. IInv /\ [Next]_vars => [\A o \in Ops : Reconciled(o)]_vars
  <2> SUFFICES ASSUME IInv, [Next]_vars PROVE \A o \in Ops : Reconciled(o)
    OBVIOUS
  <2>1. ASSUME NEW n \in Ops, NEW e \in Events, NEW k \in UserKinds, Enqueue(n, e, k), NEW o \in Ops
        PROVE  Reconciled(o)
    <3>1. row[n].state = "absent" /\ (o # n => row'[o] = row[o])
      BY <2>1 DEF Enqueue, IInv, TypeOK
    <3>2. row[o].state = "syncing" => row[o].prev \in {"pending", "ambiguous"}
      BY DEF IInv, LeaseInv, TypeOK, Row
    <3> QED
      BY <3>1, <3>2 DEF Reconciled, Uncertain, InDoubt
  <2> QED
    BY <2>1, Step DEF Effect
<1> QED
  BY <1>1, Invariance, PTL DEF Spec, ReconciledBeforeReplay

-----------------------------------------------------------------------------
(* The refinement of EditLog. *)

LEMMA LogInitially == Init => Log!LogInit
<1> SUFFICES ASSUME Init PROVE Log!LogInit
  OBVIOUS
<1>1. \A o \in Ops : FateOf(o) = "none" /\ row[o].event = None
  BY DEF Init, NoRow, FateOf
<1>2. \A x, o \in Ops : ~Before(x, o)
  BY DEF Init, NoRow, Before, SameEvent, OnEvent
<1> QED
  BY <1>1, <1>2 DEF Log!LogInit, Fates, EventOf, Behind

\* Appending a row is accepting an edit.
LEMMA EnqueueAccepts ==
  ASSUME IInv, NEW n \in Ops, NEW e \in Events, NEW k \in UserKinds, Enqueue(n, e, k)
  PROVE  Log!Accept(n, e)
<1> USE DEF IInv
<1>1. PICK p \in Ops \cup {None} : row' = [row EXCEPT ![n] = NewRow(e, k, p)]
  BY DEF Enqueue
<1>2. row[n].state = "absent"
  BY DEF Enqueue
<1>3. \A o \in Ops \ {n} : row'[o] = row[o]
  BY <1>1 DEF TypeOK
<1>4. row'[n].state = "pending" /\ row'[n].event = e /\ row'[n].at = clock
  BY <1>1 DEF TypeOK, NewRow
<1>5. FateOf(n) = "none" /\ FateOf(n)' = "open" /\ \A o \in Ops \ {n} : FateOf(o)' = FateOf(o)
  BY <1>2, <1>3, <1>4 DEF FateOf, Done
<1>6. \A o \in Ops : row'[o].event = IF o = n THEN e ELSE row[o].event
  BY <1>3, <1>4
<1>7. \A x, y \in Ops : Before(x, y)' <=> Before(x, y) \/ (y = n /\ row[x].event = e)
  <2>1. \A x \in Ops : row[x].state = "absent" <=> row[x].event = None
    BY NoneAssumption DEF ChainInv, NoRow
  <2>2. \A x \in Ops : row[x].state # "absent" => row[x].at < clock /\ row[x].at \in Nat
    BY DEF ChainInv, TypeOK, Row
  <2>3. clock \in Nat /\ e # None
    BY NoneAssumption DEF TypeOK
  <2>4. ASSUME NEW x \in Ops, NEW y \in Ops
        PROVE  Before(x, y)' <=> Before(x, y) \/ (y = n /\ row[x].event = e)
    <3>1. CASE x # n /\ y # n
      BY <3>1, <1>3 DEF Before, SameEvent, OnEvent
    <3>2. CASE x # n /\ y = n
      BY <3>2, <1>2, <1>3, <1>4, <2>1, <2>2, <2>3 DEF Before, SameEvent, OnEvent
    <3>3. CASE x = n
      BY <3>3, <1>2, <1>3, <1>4, <2>1, <2>2, <2>3 DEF Before, SameEvent, OnEvent
    <3> QED
      BY <3>1, <3>2, <3>3
  <2> QED
    BY <2>4
<1>8. Fates' = [Fates EXCEPT ![n] = "open"] /\ Fates[n] = "none"
  BY <1>5 DEF Fates
<1>9. EventOf' = [EventOf EXCEPT ![n] = e]
  BY <1>6 DEF EventOf
<1>10. Behind' = Behind \cup {<<x, n>> : x \in {y \in Ops : EventOf[y] = e}}
  <2> DEFINE New == {<<x, n>> : x \in {y \in Ops : EventOf[y] = e}}
  <2>1. \A x, y \in Ops : <<x, y>> \in Behind <=> Before(x, y)
    BY DEF Behind
  <2>2. \A x, y \in Ops : <<x, y>> \in Behind' <=> Before(x, y)'
    BY DEF Behind
  <2>3. \A x, y \in Ops : <<x, y>> \in New <=> y = n /\ row[x].event = e
    BY DEF EventOf
  <2>4. Behind \subseteq Ops \X Ops /\ Behind' \subseteq Ops \X Ops /\ New \subseteq Ops \X Ops
    BY DEF Behind
  <2> HIDE DEF New
  <2>5. \A z \in Ops \X Ops : z \in Behind' <=> z \in Behind \/ z \in New
    BY <1>7, <2>1, <2>2, <2>3
  <2>6. Behind' = Behind \cup New
    BY <2>4, <2>5
  <2> QED
    BY <2>6 DEF New
<1> QED
  BY <1>8, <1>9, <1>10 DEF Log!Accept

\* Moving states is a report about the edits whose fate it decides.
LEMMA EffectReports ==
  ASSUME IInv, IInv', Effect
  PROVE  Log!LogNext
<1> USE DEF IInv
<1> DEFINE X == {o \in Ops : FateOf(o)' # FateOf(o)}
           A == {o \in X : FateOf(o)' = "settled"}
           F == {o \in X : FateOf(o)' = "failed"}
           L == {o \in X : FateOf(o)' = "lost"}
<1>1. /\ \A x, y \in Ops : Before(x, y)' <=> Before(x, y)
      /\ \A o \in Ops : row'[o].event = row[o].event
  BY StaticStep DEF Effect, ChangesStates, Static
<1>2. ASSUME NEW o \in Ops
      PROVE  \/ FateOf(o)' = FateOf(o)
             \/ FateOf(o) = "open" /\ FateOf(o)' \in {"settled", "failed", "lost"}
             \/ FateOf(o) = "failed" /\ FateOf(o)' = "lost"
  BY DEF Effect, Moves, FateOf, Uploadable, Active, Done
<1>3. ASSUME NEW o \in A, NEW x \in Ops, Before(x, o)
      PROVE  FateOf(x)' \in {"settled", "lost"}
  <2>1. row'[o].state \in Done
    BY DEF FateOf
  <2>2. row'[x].state \in Done \cup {"conflict"}
    BY <1>1, <1>3, <2>1 DEF NoOvertaking
  <2> QED
    BY <2>2 DEF FateOf, Done
<1>4. Fates' = [o \in Ops |-> IF o \in A THEN "settled"
                              ELSE IF o \in F THEN "failed"
                              ELSE IF o \in L THEN "lost" ELSE Fates[o]]
  BY <1>2 DEF Fates
<1>5. Behind' = Behind /\ EventOf' = EventOf
  BY <1>1 DEF Behind, EventOf
<1>6. /\ A \in SUBSET Ops /\ F \in SUBSET Ops /\ L \in SUBSET Ops
      /\ A \cap L = {} /\ F \cap (A \cup L) = {}
      /\ \A o \in A \cup F : Fates[o] = "open"
      /\ \A o \in L : Fates[o] \in {"open", "failed"}
  BY <1>2 DEF Fates
<1>7. \A o \in A, x \in Ops : <<x, o>> \in Behind => Fates'[x] \in {"settled", "lost"}
  BY <1>3 DEF Fates, Behind
<1> HIDE DEF A, F, L
<1>8. Log!Report(A, F, L)
  BY <1>4, <1>5, <1>6, <1>7 DEF Log!Report
<1> QED
  BY <1>6, <1>8 DEF Log!LogNext

\* The queue implements the abstract log of edits: acceptance order is kept,
\* nothing settles past an open or failed edit, and verdicts are final.
THEOREM Refinement == Spec => ImplementsEditLog
<1>1. IInv /\ IInv' /\ [Next]_vars => [Log!LogNext]_(Log!logVars)
  <2> SUFFICES ASSUME IInv, IInv', [Next]_vars PROVE Log!LogNext
    OBVIOUS
  <2>1. CASE Effect
    BY <2>1, EffectReports
  <2>2. ASSUME NEW n \in Ops, NEW e \in Events, NEW k \in UserKinds, Enqueue(n, e, k)
        PROVE  Log!LogNext
    BY <2>2, EnqueueAccepts DEF Log!LogNext
  <2> QED
    BY <2>1, <2>2, Step
<1> QED
  BY <1>1, LogInitially, Invariance, PTL DEF Spec, ImplementsEditLog, Log!LogSpec

-----------------------------------------------------------------------------
(* SeriesUpload: a recurring event and the uploads of its edits.  What has *)
(* been written at Google is written on its operations, and what was sent  *)
(* together stays together, so that a look knows of all of them what it    *)
(* finds of one.                                                           *)

State(n)    == ops[n].state
Lead(n)     == ops[n].lead
Busy(m)     == jobs[m].at # "none"
Doubtful(n) == State(n) \in {"ambiguous", "syncing"}
Lost(n)     == State(n) \in {"conflict", "failed"}
Did(n)      == history.wrote[n]
Group(m)    == {k \in Positions : Doubtful(k) /\ Lead(k) = m}
Stuck(o)    == \E n \in Of(o) : Lost(n)

\* The series and the operations that reach them, in the order they came.
QueueOK ==
  /\ google.series[0].there
  /\ \A r \in SeriesIds : google.series[r].there /\ r # 0 => r \in Positions
  /\ \A n \in Positions : Occ(n)[1] < n /\ google.series[Occ(n)[1]].there
  /\ \A o \in Occurrences : rows[o].here => Master(o).there
  /\ \A n \in Positions : Kind(n) = "delete" /\ State(n) \in ActiveStates =>
       ~rows[Occ(n)].here /\ \A k \in Of(Occ(n)) : k <= n
  /\ \A n \in Positions : Lost(n) =>
       \A k \in Of(Occ(n)) : k < n => State(k) = "succeeded" \/ Lost(k)

StampsOK ==
  /\ \A r \in SeriesIds : google.series[r].stamp <= google.clock
  /\ \A o \in Occurrences : google.own[o].stamp <= google.clock
  /\ cycle.token <= google.clock

\* Operations that were sent together stand together, and all before them are done.
GroupsOK ==
  \A n \in Positions : Doubtful(n) =>
    /\ Lead(n) \in Of(Occ(n)) /\ Lead(n) <= n
    /\ n # Lead(n) => Kind(n) = "update"
    /\ \A k \in Of(Occ(n)) : k < n =>
         IF k < Lead(n) THEN State(k) = "succeeded"
         ELSE State(k) = State(n) /\ Lead(k) = Lead(n)

JobsOK ==
  /\ cycle.at = "open" => \A m \in OpIds : ~Busy(m)
  /\ \A n \in Positions, m \in OpIds : State(n) = "syncing" /\ Lead(n) = m => Busy(m)
  /\ \A m \in OpIds : Busy(m) =>
       m \in Positions /\ State(m) = "syncing" /\ Lead(m) = m /\ jobs[m].members = Group(m)

\* Where a job is, and what it has not done yet.
AimOK(m, job) ==
  /\ job.member => Kind(m) = "update"
  /\ job.at = "look" => job.from = "ambiguous"
  /\ job.at = "read" => Aim(job) # "thisEvent"
  /\ job.at \in {"trim", "insert"} => Aim(job) = "thisAndFollowing"
  /\ job.at = "insert" => "trim" \in Did(m)
  /\ /\ job.from = "pending"
     /\ job.at \in {"read", "trim", "send"} \/ (job.at = "answered" /\ job.answer = "retry")
     => Did(m) = {}

\* What was written for an operation, and what that says of the series.
WritesOK ==
  /\ \A n \in OpIds : n \notin Positions \/ State(n) = "pending" => Did(n) = {}
  /\ \A n \in Positions : Doubtful(n) => Did(n) = Did(Lead(n))
  /\ \A n \in Positions : "trim" \in Did(n) =>
       /\ Kind(n) = "update"
       /\ \A s \in Master(Occ(n)).slots : s < Occ(n)[2]
       /\ Doubtful(n) /\ Lead(n) = n => ops[Last(Group(n))].scope = "thisAndFollowing"
  /\ \A n \in OpIds : google.series[n].there =>
       {"trim", "tail"} \subseteq Did(n) /\ \A s \in google.series[n].slots : s >= Occ(n)[2]

\* Whose values stand at Google.
ValuesOK ==
  /\ \A o \in Occurrences, n \in OpIds : google.own[o].val = n =>
       n \in Positions /\ Occ(n) = o /\ "occurrence" \in Did(n)
  /\ \A r \in SeriesIds, n \in OpIds : google.series[r].val = n =>
       /\ n \in Positions /\ Did(n) \cap {"series", "tail"} # {}
       /\ \/ ops[n].scope = "allEvents" /\ Occ(n)[1] = r
          \/ ops[n].scope = "thisAndFollowing" /\ r \in Of(Occ(n))

\* The split of m has taken the slots from s on, or will have.
Took(m, r, s) ==
  /\ Kind(m) = "update" /\ Occ(m)[1] = r /\ Occ(m)[2] <= s /\ "trim" \in Did(m)
  /\ \/ google.series[m].there
     \/ State(m) # "succeeded" /\ (Doubtful(m) => Lead(m) = m)

\* Every slot a series had at first is its own, or was taken by a split.
CoverOK ==
  \A r \in SeriesIds, s \in Slots :
    google.series[r].there /\ (r = 0 \/ s >= Occ(r)[2]) =>
      s \in google.series[r].slots \/ \E m \in Positions : Took(m, r, s)

\* What a snapshot says of an occurrence that has not changed since the last pull.
SeenOK(o, snap) ==
  snap.etag # 0 /\ Alive(o) /\ EtagOf(o) <= cycle.token =>
    snap.val = ValueOf(o) /\ snap.etag = EtagOf(o)

DoneOK(n) == Touched(n) \/ (Kind(n) = "delete" /\ ~Alive(Occ(n)))

AnswerOK(m, job) ==
  /\ job.answer \in {"ok", "scoped"} =>
       DoneOK(m) /\ ("trim" \in Did(m) => google.series[m].there)
  /\ job.answer = "gone" => ~Alive(Occ(m))
  /\ job.answer \in {"ok", "scoped", "changed"} => SeenOK(Occ(m), job.seen)

JobOK(m, job) == AimOK(m, job) /\ (job.at = "answered" => AnswerOK(m, job))

StepsOK == \A m \in OpIds : Busy(m) => JobOK(m, jobs[m])

OutcomesOK == \A n \in Positions : State(n) = "succeeded" => DoneOK(n)

\* A row whose occurrence is gone for long is that of a conflict.
RowsOK ==
  /\ \A o \in Occurrences : rows[o].here => SeenOK(o, rows[o])
  /\ \A o \in Occurrences : ~Alive(o) /\ EtagOf(o) <= cycle.token =>
       /\ rows[o].here => Stuck(o)
       /\ \A n \in Of(o) : State(n) \in ActiveStates => Stuck(o)

SeriesOK == /\ SeriesTypeOK /\ QueueOK /\ StampsOK /\ GroupsOK /\ JobsOK /\ StepsOK /\ WritesOK
            /\ ValuesOK /\ CoverOK /\ OutcomesOK /\ RowsOK

-----------------------------------------------------------------------------
(* Types.                                                                  *)

\* A nonempty set of numbers up to N has a greatest one.
LEMMA HasGreatest ==
  ASSUME NEW N \in Nat, NEW S \in SUBSET (0 .. N), S # {}
  PROVE  \E n \in S : \A m \in S : m <= n
<1> DEFINE T == {n .. N : n \in S}
<1>1. T \subseteq SUBSET (0 .. N)
  <2>1. ASSUME NEW n \in S PROVE n .. N \in SUBSET (0 .. N)
    <3>1. n \in 0 .. N
      OBVIOUS
    <3> QED
      BY <3>1
  <2> QED
    BY <2>1
<1>2. IsFiniteSet(0 .. N)
  BY FS_Interval
<1>3. FiniteSubsetsOf(0 .. N) = SUBSET (0 .. N)
  BY <1>2, FS_FiniteSubsetsOfFinite
<1>4. IsWellFoundedOn(StrictSubsetOrdering(0 .. N), SUBSET (0 .. N))
  BY <1>3, FS_StrictSubsetOrderingWellFounded
<1>5. T # {}
  OBVIOUS
<1>6. \E x \in T : \A y \in T : ~(<<y, x>> \in StrictSubsetOrdering(0 .. N))
  <2> HIDE DEF T
  <2> QED
    BY <1>1, <1>4, <1>5, WFMin
<1>7. PICK x \in T : \A y \in T : ~(<<y, x>> \in StrictSubsetOrdering(0 .. N))
  BY <1>6
<1>8. PICK n \in S : x = n .. N
  OBVIOUS
<1>9. ASSUME NEW m \in S PROVE m <= n
  <2>1. SUFFICES ASSUME m > n PROVE FALSE
    OBVIOUS
  <2>2. m .. N \in T /\ n \in 0 .. N /\ m \in 0 .. N
    OBVIOUS
  <2>3. m .. N \subseteq n .. N /\ m .. N # n .. N
    BY <2>1, <2>2
  <2>4. <<m .. N, n .. N>> \in StrictSubsetOrdering(0 .. N)
    BY <2>2, <2>3, <1>8, <1>1 DEF StrictSubsetOrdering
  <2> QED
    BY <2>2, <2>4, <1>7, <1>8
<1> QED
  BY <1>9

LEMMA LastIsLast ==
  ASSUME NEW N \in Nat, NEW S \in SUBSET (0 .. N), S # {}
  PROVE  Last(S) \in S /\ \A m \in S : m <= Last(S)
  BY HasGreatest DEF Last

SeriesRecord == [there : BOOLEAN, slots : SUBSET Slots, val : Values, stamp : Nat]
OwnRecord    == [val : Values, stamp : Nat, cut : BOOLEAN]

Typed(g) ==
  g \in [series : [SeriesIds -> SeriesRecord], own : [Occurrences -> OwnRecord], clock : Nat]

LEMMA BoundsTyped ==
  /\ MaxOps \in Nat /\ MaxForeign \in Nat /\ MaxTrouble \in Nat /\ Slots \subseteq Nat
  /\ 0 \in SeriesIds /\ OpIds \subseteq SeriesIds /\ OpIds \subseteq Nat /\ SeriesIds \subseteq Nat
  /\ 0 \notin OpIds /\ \A r \in SeriesIds : r # 0 => r \in OpIds
  /\ 0 \in Values /\ OpIds \subseteq Values /\ Values \subseteq Nat
  /\ \A o : o \in Occurrences <=> o = <<o[1], o[2]>> /\ o[1] \in SeriesIds /\ o[2] \in Slots
  /\ \A r \in SeriesIds, s \in Slots : <<r, s>> \in Occurrences
  BY BoundsAssumption DEF OpIds, SeriesIds, Values, Occurrences

LEMMA GoogleTyped ==
  ASSUME SeriesTypeOK
  PROVE  /\ Typed(google) /\ google.clock \in Nat
         /\ \A r \in SeriesIds :
              /\ google.series[r] \in SeriesRecord
              /\ google.series[r].there \in BOOLEAN /\ google.series[r].slots \subseteq Slots
              /\ google.series[r].val \in Values /\ google.series[r].stamp \in Nat
         /\ \A o \in Occurrences :
              /\ google.own[o] \in OwnRecord
              /\ google.own[o].val \in Values /\ google.own[o].stamp \in Nat
              /\ google.own[o].cut \in BOOLEAN
              /\ o[1] \in SeriesIds /\ o[2] \in Slots /\ o[2] \in Nat
              /\ Master(o) = google.series[o[1]]
              /\ EtagOf(o) \in Nat /\ ValueOf(o) \in Values /\ Remote(o) \in EventRow
<1>1. Typed(google)
  BY DEF SeriesTypeOK, Typed, SeriesRecord, OwnRecord
<1>2. /\ google.clock \in Nat
      /\ \A r \in SeriesIds :
           google.series[r] \in SeriesRecord
      /\ \A o \in Occurrences : google.own[o] \in OwnRecord
  BY <1>1 DEF Typed
<1>3. ASSUME NEW r \in SeriesIds
      PROVE  /\ google.series[r].there \in BOOLEAN /\ google.series[r].slots \subseteq Slots
             /\ google.series[r].val \in Values /\ google.series[r].stamp \in Nat
  BY <1>2 DEF SeriesRecord
<1>4. ASSUME NEW o \in Occurrences
      PROVE  /\ google.own[o].val \in Values /\ google.own[o].stamp \in Nat
             /\ google.own[o].cut \in BOOLEAN
             /\ o[1] \in SeriesIds /\ o[2] \in Slots /\ o[2] \in Nat
             /\ Master(o) = google.series[o[1]]
             /\ EtagOf(o) \in Nat /\ ValueOf(o) \in Values /\ Remote(o) \in EventRow
  <2>1. o[1] \in SeriesIds /\ o[2] \in Slots /\ o[2] \in Nat
    BY BoundsTyped
  <2>2. google.own[o].val \in Values /\ google.own[o].stamp \in Nat /\ google.own[o].cut \in BOOLEAN
    BY <1>2 DEF OwnRecord
  <2>3. EtagOf(o) \in Nat /\ ValueOf(o) \in Values
    BY <1>3, <2>1, <2>2 DEF EtagOf, ValueOf, Master
  <2> QED
    BY <2>1, <2>2, <2>3 DEF Remote, EventRow, Master
<1> QED
  BY <1>1, <1>2, <1>3, <1>4

LEMMA SeriesOpsTyped ==
  ASSUME SeriesTypeOK
  PROVE  /\ ops \in Seq(Op) /\ Len(ops) \in Nat /\ Len(ops) <= MaxOps
         /\ Positions = 1 .. Len(ops) /\ DOMAIN ops = Positions
         /\ Positions \subseteq OpIds /\ Positions \subseteq Nat
         /\ \A n \in Positions :
              /\ ops[n] \in Op /\ Occ(n) = ops[n].occ /\ Kind(n) = ops[n].kind
              /\ Occ(n) \in Occurrences /\ Kind(n) \in {"update", "delete"} /\ ops[n].scope \in Scopes
              /\ State(n) \in ActiveStates \cup {"succeeded"} /\ Lead(n) \in SeriesIds
              /\ ops[n].etag \in Nat
              /\ Occ(n)[1] \in SeriesIds /\ Occ(n)[2] \in Slots /\ Occ(n)[2] \in Nat
         /\ \A o : Of(o) \subseteq Positions /\ \A n : n \in Of(o) <=> n \in Positions /\ Occ(n) = o
<1>1. ops \in Seq(Op) /\ Len(ops) <= MaxOps
  BY DEF SeriesTypeOK
<1>2. Len(ops) \in Nat /\ DOMAIN ops = 1 .. Len(ops) /\ \A n \in 1 .. Len(ops) : ops[n] \in Op
  BY <1>1
<1>3. Positions \subseteq OpIds /\ Positions \subseteq Nat
  BY <1>1, <1>2, BoundsTyped DEF Positions, OpIds
<1>4. ASSUME NEW n \in Positions
      PROVE  /\ ops[n] \in Op /\ Occ(n) \in Occurrences /\ Kind(n) \in {"update", "delete"}
             /\ ops[n].scope \in Scopes
             /\ State(n) \in ActiveStates \cup {"succeeded"} /\ Lead(n) \in SeriesIds
             /\ ops[n].etag \in Nat
             /\ Occ(n)[1] \in SeriesIds /\ Occ(n)[2] \in Slots /\ Occ(n)[2] \in Nat
  <2>1. ops[n] \in Op
    BY <1>2 DEF Positions
  <2>2. /\ Occ(n) \in Occurrences /\ Kind(n) \in {"update", "delete"} /\ ops[n].scope \in Scopes
        /\ State(n) \in ActiveStates \cup {"succeeded"} /\ Lead(n) \in SeriesIds
        /\ ops[n].etag \in Nat
    BY <2>1 DEF Op, Occ, Kind, State, Lead
  <2> QED
    BY <2>1, <2>2, BoundsTyped
<1> QED
  BY <1>1, <1>2, <1>3, <1>4 DEF Positions, Of, Occ, Kind

LEMMA RestTyped ==
  ASSUME SeriesTypeOK
  PROVE  /\ rows \in [Occurrences -> EventRow]
         /\ \A o \in Occurrences : /\ rows[o] \in EventRow /\ rows[o].here \in BOOLEAN
                                   /\ rows[o].etag \in Nat /\ rows[o].val \in Values
                                   /\ rows[o].member \in BOOLEAN
         /\ jobs \in [OpIds -> Job]
         /\ \A m \in OpIds :
              /\ jobs[m] \in Job /\ jobs[m].member \in BOOLEAN /\ jobs[m].seen \in EventRow
              /\ jobs[m].from \in {"pending", "ambiguous"} /\ jobs[m].members \in SUBSET OpIds
              /\ jobs[m].at \in {"none", "look", "read", "trim", "insert", "send", "unsure", "answered"}
              /\ jobs[m].answer \in {"none", "ok", "scoped", "conflict", "changed", "gone", "invalid",
                                     "retry"}
         /\ cycle \in [at : {"idle", "open"}, token : Nat]
         /\ cycle.at \in {"idle", "open"} /\ cycle.token \in Nat
         /\ history \in [wrote : [OpIds -> SUBSET {"occurrence", "series", "trim", "tail"}],
                         foreign : 0 .. MaxForeign]
         /\ \A n \in OpIds : Did(n) \in SUBSET {"occurrence", "series", "trim", "tail"}
         /\ history.foreign \in 0 .. MaxForeign
         /\ trouble \in 0 .. MaxTrouble
<1>1. \A o \in Occurrences : /\ rows[o] \in EventRow /\ rows[o].here \in BOOLEAN
                                   /\ rows[o].etag \in Nat /\ rows[o].val \in Values
                                   /\ rows[o].member \in BOOLEAN
  BY DEF SeriesTypeOK, EventRow
<1>2. ASSUME NEW m \in OpIds
      PROVE   /\ jobs[m] \in Job /\ jobs[m].member \in BOOLEAN /\ jobs[m].seen \in EventRow
              /\ jobs[m].from \in {"pending", "ambiguous"} /\ jobs[m].members \in SUBSET OpIds
              /\ jobs[m].at \in {"none", "look", "read", "trim", "insert", "send", "unsure", "answered"}
              /\ jobs[m].answer \in {"none", "ok", "scoped", "conflict", "changed", "gone", "invalid",
                                     "retry"}
  BY DEF SeriesTypeOK, Job
<1>3. \A n \in OpIds : Did(n) \in SUBSET {"occurrence", "series", "trim", "tail"}
  BY DEF SeriesTypeOK, Did
<1> QED
  BY <1>1, <1>2, <1>3 DEF SeriesTypeOK

-----------------------------------------------------------------------------
(* The calendar at Google.  Whatever is written, what is gone stays gone,  *)
(* and what changes has a later etag than anything seen before.            *)

Grows ==
  /\ Typed(google') /\ google'.clock = google.clock + 1
  /\ \A r \in SeriesIds : google'.series[r].stamp <= google'.clock
  /\ \A o \in Occurrences : google'.own[o].stamp <= google'.clock
  /\ \A r \in SeriesIds : google.series[r].there =>
       google'.series[r].there /\ google'.series[r].slots \subseteq google.series[r].slots
  /\ \A o \in Occurrences : Master(o).there /\ ~Alive(o) => ~Alive(o)'
  /\ \A o \in Occurrences :
       \/ EtagOf(o)' = google.clock + 1
       \/ EtagOf(o)' = EtagOf(o) /\ ValueOf(o)' = ValueOf(o) /\ (Alive(o)' <=> Alive(o))

LEMMA GrowsBy ==
  ASSUME SeriesTypeOK, StampsOK, Typed(google'), google'.clock = google.clock + 1,
         \A r \in SeriesIds :
           \/ google'.series[r] = google.series[r]
           \/ /\ google'.series[r].stamp = google'.clock
              /\ google.series[r].there =>
                   google'.series[r].there /\ google'.series[r].slots \subseteq google.series[r].slots,
         \A o \in Occurrences :
           \/ google'.own[o] = google.own[o]
           \/ /\ google'.own[o].stamp = google'.clock
              /\ google.own[o].cut => google'.own[o].cut
  PROVE  Grows
<1>1. google.clock \in Nat /\ google'.clock \in Nat
  BY GoogleTyped DEF Typed
<1>2. \A r \in SeriesIds : google'.series[r].stamp <= google'.clock
  BY <1>1, GoogleTyped DEF StampsOK
<1>3. \A o \in Occurrences : google'.own[o].stamp <= google'.clock
  BY <1>1, GoogleTyped DEF StampsOK
<1>4. \A r \in SeriesIds : google.series[r].there =>
        google'.series[r].there /\ google'.series[r].slots \subseteq google.series[r].slots
  OBVIOUS
<1>5. ASSUME NEW o \in Occurrences
      PROVE  /\ Master(o).there /\ ~Alive(o) => ~Alive(o)'
             /\ \/ EtagOf(o)' = google.clock + 1
                \/ EtagOf(o)' = EtagOf(o) /\ ValueOf(o)' = ValueOf(o) /\ (Alive(o)' <=> Alive(o))
  <2>1. o[1] \in SeriesIds
    BY BoundsTyped
  <2>2. Master(o).there /\ ~Alive(o) => ~Alive(o)'
    BY <2>1 DEF Alive, Master
  <2>3. google'.series[o[1]].stamp \in Nat /\ google'.own[o].stamp \in Nat
    BY <2>1 DEF Typed, SeriesRecord, OwnRecord
  <2>4. google'.series[o[1]].stamp <= google.clock + 1 /\ google'.own[o].stamp <= google.clock + 1
    BY <1>2, <1>3, <2>1
  <2>5. CASE google'.series[o[1]].stamp = google.clock + 1 \/ google'.own[o].stamp = google.clock + 1
    <3>1. EtagOf(o)' = IF google'.own[o].stamp > google'.series[o[1]].stamp THEN google'.own[o].stamp
                       ELSE google'.series[o[1]].stamp
      BY DEF EtagOf, Master
    <3>2. EtagOf(o)' = google.clock + 1
      BY <1>1, <2>3, <2>4, <2>5, <3>1
    <3> QED
      BY <3>2, <2>2
  <2>6. CASE google'.series[o[1]] = google.series[o[1]] /\ google'.own[o] = google.own[o]
    BY <2>2, <2>6 DEF EtagOf, ValueOf, Alive, Master
  <2> QED
    BY <2>1, <2>5, <2>6
<1> QED
  BY <1>2, <1>3, <1>4, <1>5 DEF Grows

LEMMA TypedWith ==
  ASSUME NEW g, Typed(g), NEW c \in Nat, NEW S \in [SeriesIds -> SeriesRecord],
         NEW O \in [Occurrences -> OwnRecord]
  PROVE  Typed([g EXCEPT !.clock = c, !.series = S]) /\ Typed([g EXCEPT !.clock = c, !.own = O])
  BY DEF Typed

\* One series is written, or one occurrence of its own.
LEMMA SeriesWritten ==
  ASSUME SeriesTypeOK, StampsOK, NEW r \in SeriesIds, NEW x \in SeriesRecord, x.stamp = google.clock + 1,
         google.series[r].there => x.there /\ x.slots \subseteq google.series[r].slots,
         google' = [google EXCEPT !.clock = google.clock + 1, !.series = [google.series EXCEPT ![r] = x]]
  PROVE  /\ Grows /\ google'.own = google.own /\ google'.series[r] = x
         /\ \A q \in SeriesIds : q # r => google'.series[q] = google.series[q]
<1>1. google.clock \in Nat /\ google.clock + 1 \in Nat /\ Typed(google)
  BY GoogleTyped
<1>2. google.series \in [SeriesIds -> SeriesRecord] /\ google.own \in [Occurrences -> OwnRecord]
  BY <1>1 DEF Typed
<1> DEFINE S == [google.series EXCEPT ![r] = x]
<1>3. S \in [SeriesIds -> SeriesRecord] /\ S[r] = x /\ \A q \in SeriesIds : q # r => S[q] = google.series[q]
  BY <1>2
<1>4. google' = [google EXCEPT !.clock = google.clock + 1, !.series = S]
  OBVIOUS
<1> HIDE DEF S
<1>5. Typed([google EXCEPT !.clock = google.clock + 1, !.series = S])
  BY <1>1, <1>2, <1>3, TypedWith
<1>6. Typed(google')
  BY <1>4, <1>5
<1>7. google'.clock = google.clock + 1 /\ google'.own = google.own /\ google'.series = S
  BY <1>1, <1>4 DEF Typed
<1>8. Grows
  BY <1>3, <1>6, <1>7, GrowsBy
<1> QED
  BY <1>3, <1>7, <1>8

LEMMA OccurrenceWritten ==
  ASSUME SeriesTypeOK, StampsOK, NEW o \in Occurrences, NEW x \in OwnRecord, x.stamp = google.clock + 1,
         google.own[o].cut => x.cut,
         google' = [google EXCEPT !.clock = google.clock + 1, !.own = [google.own EXCEPT ![o] = x]]
  PROVE  /\ Grows /\ google'.series = google.series /\ google'.own[o] = x
         /\ \A q \in Occurrences : q # o => google'.own[q] = google.own[q]
<1>1. google.clock \in Nat /\ google.clock + 1 \in Nat /\ Typed(google)
  BY GoogleTyped
<1>2. google.series \in [SeriesIds -> SeriesRecord] /\ google.own \in [Occurrences -> OwnRecord]
  BY <1>1 DEF Typed
<1> DEFINE S == [google.own EXCEPT ![o] = x]
<1>3. S \in [Occurrences -> OwnRecord] /\ S[o] = x /\ \A q \in Occurrences : q # o => S[q] = google.own[q]
  BY <1>2
<1>4. google' = [google EXCEPT !.clock = google.clock + 1, !.own = S]
  OBVIOUS
<1> HIDE DEF S
<1>5. Typed([google EXCEPT !.clock = google.clock + 1, !.own = S])
  BY <1>1, <1>2, <1>3, TypedWith
<1>6. Typed(google')
  BY <1>4, <1>5
<1>7. google'.clock = google.clock + 1 /\ google'.series = google.series /\ google'.own = S
  BY <1>1, <1>4 DEF Typed
<1>8. Grows
  BY <1>3, <1>6, <1>7, GrowsBy
<1> QED
  BY <1>3, <1>7, <1>8

LEMMA WriteSeriesGrows ==
  ASSUME SeriesTypeOK, StampsOK, NEW r \in SeriesIds, NEW v \in Values, WriteSeries(r, v)
  PROVE  /\ Grows /\ google'.own = google.own
         /\ \A q \in SeriesIds : /\ (google'.series[q].there <=> google.series[q].there)
                                 /\ google'.series[q].slots = google.series[q].slots
                                 /\ google'.series[q].val = IF q = r THEN v ELSE google.series[q].val
<1>1. google.clock + 1 \in Nat /\ google.series[r] \in SeriesRecord /\ {} \in SUBSET Slots
  BY GoogleTyped
<1> DEFINE x == [google.series[r] EXCEPT !.val = v, !.stamp = google.clock + 1]
<1>2. /\ x \in SeriesRecord /\ x.val = v /\ x.stamp = google.clock + 1 /\ x.slots = google.series[r].slots
      /\ x.there <=> google.series[r].there
  BY <1>1 DEF SeriesRecord
<1>3. google' = [google EXCEPT !.clock = google.clock + 1, !.series = [google.series EXCEPT ![r] = x]]
  <2>1. Typed(google)
    BY GoogleTyped
  <2>2. google' = [google EXCEPT !.clock = google.clock + 1, !.series = [google.series EXCEPT ![r] = x]]
    BY <2>1 DEF WriteSeries, Tick, Typed
  <2> QED
    BY <2>2
<1> HIDE DEF x
<1>5. /\ Grows /\ google'.own = google.own /\ google'.series[r] = x
      /\ \A q \in SeriesIds : q # r => google'.series[q] = google.series[q]
  BY <1>2, <1>3, SeriesWritten
<1> QED
  BY <1>2, <1>5

LEMMA TrimmedGrows ==
  ASSUME SeriesTypeOK, StampsOK, NEW r \in SeriesIds, NEW slot \in Nat, Trimmed(r, slot)
  PROVE  /\ Grows /\ google'.own = google.own
         /\ google'.series[r].slots = {s \in google.series[r].slots : s < slot}
         /\ \A q \in SeriesIds : /\ (google'.series[q].there <=> google.series[q].there)
                                 /\ q # r => google'.series[q].slots = google.series[q].slots
                                 /\ google'.series[q].slots \subseteq google.series[q].slots
                                 /\ google'.series[q].val = google.series[q].val
<1> DEFINE L == {s \in google.series[r].slots : s < slot}
<1>1. google.clock + 1 \in Nat /\ google.series[r] \in SeriesRecord /\ L \in SUBSET Slots
      /\ google.series[r].val \in Values /\ L \subseteq google.series[r].slots
  BY GoogleTyped
<1>0. google' = [google EXCEPT !.clock = google.clock + 1, !.series[r].stamp = google.clock + 1,
                               !.series[r].slots = {s \in @ : s < slot}]
  BY DEF Trimmed, Tick
<1>01. google' = [google EXCEPT !.clock = google.clock + 1, !.series[r].stamp = google.clock + 1,
                                !.series[r].slots = L]
  <2>1. Typed(google)
    BY GoogleTyped
  <2> QED
    BY <1>0, <2>1 DEF Typed
<1> HIDE DEF L
<1> DEFINE x == [google.series[r] EXCEPT !.stamp = google.clock + 1, !.slots = L]
<1>2. /\ x \in SeriesRecord /\ x.val = google.series[r].val /\ x.stamp = google.clock + 1 /\ x.slots = L
      /\ x.there <=> google.series[r].there
  BY <1>1 DEF SeriesRecord
<1>3. google' = [google EXCEPT !.clock = google.clock + 1, !.series = [google.series EXCEPT ![r] = x]]
  <2>1. Typed(google)
    BY GoogleTyped
  <2>2. google' = [google EXCEPT !.clock = google.clock + 1, !.series = [google.series EXCEPT ![r] = x]]
    BY <1>01, <2>1 DEF Typed
  <2> QED
    BY <2>2
<1>4. (x.there <=> google.series[r].there) /\ x.slots = L /\ x.val = google.series[r].val
      /\ x.stamp = google.clock + 1
  OBVIOUS
<1> HIDE DEF x
<1>5. /\ Grows /\ google'.own = google.own /\ google'.series[r] = x
      /\ \A q \in SeriesIds : q # r => google'.series[q] = google.series[q]
  BY <1>1, <1>2, <1>3, SeriesWritten
<1> QED
  BY <1>1, <1>2, <1>5 DEF L

LEMMA InsertedGrows ==
  ASSUME SeriesTypeOK, StampsOK, NEW r \in SeriesIds, NEW slot \in Nat, NEW v \in Values,
         ~google.series[r].there, Inserted(r, slot, v)
  PROVE  /\ Grows /\ google'.own = google.own
         /\ google'.series[r].there /\ google'.series[r].slots = {s \in Slots : s >= slot}
         /\ google'.series[r].val = v
         /\ \A q \in SeriesIds : q # r => google'.series[q] = google.series[q]
<1> DEFINE L == {s \in Slots : s >= slot}
<1>1. google.clock + 1 \in Nat /\ google.series[r] \in SeriesRecord /\ L \in SUBSET Slots
  BY GoogleTyped
<1> DEFINE x == [there |-> TRUE, slots |-> L, val |-> v, stamp |-> google.clock + 1]
<1>3. google' = [google EXCEPT !.clock = google.clock + 1, !.series = [google.series EXCEPT ![r] = x]]
  <2>1. Typed(google)
    BY GoogleTyped
  <2>2. google' = [google EXCEPT !.clock = google.clock + 1, !.series[r] = x]
    BY DEF Inserted, Tick
  <2> HIDE DEF x
  <2> QED
    BY <2>1, <2>2 DEF Typed
<1> HIDE DEF L
<1>2. x \in SeriesRecord
  BY <1>1 DEF SeriesRecord
<1>4. x.there /\ x.slots = L /\ x.val = v /\ x.stamp = google.clock + 1
  OBVIOUS
<1> HIDE DEF x
<1>5. /\ Grows /\ google'.own = google.own /\ google'.series[r] = x
      /\ \A q \in SeriesIds : q # r => google'.series[q] = google.series[q]
  BY <1>1, <1>2, <1>3, <1>4, SeriesWritten
<1> QED
  BY <1>4, <1>5 DEF L

LEMMA WriteOccurrenceGrows ==
  ASSUME SeriesTypeOK, StampsOK, NEW o \in Occurrences, NEW v \in Values, WriteOccurrence(o, v)
  PROVE  /\ Grows /\ google'.series = google.series /\ google'.own[o].stamp = google.clock + 1
         /\ \A q \in Occurrences : /\ (google'.own[q].cut <=> google.own[q].cut)
                                   /\ google'.own[q].val = IF q = o THEN v ELSE google.own[q].val
<1>1. google.clock + 1 \in Nat /\ google.own[o] \in OwnRecord
  BY GoogleTyped
<1> DEFINE x == [google.own[o] EXCEPT !.val = v, !.stamp = google.clock + 1]
<1>2. /\ x \in OwnRecord /\ x.val = v /\ x.stamp = google.clock + 1
      /\ x.cut <=> google.own[o].cut
  BY <1>1 DEF OwnRecord
<1>3. google' = [google EXCEPT !.clock = google.clock + 1, !.own = [google.own EXCEPT ![o] = x]]
  <2>1. Typed(google)
    BY GoogleTyped
  <2>2. google' = [google EXCEPT !.clock = google.clock + 1, !.own = [google.own EXCEPT ![o] = x]]
    BY <2>1 DEF WriteOccurrence, Tick, Typed
  <2> QED
    BY <2>2
<1> HIDE DEF x
<1>5. /\ Grows /\ google'.series = google.series /\ google'.own[o] = x
      /\ \A q \in Occurrences : q # o => google'.own[q] = google.own[q]
  BY <1>2, <1>3, OccurrenceWritten
<1> QED
  BY <1>2, <1>5

LEMMA CutOccurrenceGrows ==
  ASSUME SeriesTypeOK, StampsOK, NEW o \in Occurrences, CutOccurrence(o)
  PROVE  /\ Grows /\ google'.series = google.series /\ google'.own[o].cut
         /\ \A q \in Occurrences : /\ google.own[q].cut => google'.own[q].cut
                                   /\ google'.own[q].val = google.own[q].val
<1>1. google.clock + 1 \in Nat /\ google.own[o] \in OwnRecord /\ google.own[o].val \in Values
  BY GoogleTyped
<1> DEFINE x == [google.own[o] EXCEPT !.cut = TRUE, !.stamp = google.clock + 1]
<1>2. /\ x \in OwnRecord /\ x.val = google.own[o].val /\ x.stamp = google.clock + 1
      /\ x.cut
  BY <1>1 DEF OwnRecord
<1>3. google' = [google EXCEPT !.clock = google.clock + 1, !.own = [google.own EXCEPT ![o] = x]]
  <2>1. Typed(google)
    BY GoogleTyped
  <2>2. google' = [google EXCEPT !.clock = google.clock + 1, !.own = [google.own EXCEPT ![o] = x]]
    BY <2>1 DEF CutOccurrence, Tick, Typed
  <2> QED
    BY <2>2
<1> HIDE DEF x
<1>5. /\ Grows /\ google'.series = google.series /\ google'.own[o] = x
      /\ \A q \in Occurrences : q # o => google'.own[q] = google.own[q]
  BY <1>2, <1>3, OccurrenceWritten
<1> QED
  BY <1>2, <1>5

-----------------------------------------------------------------------------
(* What a write leaves as it was.                                          *)

StillThere == UNCHANGED <<rows, ops, cycle>> /\ \A k \in OpIds : Did(k) \subseteq Did(k)'

LEMMA SameQueue ==
  ASSUME ops' = ops
  PROVE  /\ Positions' = Positions
         /\ \A n : /\ Occ(n)' = Occ(n) /\ Kind(n)' = Kind(n) /\ State(n)' = State(n)
                   /\ Lead(n)' = Lead(n) /\ (Doubtful(n)' <=> Doubtful(n)) /\ (Lost(n)' <=> Lost(n))
                   /\ Group(n)' = Group(n)
         /\ \A o : Of(o)' = Of(o) /\ (Stuck(o)' <=> Stuck(o))
         /\ \A job : Aim(job)' = Aim(job)
<1>1. /\ Positions' = Positions
      /\ \A n : /\ Occ(n)' = Occ(n) /\ Kind(n)' = Kind(n) /\ State(n)' = State(n)
                /\ Lead(n)' = Lead(n) /\ (Doubtful(n)' <=> Doubtful(n)) /\ (Lost(n)' <=> Lost(n))
  BY DEF Positions, Occ, Kind, State, Lead, Doubtful, Lost
<1>2. ASSUME NEW n PROVE Group(n)' = Group(n)
  BY <1>1 DEF Group
<1>3. ASSUME NEW o PROVE Of(o)' = Of(o) /\ (Stuck(o)' <=> Stuck(o))
  BY <1>1 DEF Of, Stuck
<1>4. ASSUME NEW job PROVE Aim(job)' = Aim(job)
  BY DEF Aim
<1> QED
  BY <1>1, <1>2, <1>3, <1>4

LEMMA GrowsSeen ==
  ASSUME SeriesTypeOK, StampsOK, Grows, cycle' = cycle, NEW o \in Occurrences, NEW snap, SeenOK(o, snap)
  PROVE  SeenOK(o, snap)'
<1>1. google.clock \in Nat /\ cycle.token \in Nat /\ cycle.token <= google.clock /\ EtagOf(o) \in Nat
  BY GoogleTyped, RestTyped DEF StampsOK
<1>2. \/ EtagOf(o)' = google.clock + 1
      \/ EtagOf(o)' = EtagOf(o) /\ ValueOf(o)' = ValueOf(o) /\ (Alive(o)' <=> Alive(o))
  BY DEF Grows
<1> QED
  BY <1>1, <1>2 DEF SeenOK

LEMMA GrowsStamps ==
  ASSUME SeriesTypeOK, StampsOK, Grows, cycle' = cycle
  PROVE  StampsOK'
<1>1. google.clock \in Nat /\ cycle.token \in Nat /\ google'.clock = google.clock + 1
  BY GoogleTyped, RestTyped DEF Grows
<1> QED
  BY <1>1 DEF StampsOK, Grows

LEMMA GrowsRows ==
  ASSUME SeriesTypeOK, StampsOK, RowsOK, Grows, StillThere
  PROVE  RowsOK'
<1>1. rows' = rows /\ ops' = ops /\ cycle' = cycle
  BY DEF StillThere
<1>2. ASSUME NEW o \in Occurrences, rows'[o].here PROVE SeenOK(o, rows[o])'
  <2>1. SeenOK(o, rows[o])
    BY <1>1, <1>2 DEF RowsOK
  <2>2. PICK snap : snap = rows[o]
    OBVIOUS
  <2>3. SeenOK(o, snap)'
    BY <1>1, <2>1, <2>2, GrowsSeen
  <2>4. SeenOK(o, snap)' => SeenOK(o, rows[o])'
    BY <1>1, <2>2 DEF SeenOK
  <2> QED
    BY <2>3, <2>4
<1>3. ASSUME NEW o \in Occurrences, ~Alive(o)', EtagOf(o)' <= cycle'.token
      PROVE  /\ rows'[o].here => Stuck(o)'
             /\ \A n \in Of(o)' : State(n)' \in ActiveStates => Stuck(o)'
  <2>1. google.clock \in Nat /\ cycle.token \in Nat /\ cycle.token <= google.clock
    BY GoogleTyped, RestTyped DEF StampsOK
  <2>2. EtagOf(o)' = EtagOf(o) /\ ~Alive(o)
    BY <1>1, <1>3, <2>1 DEF Grows
  <2>3. /\ rows[o].here => Stuck(o)
        /\ \A n \in Of(o) : State(n) \in ActiveStates => Stuck(o)
    BY <1>1, <1>3, <2>2 DEF RowsOK
  <2> QED
    BY <1>1, <2>3, SameQueue
<1> QED
  BY <1>2, <1>3 DEF RowsOK

LEMMA GrowsDone ==
  ASSUME SeriesTypeOK, QueueOK, Grows, StillThere, NEW n \in Positions, DoneOK(n)
  PROVE  DoneOK(n)'
<1>1. Occ(n)' = Occ(n) /\ Kind(n)' = Kind(n) /\ Occ(n) \in Occurrences /\ n \in OpIds
  BY SameQueue, SeriesOpsTyped DEF StillThere
<1>2. Touched(n) => Touched(n)'
  BY <1>1 DEF StillThere, Touched, Did
<1>3. Master(Occ(n)).there
  BY DEF QueueOK, Master
<1>4. PICK o \in Occurrences : o = Occ(n)
  BY <1>1
<1>5. ~Alive(o) => ~Alive(o)'
  BY <1>3, <1>4 DEF Grows
<1> QED
  BY <1>1, <1>2, <1>4, <1>5 DEF DoneOK

LEMMA GrowsOutcomes ==
  ASSUME SeriesTypeOK, QueueOK, OutcomesOK, Grows, StillThere
  PROVE  OutcomesOK'
<1>1. Positions' = Positions /\ \A n : State(n)' = State(n)
  BY SameQueue DEF StillThere
<1>2. ASSUME NEW n \in Positions, State(n) = "succeeded" PROVE DoneOK(n)'
  BY <1>2, GrowsDone DEF OutcomesOK
<1> QED
  BY <1>1, <1>2 DEF OutcomesOK

LEMMA GrowsJob ==
  ASSUME SeriesTypeOK, QueueOK, StampsOK, Grows, StillThere, NEW m \in Positions, NEW job, JobOK(m, job),
         Did(m)' = Did(m)
  PROVE  JobOK(m, job)'
<1>1. Occ(m)' = Occ(m) /\ Kind(m)' = Kind(m) /\ Occ(m) \in Occurrences /\ Aim(job)' = Aim(job)
  BY SameQueue, SeriesOpsTyped DEF StillThere
<1>2. AimOK(m, job)'
  BY <1>1 DEF AimOK, JobOK
<1>3. ASSUME job.at = "answered" PROVE AnswerOK(m, job)'
  <2>1. AnswerOK(m, job)
    BY <1>3 DEF JobOK
  <2>2. DoneOK(m) => DoneOK(m)'
    BY GrowsDone
  <2>3. google.series[m].there => google'.series[m].there
    BY SeriesOpsTyped, BoundsTyped DEF Grows
  <2>4. PICK o \in Occurrences : o = Occ(m)
    BY <1>1
  <2>5. ~Alive(o) => ~Alive(o)'
    BY <2>4 DEF Grows, QueueOK, Master
  <2>6. PICK snap : snap = job.seen
    OBVIOUS
  <2>7. SeenOK(o, snap) => SeenOK(o, snap)'
    BY GrowsSeen DEF StillThere
  <2> QED
    BY <1>1, <2>1, <2>2, <2>3, <2>4, <2>5, <2>6, <2>7 DEF AnswerOK
<1> QED
  BY <1>2, <1>3 DEF JobOK

LEMMA GrowsQueue ==
  ASSUME SeriesTypeOK, QueueOK, Grows, StillThere,
         \A r \in SeriesIds : google'.series[r].there /\ r # 0 => r \in Positions
  PROVE  QueueOK'
<1>1. rows' = rows /\ ops' = ops
  BY DEF StillThere
<1>2. google'.series[0].there
  BY BoundsTyped DEF QueueOK, Grows
<1>3. Positions' = Positions /\ \A n : /\ Occ(n)' = Occ(n) /\ Kind(n)' = Kind(n) /\ State(n)' = State(n)
                                       /\ (Lost(n)' <=> Lost(n))
  BY <1>1, SameQueue
<1>4. \A o : Of(o)' = Of(o)
  BY <1>1, SameQueue
<1>5. \A n \in Positions : Occ(n)[1] < n /\ google'.series[Occ(n)[1]].there
  BY SeriesOpsTyped DEF QueueOK, Grows
<1>6. \A o \in Occurrences : rows[o].here => google'.series[o[1]].there
  BY BoundsTyped DEF QueueOK, Grows, Master
<1>7. \A n \in Positions : Kind(n) = "delete" /\ State(n) \in ActiveStates =>
        ~rows[Occ(n)].here /\ \A k \in Of(Occ(n)) : k <= n
  BY DEF QueueOK
<1>8. \A n \in Positions : Lost(n) => \A k \in Of(Occ(n)) : k < n => State(k) = "succeeded" \/ Lost(k)
  BY DEF QueueOK
<1>9. (\A n \in Positions : Kind(n) = "delete" /\ State(n) \in ActiveStates =>
         ~rows[Occ(n)].here /\ \A k \in Of(Occ(n)) : k <= n)'
  BY <1>1, <1>3, <1>4, <1>7
<1>10. (\A n \in Positions : Lost(n) => \A k \in Of(Occ(n)) : k < n => State(k) = "succeeded" \/ Lost(k))'
  BY <1>3, <1>4, <1>8
<1> QED
  BY <1>1, <1>2, <1>3, <1>5, <1>6, <1>9, <1>10 DEF QueueOK, Master

LEMMA SameGroups ==
  ASSUME ops' = ops, GroupsOK
  PROVE  GroupsOK'
<1>1. /\ Positions' = Positions /\ \A o : Of(o)' = Of(o)
      /\ \A n : /\ Occ(n)' = Occ(n) /\ Kind(n)' = Kind(n) /\ State(n)' = State(n)
                /\ Lead(n)' = Lead(n) /\ (Doubtful(n)' <=> Doubtful(n))
  BY SameQueue
<1> QED
  BY <1>1 DEF GroupsOK

LEMMA SameJobs ==
  ASSUME ops' = ops, cycle' = cycle, JobsOK,
         \A m \in OpIds : (Busy(m)' <=> Busy(m)) /\ jobs'[m].members = jobs[m].members
  PROVE  JobsOK'
<1>1. /\ Positions' = Positions
      /\ \A n : State(n)' = State(n) /\ Lead(n)' = Lead(n) /\ Group(n)' = Group(n)
  BY SameQueue
<1>2. cycle'.at = "open" => \A m \in OpIds : ~Busy(m)'
  BY DEF JobsOK
<1>3. \A n \in Positions, m \in OpIds : State(n) = "syncing" /\ Lead(n) = m => Busy(m)'
  BY DEF JobsOK
<1>4. \A m \in OpIds : Busy(m)' =>
        m \in Positions /\ State(m) = "syncing" /\ Lead(m) = m /\ jobs'[m].members = Group(m)
  BY DEF JobsOK
<1> QED
  BY <1>1, <1>2, <1>3, <1>4 DEF JobsOK

-----------------------------------------------------------------------------
(* Other clients.                                                          *)

LEMMA ForeignKeeps ==
  ASSUME SeriesOK, Grows, UNCHANGED <<rows, ops, jobs, cycle, trouble>>, history'.wrote = history.wrote,
         history' \in [wrote : [OpIds -> SUBSET {"occurrence", "series", "trim", "tail"}],
                       foreign : 0 .. MaxForeign],
         \A r \in SeriesIds : /\ google'.series[r].there <=> google.series[r].there
                              /\ google'.series[r].slots = google.series[r].slots
                              /\ google'.series[r].val = google.series[r].val \/ google'.series[r].val \notin OpIds,
         \A o \in Occurrences : google'.own[o].val = google.own[o].val \/ google'.own[o].val \notin OpIds
  PROVE  SeriesOK'
<1>1. SeriesTypeOK'
  BY DEF SeriesOK, SeriesTypeOK, Grows, Typed, SeriesRecord, OwnRecord
<1>2. StillThere /\ \A n : Did(n)' = Did(n)
  BY DEF StillThere, Did
<1>3. /\ Positions' = Positions
      /\ \A n : /\ Occ(n)' = Occ(n) /\ Kind(n)' = Kind(n) /\ State(n)' = State(n)
                /\ Lead(n)' = Lead(n) /\ (Doubtful(n)' <=> Doubtful(n)) /\ Group(n)' = Group(n)
      /\ \A o : Of(o)' = Of(o)
  BY SameQueue
<1>4. QueueOK'
  BY GrowsQueue, <1>2 DEF SeriesOK, QueueOK
<1>5. StampsOK' /\ GroupsOK' /\ RowsOK' /\ OutcomesOK'
  BY GrowsStamps, SameGroups, GrowsRows, GrowsOutcomes, <1>2 DEF SeriesOK
<1>6. JobsOK'
  BY SameJobs DEF SeriesOK, Busy
<1>7. StepsOK'
  <2> SUFFICES ASSUME NEW m \in OpIds, Busy(m)' PROVE JobOK(m, jobs[m])'
    BY DEF StepsOK
  <2>1. Busy(m) /\ m \in Positions /\ JobOK(m, jobs[m])
    BY DEF SeriesOK, StepsOK, JobsOK, Busy
  <2>2. PICK job : job = jobs[m]
    OBVIOUS
  <2>3. JobOK(m, job)'
    BY <1>2, <2>1, <2>2, GrowsJob DEF SeriesOK
  <2>4. jobs'[m] = job
    BY <2>2
  <2> QED
    BY <2>3, <2>4
<1>8. WritesOK'
  <2>1. \A n \in OpIds : n \notin Positions \/ State(n) = "pending" => Did(n) = {}
    BY DEF SeriesOK, WritesOK
  <2>2. \A n \in Positions : Doubtful(n) => history.wrote[n] = history.wrote[Lead(n)]
    BY DEF SeriesOK, WritesOK, Did
  <2>3. \A n \in Positions : "trim" \in Did(n) =>
          /\ Kind(n) = "update"
          /\ \A s \in google'.series[Occ(n)[1]].slots : s < Occ(n)[2]
          /\ Doubtful(n) /\ Lead(n) = n => ops[Last(Group(n))].scope = "thisAndFollowing"
    BY SeriesOpsTyped DEF SeriesOK, WritesOK, Master
  <2>4. \A n \in OpIds : google'.series[n].there =>
          {"trim", "tail"} \subseteq Did(n) /\ \A s \in google'.series[n].slots : s >= Occ(n)[2]
    BY BoundsTyped DEF SeriesOK, WritesOK
  <2>5. (\A n \in Positions : Doubtful(n) => Did(n) = Did(Lead(n)))'
    BY <1>3, <2>2 DEF Did
  <2> QED
    BY <1>2, <1>3, <2>1, <2>3, <2>4, <2>5 DEF WritesOK, Master
<1>9. ValuesOK'
  BY <1>2, <1>3 DEF SeriesOK, ValuesOK
<1>10. CoverOK'
  <2>1. ASSUME NEW m \in Positions, NEW r, NEW s, Took(m, r, s) PROVE Took(m, r, s)'
    <3>1. google.series[m].there => google'.series[m].there
      BY SeriesOpsTyped, BoundsTyped DEF SeriesOK
    <3>2. Occ(m)' = Occ(m) /\ Kind(m)' = Kind(m) /\ Did(m)' = Did(m) /\ State(m)' = State(m)
          /\ Lead(m)' = Lead(m) /\ (Doubtful(m)' <=> Doubtful(m))
      BY <1>2, <1>3
    <3> QED
      BY <2>1, <3>1, <3>2 DEF Took
  <2>2. ASSUME NEW r \in SeriesIds, NEW s \in Slots, google.series[r].there, r = 0 \/ s >= Occ(r)[2]
        PROVE  s \in google'.series[r].slots \/ \E m \in Positions : Took(m, r, s)'
    BY <2>1, <2>2 DEF SeriesOK, CoverOK
  <2> QED
    BY <1>3, <2>2 DEF CoverOK
<1> QED
  BY <1>1, <1>4, <1>5, <1>6, <1>7, <1>8, <1>9, <1>10 DEF SeriesOK

LEMMA ForeignHistory ==
  ASSUME SeriesOK, history.foreign < MaxForeign, history' = [history EXCEPT !.foreign = @ + 1]
  PROVE  /\ history'.wrote = history.wrote
         /\ history' \in [wrote : [OpIds -> SUBSET {"occurrence", "series", "trim", "tail"}],
                          foreign : 0 .. MaxForeign]
         /\ ForeignValue \in Values /\ ForeignValue \notin OpIds
<1>1. /\ history \in [wrote : [OpIds -> SUBSET {"occurrence", "series", "trim", "tail"}],
                      foreign : 0 .. MaxForeign]
      /\ history.foreign \in Nat /\ history.foreign + 1 \in 0 .. MaxForeign
  BY RestTyped, BoundsTyped DEF SeriesOK
<1>2. ForeignValue \in Values /\ ForeignValue \notin OpIds
  BY <1>1, BoundsTyped DEF ForeignValue, Values, OpIds
<1>3. /\ history'.wrote = history.wrote
      /\ history' \in [wrote : [OpIds -> SUBSET {"occurrence", "series", "trim", "tail"}],
                       foreign : 0 .. MaxForeign]
  BY <1>1
<1> QED
  BY <1>2, <1>3

LEMMA ForeignSeriesKeeps ==
  ASSUME SeriesOK, NEW r \in SeriesIds, ForeignSeries(r), trouble' = trouble
  PROVE  SeriesOK'
<1>1. /\ history.foreign < MaxForeign /\ history' = [history EXCEPT !.foreign = @ + 1]
      /\ UNCHANGED <<rows, ops, jobs, cycle, trouble>> /\ WriteSeries(r, ForeignValue)
  BY DEF ForeignSeries, Foreign
<1>2. PICK v : v = ForeignValue
  OBVIOUS
<1>3. v \in Values /\ v \notin OpIds /\ WriteSeries(r, v)
  BY <1>1, <1>2, ForeignHistory DEF WriteSeries
<1>4. /\ Grows /\ google'.own = google.own
      /\ \A q \in SeriesIds : /\ (google'.series[q].there <=> google.series[q].there)
                              /\ google'.series[q].slots = google.series[q].slots
                              /\ google'.series[q].val = IF q = r THEN v ELSE google.series[q].val
  BY <1>3, WriteSeriesGrows DEF SeriesOK
<1> QED
  BY <1>1, <1>3, <1>4, ForeignHistory, ForeignKeeps

LEMMA ForeignOccurrenceKeeps ==
  ASSUME SeriesOK, NEW o \in Occurrences, ForeignOccurrence(o), trouble' = trouble
  PROVE  SeriesOK'
<1>1. /\ history.foreign < MaxForeign /\ history' = [history EXCEPT !.foreign = @ + 1]
      /\ UNCHANGED <<rows, ops, jobs, cycle, trouble>> /\ WriteOccurrence(o, ForeignValue)
  BY DEF ForeignOccurrence, Foreign
<1>2. PICK v : v = ForeignValue
  OBVIOUS
<1>3. v \in Values /\ v \notin OpIds /\ WriteOccurrence(o, v)
  BY <1>1, <1>2, ForeignHistory DEF WriteOccurrence
<1>4. /\ Grows /\ google'.series = google.series
      /\ \A q \in Occurrences : google'.own[q].val = IF q = o THEN v ELSE google.own[q].val
  BY <1>3, WriteOccurrenceGrows DEF SeriesOK
<1> QED
  BY <1>1, <1>3, <1>4, ForeignHistory, ForeignKeeps

LEMMA ForeignCutKeeps ==
  ASSUME SeriesOK, NEW o \in Occurrences, ForeignCut(o), trouble' = trouble
  PROVE  SeriesOK'
<1>1. /\ history.foreign < MaxForeign /\ history' = [history EXCEPT !.foreign = @ + 1]
      /\ UNCHANGED <<rows, ops, jobs, cycle, trouble>> /\ CutOccurrence(o)
  BY DEF ForeignCut, Foreign
<1>2. /\ Grows /\ google'.series = google.series
      /\ \A q \in Occurrences : google'.own[q].val = google.own[q].val
  BY <1>1, CutOccurrenceGrows DEF SeriesOK
<1> QED
  BY <1>1, <1>2, ForeignHistory, ForeignKeeps

-----------------------------------------------------------------------------
(* A job that moves on: nothing else does.                                 *)

LEMMA JobMoves ==
  ASSUME SeriesOK, NEW n \in OpIds, Busy(n), NEW job \in Job, job.at # "none",
         job.members = jobs[n].members, JobOK(n, job), jobs' = [jobs EXCEPT ![n] = job],
         UNCHANGED <<google, rows, ops, cycle, history>>, trouble' \in 0 .. MaxTrouble
  PROVE  SeriesOK'
<1>1. jobs \in [OpIds -> Job] /\ jobs'[n] = job /\ \A m \in OpIds : m # n => jobs'[m] = jobs[m]
  BY RestTyped DEF SeriesOK
<1>2. SeriesTypeOK'
  BY <1>1 DEF SeriesOK, SeriesTypeOK
<1>3. QueueOK' /\ StampsOK' /\ GroupsOK' /\ WritesOK' /\ ValuesOK' /\ CoverOK' /\ OutcomesOK' /\ RowsOK'
  <2>1. /\ Positions' = Positions
        /\ \A n_1 : /\ Occ(n_1)' = Occ(n_1) /\ Kind(n_1)' = Kind(n_1) /\ State(n_1)' = State(n_1)
                    /\ Lead(n_1)' = Lead(n_1) /\ (Doubtful(n_1)' <=> Doubtful(n_1))
                    /\ (Lost(n_1)' <=> Lost(n_1)) /\ Group(n_1)' = Group(n_1)
        /\ \A o : Of(o)' = Of(o) /\ (Stuck(o)' <=> Stuck(o))
    BY SameQueue
  <2>2. \A k : Did(k)' = Did(k)
    BY DEF Did
  <2>3. \A o : (Alive(o)' <=> Alive(o)) /\ EtagOf(o)' = EtagOf(o) /\ ValueOf(o)' = ValueOf(o)
    BY DEF Alive, EtagOf, ValueOf, Master
  <2>4. QueueOK'
    BY <2>1 DEF SeriesOK, QueueOK, Master
  <2>5. StampsOK' /\ GroupsOK'
    BY SameGroups DEF SeriesOK, StampsOK
  <2>6. WritesOK'
    BY <2>1, <2>2 DEF SeriesOK, WritesOK, Master, Did
  <2>7. ValuesOK'
    BY <2>1, <2>2 DEF SeriesOK, ValuesOK
  <2>8. CoverOK'
    BY <2>1, <2>2 DEF SeriesOK, CoverOK, Took
  <2>9. OutcomesOK'
    BY <2>1, <2>2, <2>3 DEF SeriesOK, OutcomesOK, DoneOK, Touched, Alive, Master, Did
  <2>10. RowsOK'
    BY <2>1, <2>3 DEF SeriesOK, RowsOK, SeenOK, Alive, Master, EtagOf, ValueOf
  <2> QED
    BY <2>4, <2>5, <2>6, <2>7, <2>8, <2>9, <2>10
<1>4. JobsOK'
  BY <1>1, SameJobs DEF SeriesOK, Busy
<1>5. StepsOK'
  <2> SUFFICES ASSUME NEW m \in OpIds, Busy(m)' PROVE JobOK(m, jobs[m])'
    BY DEF StepsOK
  <2>1. Busy(m)
    BY <1>1 DEF Busy
  <2>2. JobOK(m, jobs'[m])
    BY <1>1, <2>1 DEF SeriesOK, StepsOK
  <2>3. PICK j : j = jobs'[m]
    OBVIOUS
  <2>4. JobOK(m, j)' 
    BY <2>2, <2>3 DEF JobOK, AimOK, AnswerOK, Aim, Kind, Did, DoneOK, Touched, Occ, Alive, Master,
       SeenOK,
                      EtagOf, ValueOf
  <2> QED
    BY <2>3, <2>4
<1> QED
  BY <1>2, <1>3, <1>4, <1>5 DEF SeriesOK

LEMMA BusyFacts ==
  ASSUME SeriesOK, NEW n \in OpIds, Busy(n)
  PROVE  /\ n \in Positions /\ n \in Nat /\ State(n) = "syncing" /\ Lead(n) = n /\ Doubtful(n)
         /\ jobs[n].members = Group(n) /\ n \in Group(n) /\ Group(n) \subseteq Positions
         /\ Last(Group(n)) \in Group(n) /\ Last(Group(n)) \in OpIds /\ Last(Group(n)) \in Values
         /\ \A k \in Group(n) : /\ Occ(k) = Occ(n) /\ k \in Of(Occ(n)) /\ State(k) = "syncing"
                                /\ Lead(k) = n /\ n <= k /\ (k # n => Kind(k) = "update")
                                /\ Did(k) = Did(n) /\ Doubtful(k)
         /\ JobOK(n, jobs[n]) /\ AimOK(n, jobs[n])
         /\ Occ(n) \in Occurrences /\ Occ(n)[1] \in SeriesIds /\ Occ(n)[2] \in Slots /\ Occ(n)[2] \in Nat
         /\ google.series[Occ(n)[1]].there /\ Master(Occ(n)).there
         /\ jobs[n] \in Job /\ jobs[n].at # "none"
<1>1. n \in Positions /\ State(n) = "syncing" /\ Lead(n) = n /\ jobs[n].members = Group(n)
  BY DEF SeriesOK, JobsOK
<1>2. Doubtful(n) /\ n \in Group(n) /\ Group(n) \subseteq Positions /\ n \in Nat
  BY <1>1, SeriesOpsTyped DEF SeriesOK, Doubtful, Group
<1>3. ASSUME NEW k \in Group(n)
      PROVE  /\ Occ(k) = Occ(n) /\ k \in Of(Occ(n)) /\ State(k) = "syncing"
             /\ Lead(k) = n /\ n <= k /\ (k # n => Kind(k) = "update")
             /\ Did(k) = Did(n) /\ Doubtful(k)
  <2>1. k \in Positions /\ Doubtful(k) /\ Lead(k) = n
    BY DEF Group
  <2>2. n \in Of(Occ(k)) /\ n <= k /\ (k # n => Kind(k) = "update")
    BY <2>1 DEF SeriesOK, GroupsOK
  <2>3. Occ(n) = Occ(k)
    BY <2>2, SeriesOpsTyped DEF SeriesOK
  <2>4. k # n => State(n) = State(k)
    <3>1. n < k => State(n) = State(k)
      BY <2>1, <2>2, <1>2, SeriesOpsTyped DEF SeriesOK, GroupsOK
    <3> QED
      BY <3>1, <2>1, <2>2, <1>2, SeriesOpsTyped DEF SeriesOK
  <2>5. Did(k) = Did(n)
    BY <2>1 DEF SeriesOK, WritesOK
  <2> QED
    BY <1>1, <2>1, <2>2, <2>3, <2>4, <2>5, SeriesOpsTyped DEF SeriesOK
<1>4. Last(Group(n)) \in Group(n)
  <2>1. Group(n) \subseteq 0 .. Len(ops) /\ Len(ops) \in Nat
    BY <1>2, SeriesOpsTyped DEF SeriesOK
  <2>2. Group(n) # {}
    BY <1>2
  <2> QED
    BY <2>1, <2>2, LastIsLast
<1>5. Last(Group(n)) \in OpIds /\ Last(Group(n)) \in Values
  BY <1>2, <1>4, SeriesOpsTyped, BoundsTyped DEF SeriesOK
<1>6. JobOK(n, jobs[n]) /\ AimOK(n, jobs[n])
  BY DEF SeriesOK, StepsOK, JobOK
<1>7. /\ Occ(n) \in Occurrences /\ Occ(n)[1] \in SeriesIds /\ Occ(n)[2] \in Slots /\ Occ(n)[2] \in Nat
      /\ google.series[Occ(n)[1]].there /\ Master(Occ(n)).there
  BY <1>1, SeriesOpsTyped DEF SeriesOK, QueueOK, Master
<1>8. jobs[n] \in Job /\ jobs[n].at # "none"
  BY RestTyped DEF SeriesOK, Busy
<1> QED
  BY <1>1, <1>2, <1>3, <1>4, <1>5, <1>6, <1>7, <1>8

\* The same upload, elsewhere.
Moved(n, job) ==
  /\ jobs' = [jobs EXCEPT ![n] = job] /\ job \in Job
  /\ job.members = jobs[n].members /\ (job.member <=> jobs[n].member)

LEMMA GoesTo ==
  ASSUME SeriesTypeOK, NEW n \in OpIds, NEW at, Goes(n, at),
         at \in {"none", "look", "read", "trim", "insert", "send", "unsure", "answered"}
  PROVE  \E job : Moved(n, job) /\ job.at = at /\ job.from = jobs[n].from
<1> DEFINE job == [jobs[n] EXCEPT !.at = at]
<1>1. jobs[n] \in Job /\ jobs \in [OpIds -> Job]
  BY RestTyped
<1>2. jobs' = [jobs EXCEPT ![n] = job]
  BY <1>1 DEF Goes
<1>3. /\ job \in Job /\ job.at = at /\ job.from = jobs[n].from
      /\ job.members = jobs[n].members /\ (job.member <=> jobs[n].member)
  BY <1>1 DEF Job
<1> QED
  BY <1>2, <1>3 DEF Moved

LEMMA AnswersTo ==
  ASSUME SeriesTypeOK, NEW n \in OpIds, NEW answer, NEW seen \in EventRow, Answers(n, answer, seen),
         answer \in {"none", "ok", "scoped", "conflict", "changed", "gone", "invalid", "retry"}
  PROVE  \E job : /\ Moved(n, job) /\ job.at = "answered" /\ job.from = jobs[n].from
                  /\ job.answer = answer /\ job.seen = seen
<1> DEFINE job == [jobs[n] EXCEPT !.at = "answered", !.answer = answer, !.seen = seen]
<1>1. jobs[n] \in Job /\ jobs \in [OpIds -> Job]
  BY RestTyped
<1>2. jobs' = [jobs EXCEPT ![n] = job]
  BY <1>1 DEF Answers
<1>3. /\ job \in Job /\ job.at = "answered" /\ job.from = jobs[n].from
      /\ job.members = jobs[n].members /\ (job.member <=> jobs[n].member)
      /\ job.answer = answer /\ job.seen = seen
  BY <1>1 DEF Job
<1> QED
  BY <1>2, <1>3 DEF Moved

LEMMA StillUnsureTo ==
  ASSUME SeriesTypeOK, NEW n \in OpIds, StillUnsure(n)
  PROVE  \E job : /\ Moved(n, job) /\ job.at = "answered" /\ job.from = "ambiguous"
                  /\ job.answer = "retry"
<1> DEFINE job == [jobs[n] EXCEPT !.at = "answered", !.answer = "retry", !.from = "ambiguous"]
<1>1. jobs[n] \in Job /\ jobs \in [OpIds -> Job]
  BY RestTyped
<1>2. jobs' = [jobs EXCEPT ![n] = job]
  BY <1>1 DEF StillUnsure
<1>3. /\ job \in Job /\ job.at = "answered" /\ job.from = "ambiguous"
      /\ job.members = jobs[n].members /\ (job.member <=> jobs[n].member)
      /\ job.answer = "retry"
  BY <1>1 DEF Job
<1> QED
  BY <1>2, <1>3 DEF Moved

\* Its aim is the same, and so is what it has not done.
LEMMA MovedAim ==
  ASSUME SeriesOK, NEW n \in OpIds, Busy(n), NEW job, Moved(n, job)
  PROVE  /\ Aim(job) = Aim(jobs[n]) /\ job.members = Group(n) /\ jobs[n].members = Group(n)
         /\ Value(n) = Last(Group(n)) /\ Scope(n) = ops[Last(Group(n))].scope
         /\ job.member => Kind(n) = "update"
         /\ Aim(job) # "thisEvent" => job.member /\ Aim(job) = Scope(n)
         /\ job.member => Aim(job) = Scope(n)
         /\ ~job.member => Aim(job) = "thisEvent"
  BY BusyFacts DEF Moved, Aim, Value, Scope, AimOK

LEMMA MovedKeeps ==
  ASSUME SeriesOK, NEW n \in OpIds, Busy(n), NEW job, Moved(n, job), job.at # "none", JobOK(n, job),
         UNCHANGED <<google, rows, ops, cycle, history>>, trouble' \in 0 .. MaxTrouble
  PROVE  SeriesOK'
  BY JobMoves DEF Moved

LEMMA ReadKeeps ==
  ASSUME SeriesOK, NEW n \in OpIds, Read(n), trouble' \in 0 .. MaxTrouble
  PROVE  SeriesOK'
<1> DEFINE at == IF Aim(jobs[n]) = "allEvents" THEN "send" ELSE "trim"
           job == [jobs[n] EXCEPT !.at = at, !.etag = Master(Occ(n)).stamp]
<1>1. Busy(n) /\ jobs[n].at = "read"
  BY DEF Read, At, Busy
<1>2. jobs[n] \in Job /\ jobs \in [OpIds -> Job]
  BY RestTyped DEF SeriesOK
<1>3. Master(Occ(n)).stamp \in Nat
  BY <1>1, BusyFacts, GoogleTyped DEF SeriesOK
<1>4. jobs' = [jobs EXCEPT ![n] = job]
  BY <1>2 DEF Read
<1>5. /\ job \in Job /\ job.at = at /\ job.from = jobs[n].from
      /\ job.members = jobs[n].members /\ (job.member <=> jobs[n].member)
  BY <1>2, <1>3 DEF Job
<1> HIDE DEF job
<1>6. Moved(n, job)
  BY <1>4, <1>5 DEF Moved
<1>7. AimOK(n, jobs[n]) /\ Aim(job) = Aim(jobs[n]) /\ (job.member => Kind(n) = "update")
  BY <1>1, <1>6, MovedAim, BusyFacts
<1>8. Aim(jobs[n]) \in Scopes
  BY <1>1, BusyFacts, SeriesOpsTyped DEF SeriesOK, Aim, Scopes
<1>9. JobOK(n, job)
  BY <1>1, <1>5, <1>7, <1>8 DEF JobOK, AimOK, Scopes
<1>10. UNCHANGED <<google, rows, ops, cycle, history>>
  BY DEF Read
<1> QED
  BY <1>1, <1>5, <1>6, <1>9, <1>10, MovedKeeps

LEMMA WriteRefusedKeeps ==
  ASSUME SeriesOK, NEW n \in OpIds, WriteRefused(n), trouble' \in 0 .. MaxTrouble
  PROVE  SeriesOK'
<1>1. Busy(n) /\ jobs[n].at \in {"trim", "insert", "send"} /\ UNCHANGED <<google, rows, ops, cycle, history>>
  BY DEF WriteRefused, Writing, Busy
<1>2. AimOK(n, jobs[n])
  BY <1>1, BusyFacts
<1>3. NoEventRow \in EventRow
  BY BoundsTyped DEF NoEventRow, EventRow
<1>4. CASE At(n, "insert") /\ Goes(n, "unsure")
  <2>1. PICK job : Moved(n, job) /\ job.at = "unsure" /\ job.from = jobs[n].from
    BY <1>4, GoesTo DEF SeriesOK
  <2>2. JobOK(n, job)
    BY <1>1, <2>1, MovedAim DEF JobOK, AimOK
  <2> QED
    BY <1>1, <2>1, <2>2, MovedKeeps
<1>5. CASE ~At(n, "insert") /\ \E answer \in {"conflict", "retry"} : Answers(n, answer, NoEventRow)
  <2>1. PICK answer \in {"conflict", "retry"} : Answers(n, answer, NoEventRow)
    BY <1>5
  <2>2. PICK job : /\ Moved(n, job) /\ job.at = "answered" /\ job.from = jobs[n].from
                   /\ job.answer = answer /\ job.seen = NoEventRow
    BY <1>3, <2>1, AnswersTo DEF SeriesOK
  <2>3. AimOK(n, job)
    BY <1>1, <1>2, <1>5, <2>2, MovedAim DEF AimOK, At
  <2>4. JobOK(n, job)
    BY <2>1, <2>2, <2>3 DEF JobOK, AnswerOK
  <2> QED
    BY <1>1, <2>2, <2>4, MovedKeeps
<1>6. CASE ~Alive(Occ(n)) /\ Answers(n, "gone", NoEventRow)
  <2>2. PICK job : /\ Moved(n, job) /\ job.at = "answered" /\ job.from = jobs[n].from
                   /\ job.answer = "gone" /\ job.seen = NoEventRow
    BY <1>3, <1>6, AnswersTo DEF SeriesOK
  <2>3. AimOK(n, job)
    BY <1>1, <1>2, <2>2, MovedAim DEF AimOK, At
  <2>4. JobOK(n, job)
    BY <1>6, <2>2, <2>3 DEF JobOK, AnswerOK
  <2> QED
    BY <1>1, <2>2, <2>4, MovedKeeps
<1> QED
  BY <1>1, <1>4, <1>5, <1>6 DEF WriteRefused, At

LEMMA TurnedDownKeeps ==
  ASSUME SeriesOK, NEW n \in OpIds, TurnedDown(n)
  PROVE  SeriesOK'
<1>1. UNCHANGED <<google, rows, ops, cycle, history>> /\ trouble' \in 0 .. MaxTrouble
  BY RestTyped, BoundsTyped DEF SeriesOK, TurnedDown, Troubled
<1>2. Busy(n)
  BY DEF TurnedDown, Busy, At
<1>3. AimOK(n, jobs[n])
  BY <1>2, BusyFacts
<1>4. NoEventRow \in EventRow
  BY BoundsTyped DEF NoEventRow, EventRow
<1>5. CASE StillUnsure(n)
  <2>1. PICK job : Moved(n, job) /\ job.at = "answered" /\ job.from = "ambiguous" /\ job.answer = "retry"
    BY <1>5, StillUnsureTo DEF SeriesOK
  <2>2. JobOK(n, job)
    BY <1>2, <2>1, MovedAim DEF JobOK, AimOK, AnswerOK
  <2> QED
    BY <1>1, <1>2, <2>1, <2>2, MovedKeeps
<1>6. CASE jobs[n].at \in {"read", "trim", "send"} /\ \E answer \in {"retry", "invalid"} :
                                                        Answers(n, answer, NoEventRow)
  <2>1. PICK answer \in {"retry", "invalid"} : Answers(n, answer, NoEventRow)
    BY <1>6
  <2>2. PICK job : /\ Moved(n, job) /\ job.at = "answered" /\ job.from = jobs[n].from
                   /\ job.answer = answer /\ job.seen = NoEventRow
    BY <1>4, <2>1, AnswersTo DEF SeriesOK
  <2>3. AimOK(n, job)
    BY <1>2, <1>3, <1>6, <2>2, MovedAim DEF AimOK
  <2>4. JobOK(n, job)
    BY <2>1, <2>2, <2>3 DEF JobOK, AnswerOK
  <2> QED
    BY <1>1, <1>2, <2>2, <2>4, MovedKeeps
<1>7. CASE Goes(n, "unsure")
  <2>1. PICK job : Moved(n, job) /\ job.at = "unsure" /\ job.from = jobs[n].from
    BY <1>7, GoesTo DEF SeriesOK
  <2>2. JobOK(n, job)
    BY <1>2, <2>1, MovedAim DEF JobOK, AimOK
  <2> QED
    BY <1>1, <1>2, <2>1, <2>2, MovedKeeps
<1> QED
  BY <1>5, <1>6, <1>7 DEF TurnedDown

LEMMA RequestLostKeeps ==
  ASSUME SeriesOK, NEW n \in OpIds, RequestLost(n)
  PROVE  SeriesOK'
<1>1. UNCHANGED <<google, rows, ops, cycle, history>> /\ trouble' \in 0 .. MaxTrouble
  BY RestTyped, BoundsTyped DEF SeriesOK, RequestLost, Troubled
<1>2. Busy(n)
  BY DEF RequestLost, Busy
<1>3. PICK job : Moved(n, job) /\ job.at = "unsure" /\ job.from = jobs[n].from
  BY GoesTo DEF SeriesOK, RequestLost
<1>4. JobOK(n, job)
  BY <1>2, <1>3, MovedAim DEF JobOK, AimOK
<1> QED
  BY <1>1, <1>2, <1>3, <1>4, MovedKeeps

\* What is found at Google under the value of an upload was written by it.
LEMMA FoundIsDone ==
  ASSUME SeriesOK, NEW n \in OpIds, Busy(n)
  PROVE  /\ google.series[n].there => Touched(n)
         /\ \A r \in SeriesIds : google.series[r].val = Value(n) => Touched(n)
         /\ \A o \in Occurrences : google.own[o].val = Value(n) => Touched(n)
         /\ "trim" \in Did(n) => Kind(n) = "update" /\ Scope(n) = "thisAndFollowing"
<1>1. /\ n \in Positions /\ Lead(n) = n /\ Doubtful(n) /\ jobs[n].members = Group(n)
      /\ Last(Group(n)) \in Group(n) /\ Last(Group(n)) \in OpIds
      /\ \A k \in Group(n) : Did(k) = Did(n)
  BY BusyFacts
<1>2. Value(n) = Last(Group(n)) /\ Scope(n) = ops[Last(Group(n))].scope
  BY <1>1 DEF Value, Scope
<1>3. google.series[n].there => Touched(n)
  BY DEF SeriesOK, WritesOK, Touched, Did
<1>4. ASSUME NEW r \in SeriesIds, google.series[r].val = Value(n) PROVE Touched(n)
  <2>1. Did(Value(n)) \cap {"series", "tail"} # {}
    BY <1>1, <1>2, <1>4 DEF SeriesOK, ValuesOK
  <2>2. Did(Value(n)) = Did(n)
    BY <1>1, <1>2
  <2> QED
    BY <2>1, <2>2 DEF Touched, Did
<1>5. ASSUME NEW o \in Occurrences, google.own[o].val = Value(n) PROVE Touched(n)
  <2>1. "occurrence" \in Did(Value(n))
    BY <1>1, <1>2, <1>5 DEF SeriesOK, ValuesOK
  <2>2. Did(Value(n)) = Did(n)
    BY <1>1, <1>2
  <2> QED
    BY <2>1, <2>2 DEF Touched, Did
<1>6. "trim" \in Did(n) => Kind(n) = "update" /\ Scope(n) = "thisAndFollowing"
  BY <1>1, <1>2 DEF SeriesOK, WritesOK
<1> QED
  BY <1>3, <1>4, <1>5, <1>6

LEMMA DesiredTyped ==
  ASSUME SeriesOK, NEW n \in OpIds, Busy(n)
  PROVE  /\ Desired(n) \in EventRow /\ Desired(n).etag = 0
         /\ Remote(Occ(n)) \in EventRow /\ [Remote(Occ(n)) EXCEPT !.member = FALSE] \in EventRow
         /\ SeenOK(Occ(n), Remote(Occ(n)))
         /\ SeenOK(Occ(n), [Remote(Occ(n)) EXCEPT !.member = FALSE])
         /\ NoEventRow \in EventRow
<1>1. Value(n) \in Values /\ Occ(n) \in Occurrences
  BY BusyFacts DEF Value
<1>2. Desired(n) \in EventRow /\ Desired(n).etag = 0
  BY <1>1 DEF Desired, EventRow
<1>3. PICK o \in Occurrences : o = Occ(n)
  BY <1>1
<1>4. EtagOf(o) \in Nat /\ ValueOf(o) \in Values
  BY GoogleTyped DEF SeriesOK
<1>5. /\ Remote(o) \in EventRow /\ [Remote(o) EXCEPT !.member = FALSE] \in EventRow
      /\ SeenOK(o, Remote(o)) /\ SeenOK(o, [Remote(o) EXCEPT !.member = FALSE])
  BY <1>4 DEF Remote, EventRow, SeenOK
<1>6. NoEventRow \in EventRow
  BY BoundsTyped DEF NoEventRow, EventRow
<1> QED
  BY <1>2, <1>3, <1>5, <1>6

\* An upload that is found done.
LEMMA FoundKeeps ==
  ASSUME SeriesOK, NEW n \in OpIds, Busy(n), NEW answer \in {"ok", "scoped"}, NEW seen \in EventRow,
         Answers(n, answer, seen), DoneOK(n), "trim" \in Did(n) => google.series[n].there,
         SeenOK(Occ(n), seen), UNCHANGED <<google, rows, ops, cycle, history>>, trouble' \in 0 .. MaxTrouble
  PROVE  SeriesOK'
<1>1. PICK job : /\ Moved(n, job) /\ job.at = "answered" /\ job.from = jobs[n].from
                 /\ job.answer = answer /\ job.seen = seen
  BY AnswersTo DEF SeriesOK
<1>2. JobOK(n, job)
  BY <1>1, MovedAim DEF JobOK, AimOK, AnswerOK
<1> QED
  BY <1>1, <1>2, MovedKeeps

LEMMA ChangedKeeps ==
  ASSUME SeriesOK, NEW n \in OpIds, Busy(n), NEW answer \in {"changed", "invalid"}, NEW seen \in EventRow,
         Answers(n, answer, seen), SeenOK(Occ(n), seen),
         UNCHANGED <<google, rows, ops, cycle, history>>, trouble' \in 0 .. MaxTrouble
  PROVE  SeriesOK'
<1>1. PICK job : /\ Moved(n, job) /\ job.at = "answered" /\ job.from = jobs[n].from
                 /\ job.answer = answer /\ job.seen = seen
  BY AnswersTo DEF SeriesOK
<1>2. JobOK(n, job)
  BY <1>1, MovedAim DEF JobOK, AimOK, AnswerOK
<1> QED
  BY <1>1, <1>2, MovedKeeps

LEMMA LookKeeps ==
  ASSUME SeriesOK, NEW n \in OpIds, Look(n), trouble' = trouble
  PROVE  SeriesOK'
<1>1. /\ UNCHANGED <<google, rows, ops, cycle, history>> /\ trouble' \in 0 .. MaxTrouble
      /\ Busy(n) /\ jobs[n].at \in {"look", "unsure"}
  BY RestTyped DEF SeriesOK, Look, Busy
<1>2. AimOK(n, jobs[n]) /\ Occ(n) \in Occurrences /\ Occ(n)[1] \in SeriesIds /\ Kind(n) \in {"update", "delete"}
  BY <1>1, BusyFacts, SeriesOpsTyped DEF SeriesOK
<1>3. CASE TailThere(n) /\ Answers(n, "scoped", Desired(n))
  <2>1. google.series[n].there /\ DoneOK(n)
    BY <1>1, <1>3, FoundIsDone DEF TailThere, DoneOK
  <2>2. SeenOK(Occ(n), Desired(n)) /\ Desired(n) \in EventRow
    BY <1>1, DesiredTyped DEF SeenOK
  <2> QED
    BY <1>1, <1>3, <2>1, <2>2, FoundKeeps
<1>4. CASE MasterMatches(n) /\ Answers(n, "scoped", Desired(n))
  <2>1. DoneOK(n)
    BY <1>1, <1>2, <1>4, FoundIsDone DEF MasterMatches, DoneOK, Master
  <2>2. "trim" \notin Did(n)
    <3>1. Aim(jobs[n]) = "allEvents"
      BY <1>4 DEF MasterMatches, LooksForMaster
    <3>2. Aim(jobs[n]) = Scope(n)
      BY <3>1 DEF Aim, Scope
    <3> QED
      BY <1>1, <3>1, <3>2, FoundIsDone
  <2>3. SeenOK(Occ(n), Desired(n)) /\ Desired(n) \in EventRow
    BY <1>1, DesiredTyped DEF SeenOK
  <2> QED
    BY <1>1, <1>4, <2>1, <2>2, <2>3, FoundKeeps
<1>5. CASE OneMatches(n) /\ Answers(n, "ok", Remote(Occ(n)))
  <2>1. DoneOK(n)
    <3>1. CASE Kind(n) = "update"
      <4>1. ValueOf(Occ(n)) = Value(n)
        BY <1>5, <3>1 DEF OneMatches
      <4>2. google.own[Occ(n)].val = Value(n) \/ google.series[Occ(n)[1]].val = Value(n)
        BY <4>1 DEF ValueOf, Master
      <4> QED
        BY <1>1, <1>2, <4>2, FoundIsDone DEF DoneOK
    <3>2. CASE Kind(n) = "delete"
      BY <1>5, <3>2 DEF OneMatches, DoneOK
    <3> QED
      BY <1>2, <3>1, <3>2
  <2>2. "trim" \notin Did(n)
    BY <1>1, <1>5, FoundIsDone DEF OneMatches, LooksForOne, LooksForTail
  <2> QED
    BY <1>1, <1>5, <2>1, <2>2, DesiredTyped, FoundKeeps
<1>6. CASE StillUnsure(n)
  <2>1. PICK job : Moved(n, job) /\ job.at = "answered" /\ job.from = "ambiguous" /\ job.answer = "retry"
    BY <1>6, StillUnsureTo DEF SeriesOK
  <2>2. JobOK(n, job)
    BY <1>1, <2>1, MovedAim DEF JobOK, AimOK, AnswerOK
  <2> QED
    BY <1>1, <2>1, <2>2, MovedKeeps
<1>7. CASE Answers(n, "changed", [Remote(Occ(n)) EXCEPT !.member = FALSE])
  BY <1>1, <1>7, DesiredTyped, ChangedKeeps
<1>8. CASE At(n, "look") /\ Goes(n, FirstStep(jobs[n]))
  <2>1. FirstStep(jobs[n]) \in {"send", "read"}
    BY DEF FirstStep
  <2>2. PICK job : Moved(n, job) /\ job.at = FirstStep(jobs[n]) /\ job.from = jobs[n].from
    BY <1>8, <2>1, GoesTo DEF SeriesOK
  <2>3. Aim(job) = Aim(jobs[n]) /\ (job.member => Kind(n) = "update")
    BY <1>1, <2>2, MovedAim
  <2>4. JobOK(n, job)
    BY <1>2, <1>8, <2>1, <2>2, <2>3 DEF JobOK, AimOK, At, FirstStep
  <2> QED
    BY <1>1, <2>1, <2>2, <2>4, MovedKeeps
<1> QED
  BY <1>3, <1>4, <1>5, <1>6, <1>7, <1>8 DEF Look, MasterRefused

LEMMA FetchKeeps ==
  ASSUME SeriesOK, NEW n \in OpIds, Fetch(n), trouble' = trouble
  PROVE  SeriesOK'
<1>1. /\ UNCHANGED <<google, rows, ops, cycle, history>> /\ trouble' \in 0 .. MaxTrouble /\ Busy(n)
  BY RestTyped DEF SeriesOK, Fetch, Busy, At
<1>2. CASE TailThere(n) /\ Answers(n, "scoped", Desired(n))
  <2>1. google.series[n].there /\ DoneOK(n)
    BY <1>1, <1>2, FoundIsDone DEF TailThere, DoneOK
  <2>2. SeenOK(Occ(n), Desired(n)) /\ Desired(n) \in EventRow
    BY <1>1, DesiredTyped DEF SeenOK
  <2> QED
    BY <1>1, <1>2, <2>1, <2>2, FoundKeeps
<1>3. CASE Answers(n, "changed", [Remote(Occ(n)) EXCEPT !.member = FALSE])
  BY <1>1, <1>3, DesiredTyped, ChangedKeeps
<1>4. CASE Answers(n, "invalid", NoEventRow)
  <2>1. NoEventRow \in EventRow /\ SeenOK(Occ(n), NoEventRow)
    BY <1>1, DesiredTyped DEF SeenOK, NoEventRow
  <2> QED
    BY <1>1, <1>4, <2>1, ChangedKeeps
<1> QED
  BY <1>2, <1>3, <1>4 DEF Fetch

-----------------------------------------------------------------------------
(* A write that Google takes is one of every operation of the upload.      *)

\* The write of what, by the upload that n leads.
Puts(n, what) ==
  /\ n \in OpIds /\ Busy(n) /\ Grows /\ Wrote(n, what) /\ UNCHANGED <<rows, ops, cycle>>
  /\ what \in {"occurrence", "series", "trim", "tail"}

LEMMA DidMore ==
  ASSUME SeriesOK, NEW n, NEW what, Puts(n, what)
  PROVE  /\ StillThere
         /\ \A k \in OpIds : /\ k \in Group(n) => Did(k)' = Did(k) \cup {what}
                             /\ k \notin Group(n) => Did(k)' = Did(k)
         /\ history' \in [wrote : [OpIds -> SUBSET {"occurrence", "series", "trim", "tail"}],
                          foreign : 0 .. MaxForeign]
         /\ /\ Positions' = Positions
            /\ \A k : /\ Occ(k)' = Occ(k) /\ Kind(k)' = Kind(k) /\ State(k)' = State(k)
                      /\ Lead(k)' = Lead(k) /\ (Doubtful(k)' <=> Doubtful(k)) /\ Group(k)' = Group(k)
            /\ \A o : Of(o)' = Of(o)
<1>1. history \in [wrote : [OpIds -> SUBSET {"occurrence", "series", "trim", "tail"}],
                   foreign : 0 .. MaxForeign]
  BY RestTyped DEF SeriesOK
<1>2. jobs[n].members = Group(n) /\ n \in OpIds /\ what \in {"occurrence", "series", "trim", "tail"}
  BY BusyFacts DEF Puts
<1> DEFINE W == [k \in OpIds |-> IF k \in jobs[n].members THEN history.wrote[k] \cup {what} ELSE history.wrote[k]]
<1>3. history' = [history EXCEPT !.wrote = W]
  BY <1>1 DEF Puts, Wrote
<1>4. W \in [OpIds -> SUBSET {"occurrence", "series", "trim", "tail"}]
  BY <1>1, <1>2
<1>5. \A k \in OpIds : /\ k \in Group(n) => W[k] = Did(k) \cup {what}
                       /\ k \notin Group(n) => W[k] = Did(k)
  BY <1>2 DEF Did
<1> HIDE DEF W
<1>6. /\ history'.wrote = W
      /\ history' \in [wrote : [OpIds -> SUBSET {"occurrence", "series", "trim", "tail"}],
                       foreign : 0 .. MaxForeign]
  BY <1>1, <1>3, <1>4
<1>7. \A k \in OpIds : /\ k \in Group(n) => Did(k)' = Did(k) \cup {what}
                       /\ k \notin Group(n) => Did(k)' = Did(k)
  BY <1>5, <1>6 DEF Did
<1>8. StillThere
  BY <1>7 DEF StillThere, Puts
<1>9. ops' = ops
  BY DEF Puts
<1> QED
  BY <1>6, <1>7, <1>8, <1>9, SameQueue

LEMMA WritesMore ==
  ASSUME SeriesOK, NEW n, NEW what, Puts(n, what),
         what = "trim" =>
           /\ Kind(n) = "update" /\ ops[Last(Group(n))].scope = "thisAndFollowing"
           /\ \A s \in google'.series[Occ(n)[1]].slots : s < Occ(n)[2],
         \A k \in OpIds : google'.series[k].there =>
           \/ google.series[k].there
           \/ /\ k = n /\ what = "tail" /\ "trim" \in Did(n) /\ n \in Positions
              /\ \A s \in google'.series[n].slots : s >= Occ(n)[2]
  PROVE  WritesOK'
<1>1. n \in OpIds /\ Busy(n)
  BY DEF Puts
<1>2. /\ n \in Positions /\ n \in Group(n) /\ Lead(n) = n
      /\ Group(n) \subseteq Positions /\ Occ(n)[1] \in SeriesIds
      /\ \A k \in Group(n) : /\ Occ(k) = Occ(n) /\ State(k) = "syncing" /\ Lead(k) = n
                             /\ (k # n => Kind(k) = "update") /\ Doubtful(k)
  BY <1>1, BusyFacts
<1>3. /\ \A k \in OpIds : /\ k \in Group(n) => Did(k)' = Did(k) \cup {what}
                          /\ k \notin Group(n) => Did(k)' = Did(k)
      /\ Positions' = Positions
      /\ \A k : /\ Occ(k)' = Occ(k) /\ Kind(k)' = Kind(k) /\ State(k)' = State(k)
                /\ Lead(k)' = Lead(k) /\ (Doubtful(k)' <=> Doubtful(k)) /\ Group(k)' = Group(k)
  BY DidMore
<1>4. ops' = ops /\ Positions \subseteq OpIds
  BY SeriesOpsTyped DEF Puts, SeriesOK
<1>5. ASSUME NEW k \in OpIds, k \notin Positions \/ State(k) = "pending" PROVE Did(k)' = {}
  <2>1. k \notin Group(n) /\ Did(k) = {}
    BY <1>2, <1>5 DEF SeriesOK, WritesOK
  <2> QED
    BY <1>3, <2>1
<1>6. ASSUME NEW k \in Positions, Doubtful(k) PROVE Did(k)' = history'.wrote[Lead(k)]
  <2>1. Lead(k) \in Positions /\ Lead(k) \in OpIds /\ Lead(k) <= k /\ Did(k) = Did(Lead(k))
    BY <1>4, <1>6, SeriesOpsTyped DEF SeriesOK, GroupsOK, WritesOK
  <2>2. Doubtful(Lead(k)) /\ Lead(Lead(k)) = Lead(k)
    <3>1. Lead(k) \in Of(Occ(k)) /\ Lead(k) \in Nat /\ k \in Nat
      BY <1>4, <1>6, <2>1, SeriesOpsTyped DEF SeriesOK, GroupsOK
    <3>2. CASE Lead(k) = k
      BY <1>6, <3>2
    <3>3. CASE Lead(k) < k
      <4>1. State(Lead(k)) = State(k) /\ Lead(Lead(k)) = Lead(k)
        BY <1>6, <3>1, <3>3 DEF SeriesOK, GroupsOK
      <4> QED
        BY <1>6, <4>1 DEF Doubtful
    <3> QED
      BY <2>1, <3>1, <3>2, <3>3
  <2>3. k \in Group(n) <=> Lead(k) \in Group(n)
    BY <1>6, <2>1, <2>2 DEF Group
  <2>4. PICK l \in OpIds : l = Lead(k)
    BY <2>1
  <2>5. Did(k)' = Did(l)'
    BY <1>3, <1>4, <2>1, <2>3, <2>4
  <2> QED
    BY <2>4, <2>5 DEF Did
<1>7. ASSUME NEW k \in Positions, "trim" \in Did(k)'
      PROVE  /\ Kind(k) = "update"
             /\ \A s \in google'.series[Occ(k)[1]].slots : s < Occ(k)[2]
             /\ Doubtful(k) /\ Lead(k) = k => ops[Last(Group(k))].scope = "thisAndFollowing"
  <2>1. google'.series[Occ(k)[1]].slots \subseteq google.series[Occ(k)[1]].slots
    BY SeriesOpsTyped DEF SeriesOK, QueueOK, Puts, Grows
  <2>2. CASE "trim" \in Did(k)
    BY <2>1, <2>2 DEF SeriesOK, WritesOK, Master
  <2>3. CASE "trim" \notin Did(k)
    <3>1. k \in Group(n) /\ what = "trim"
      BY <1>3, <1>4, <1>7, <2>3
    <3>2. k = n \/ (Lead(k) # k /\ Kind(k) = "update")
      BY <1>2, <3>1
    <3> QED
      BY <1>2, <3>1, <3>2
  <2> QED
    BY <2>2, <2>3
<1>8. ASSUME NEW k \in OpIds, google'.series[k].there
      PROVE  {"trim", "tail"} \subseteq Did(k)' /\ \A s \in google'.series[k].slots : s >= Occ(k)[2]
  <2>1. CASE google.series[k].there
    <3>1. {"trim", "tail"} \subseteq Did(k) /\ \A s \in google.series[k].slots : s >= Occ(k)[2]
      BY <2>1 DEF SeriesOK, WritesOK
    <3>2. google'.series[k].slots \subseteq google.series[k].slots
      BY <2>1, BoundsTyped DEF Puts, Grows
    <3> QED
      BY <1>3, <3>1, <3>2
  <2>2. CASE ~google.series[k].there
    BY <1>2, <1>3, <1>8, <2>2
  <2> QED
    BY <2>1, <2>2
<1> USE DEF Master
<1>9. (\A k \in OpIds : k \notin Positions \/ State(k) = "pending" => Did(k) = {})'
  BY <1>3, <1>5
<1>10. (\A k \in Positions : Doubtful(k) => Did(k) = Did(Lead(k)))'
  BY <1>3, <1>6 DEF Did
<1>11. (\A k \in Positions : "trim" \in Did(k) =>
          /\ Kind(k) = "update"
          /\ \A s \in Master(Occ(k)).slots : s < Occ(k)[2]
          /\ Doubtful(k) /\ Lead(k) = k => ops[Last(Group(k))].scope = "thisAndFollowing")'
  BY <1>3, <1>4, <1>7
<1>12. (\A k \in OpIds : google.series[k].there =>
          {"trim", "tail"} \subseteq Did(k) /\ \A s \in google.series[k].slots : s >= Occ(k)[2])'
  BY <1>3, <1>8
<1> QED
  BY <1>9, <1>10, <1>11, <1>12 DEF WritesOK

LEMMA ValuesMore ==
  ASSUME SeriesOK, NEW n, NEW what, Puts(n, what),
         \A o \in Occurrences :
           \/ google'.own[o].val = google.own[o].val
           \/ google'.own[o].val = Last(Group(n)) /\ o = Occ(n) /\ what = "occurrence",
         \A r \in SeriesIds :
           \/ google'.series[r].val = google.series[r].val
           \/ google'.series[r].val = 0
           \/ /\ google'.series[r].val = Last(Group(n)) /\ what \in {"series", "tail"}
              /\ \/ ops[Last(Group(n))].scope = "allEvents" /\ Occ(n)[1] = r
                 \/ ops[Last(Group(n))].scope = "thisAndFollowing" /\ r \in Of(Occ(n))
  PROVE  ValuesOK'
<1>1. n \in OpIds /\ Busy(n) /\ ops' = ops
  BY DEF Puts
<1>2. PICK v : v = Last(Group(n))
  OBVIOUS
<1>3. v \in Group(n) /\ v \in Positions /\ v \in OpIds /\ Occ(v) = Occ(n)
  BY <1>1, <1>2, BusyFacts
<1>4. /\ \A k \in OpIds : /\ k \in Group(n) => Did(k)' = Did(k) \cup {what}
                          /\ k \notin Group(n) => Did(k)' = Did(k)
      /\ Positions' = Positions /\ \A k : Occ(k)' = Occ(k)
      /\ \A o : Of(o)' = Of(o)
  BY DidMore
<1>5. what \in Did(v)' /\ \A k \in OpIds : Did(k) \subseteq Did(k)'
  BY <1>3, <1>4
<1>6. ASSUME NEW o \in Occurrences, NEW k \in OpIds, google'.own[o].val = k
      PROVE  k \in Positions /\ Occ(k) = o /\ "occurrence" \in Did(k)'
  BY <1>2, <1>3, <1>5, <1>6 DEF SeriesOK, ValuesOK
<1>7. ASSUME NEW r \in SeriesIds, NEW k \in OpIds, google'.series[r].val = k
      PROVE  /\ k \in Positions /\ Did(k)' \cap {"series", "tail"} # {}
             /\ \/ ops[k].scope = "allEvents" /\ Occ(k)[1] = r
                \/ ops[k].scope = "thisAndFollowing" /\ r \in Of(Occ(k))
  <2>1. CASE google'.series[r].val = google.series[r].val
    <3>1. /\ k \in Positions /\ Did(k) \cap {"series", "tail"} # {}
          /\ \/ ops[k].scope = "allEvents" /\ Occ(k)[1] = r
             \/ ops[k].scope = "thisAndFollowing" /\ r \in Of(Occ(k))
      BY <1>7, <2>1 DEF SeriesOK, ValuesOK
    <3> QED
      BY <1>5, <3>1
  <2>2. CASE google'.series[r].val = 0
    BY <1>7, <2>2, BoundsTyped
  <2>3. CASE /\ google'.series[r].val = v /\ what \in {"series", "tail"}
             /\ \/ ops[v].scope = "allEvents" /\ Occ(n)[1] = r
                \/ ops[v].scope = "thisAndFollowing" /\ r \in Of(Occ(n))
    BY <1>3, <1>5, <1>7, <2>3
  <2> QED
    BY <1>2, <2>1, <2>2, <2>3
<1> QED
  BY <1>1, <1>4, <1>6, <1>7 DEF ValuesOK

LEMMA CoverMore ==
  ASSUME SeriesOK, NEW n, NEW what, Puts(n, what),
         what = "trim" => Kind(n) = "update",
         \A r \in SeriesIds, s \in Slots : google'.series[r].there /\ (r = 0 \/ s >= Occ(r)[2]) =>
           \/ s \in google'.series[r].slots
           \/ google.series[r].there /\ s \notin google.series[r].slots
           \/ r = Occ(n)[1] /\ what = "trim" /\ s >= Occ(n)[2]
  PROVE  CoverOK'
<1>1. n \in OpIds /\ Busy(n) /\ Grows
  BY DEF Puts
<1>2. /\ \A k \in OpIds : /\ k \in Group(n) => Did(k)' = Did(k) \cup {what}
                          /\ k \notin Group(n) => Did(k)' = Did(k)
      /\ Positions' = Positions
      /\ \A k : /\ Occ(k)' = Occ(k) /\ Kind(k)' = Kind(k) /\ State(k)' = State(k)
                /\ Lead(k)' = Lead(k) /\ (Doubtful(k)' <=> Doubtful(k))
  BY DidMore
<1>3. n \in Positions /\ n \in Group(n) /\ State(n) = "syncing" /\ Lead(n) = n
  BY <1>1, BusyFacts
<1>4. ASSUME NEW m \in Positions, NEW r, NEW s, Took(m, r, s) PROVE Took(m, r, s)'
  <2>1. google.series[m].there => google'.series[m].there
    BY <1>1, SeriesOpsTyped, BoundsTyped DEF SeriesOK, Grows
  <2>2. "trim" \in Did(m) => "trim" \in Did(m)'
    BY <1>2, SeriesOpsTyped DEF SeriesOK
  <2> QED
    BY <1>2, <1>4, <2>1, <2>2 DEF Took
<1>5. ASSUME NEW s \in Slots, what = "trim", s >= Occ(n)[2], NEW r, r = Occ(n)[1] PROVE Took(n, r, s)'
  <2>1. "trim" \in Did(n)' /\ Occ(n)[2] <= s /\ Kind(n) = "update"
    BY <1>2, <1>3, <1>5, BoundsAssumption, SeriesOpsTyped DEF SeriesOK
  <2> QED
    BY <1>2, <1>3, <1>5, <2>1 DEF Took
<1>6. ASSUME NEW r \in SeriesIds, NEW s \in Slots, google'.series[r].there, r = 0 \/ s >= Occ(r)[2]
      PROVE  s \in google'.series[r].slots \/ \E m \in Positions : Took(m, r, s)'
  <2>1. CASE google.series[r].there /\ s \notin google.series[r].slots
    <3>1. PICK m \in Positions : Took(m, r, s)
      BY <1>6, <2>1 DEF SeriesOK, CoverOK
    <3> QED
      BY <3>1, <1>4
  <2>2. CASE r = Occ(n)[1] /\ what = "trim" /\ s >= Occ(n)[2]
    BY <1>3, <1>5, <2>2
  <2> QED
    BY <1>6, <2>1, <2>2
<1> QED
  BY <1>2, <1>6 DEF CoverOK

LEMMA PutKeeps ==
  ASSUME SeriesOK, NEW n, NEW what, Puts(n, what), WritesOK', ValuesOK', CoverOK',
         \A r \in SeriesIds : google'.series[r].there /\ r # 0 => r \in Positions,
         NEW job, Moved(n, job), job.at # "none", JobOK(n, job)', trouble' \in 0 .. MaxTrouble
  PROVE  SeriesOK'
<1>1. n \in OpIds /\ Busy(n) /\ Grows /\ UNCHANGED <<rows, ops, cycle>>
  BY DEF Puts
<1>2. /\ StillThere
      /\ \A k \in OpIds : k \notin Group(n) => Did(k)' = Did(k)
      /\ history' \in [wrote : [OpIds -> SUBSET {"occurrence", "series", "trim", "tail"}],
                       foreign : 0 .. MaxForeign]
  BY DidMore
<1>3. jobs \in [OpIds -> Job] /\ jobs'[n] = job /\ \A m \in OpIds : m # n => jobs'[m] = jobs[m]
  BY <1>1, RestTyped DEF SeriesOK, Moved
<1>4. SeriesTypeOK'
  <2>1. jobs' \in [OpIds -> Job]
    BY <1>1, <1>3 DEF Moved
  <2> QED
    BY <1>1, <1>2, <2>1 DEF SeriesOK, SeriesTypeOK, Grows, Typed, SeriesRecord, OwnRecord
<1>5. QueueOK'
  BY <1>1, <1>2, GrowsQueue DEF SeriesOK
<1>6. StampsOK' /\ GroupsOK' /\ RowsOK' /\ OutcomesOK'
  BY <1>1, <1>2, GrowsStamps, SameGroups, GrowsRows, GrowsOutcomes DEF SeriesOK
<1>7. JobsOK'
  BY <1>1, <1>3, SameJobs DEF SeriesOK, Busy, Moved
<1>8. StepsOK'
  <2> SUFFICES ASSUME NEW m \in OpIds, Busy(m)' PROVE JobOK(m, jobs[m])'
    BY DEF StepsOK
  <2>1. CASE m = n
    BY <1>3, <2>1
  <2>2. CASE m # n
    <3>1. Busy(m) /\ jobs'[m] = jobs[m]
      BY <1>3, <2>2 DEF Busy
    <3>2. m \in Positions /\ Lead(m) = m /\ JobOK(m, jobs[m])
      BY <3>1, BusyFacts
    <3>3. Did(m)' = Did(m)
      BY <1>2, <2>2, <3>2 DEF Group
    <3>4. PICK j : j = jobs[m]
      OBVIOUS
    <3>5. JobOK(m, j)'
      BY <1>1, <1>2, <3>2, <3>3, <3>4, GrowsJob DEF SeriesOK
    <3> QED
      BY <3>1, <3>4, <3>5
  <2> QED
    BY <2>1, <2>2
<1> QED
  BY <1>4, <1>5, <1>6, <1>7, <1>8 DEF SeriesOK

Landed(n, what) ==
  /\ Puts(n, what) /\ WritesOK' /\ ValuesOK' /\ CoverOK'
  /\ \A r \in SeriesIds : google'.series[r].there /\ r # 0 => r \in Positions

LEMMA TrimLands ==
  ASSUME SeriesOK, NEW n \in OpIds, Trims(n), UNCHANGED <<rows, ops, cycle>>
  PROVE  Landed(n, "trim") /\ Kind(n) = "update" /\ Aim(jobs[n]) = "thisAndFollowing"
<1>1. Busy(n) /\ jobs[n].at = "trim"
  BY DEF Trims, At, Busy
<1>2. /\ Occ(n) \in Occurrences /\ Occ(n)[1] \in SeriesIds /\ Occ(n)[2] \in Nat
      /\ Aim(jobs[n]) = "thisAndFollowing" /\ jobs[n].members = Group(n) /\ AimOK(n, jobs[n])
  BY <1>1, BusyFacts DEF AimOK
<1>3. Kind(n) = "update" /\ ops[Last(Group(n))].scope = "thisAndFollowing"
  BY <1>2 DEF Aim, AimOK
<1>4. PICK r \in SeriesIds : r = Occ(n)[1]
  BY <1>2
<1>5. PICK slot \in Nat : slot = Occ(n)[2]
  BY <1>2
<1>6. /\ Grows /\ google'.own = google.own
      /\ google'.series[r].slots = {s \in google.series[r].slots : s < slot}
      /\ \A q \in SeriesIds : /\ (google'.series[q].there <=> google.series[q].there)
                              /\ q # r => google'.series[q].slots = google.series[q].slots
                              /\ google'.series[q].slots \subseteq google.series[q].slots
                              /\ google'.series[q].val = google.series[q].val
  BY <1>4, <1>5, TrimmedGrows DEF SeriesOK, Trims
<1>7. Puts(n, "trim")
  BY <1>1, <1>6 DEF Puts, Trims
<1>8. WritesOK'
  BY <1>3, <1>4, <1>5, <1>6, <1>7, BoundsTyped, WritesMore
<1>9. ValuesOK'
  BY <1>6, <1>7, ValuesMore
<1>10. CoverOK'
  <2>1. \A q \in SeriesIds, s \in Slots : google'.series[q].there /\ (q = 0 \/ s >= Occ(q)[2]) =>
          \/ s \in google'.series[q].slots
          \/ google.series[q].there /\ s \notin google.series[q].slots
          \/ q = Occ(n)[1] /\ s >= Occ(n)[2]
    BY <1>4, <1>5, <1>6, BoundsTyped
  <2> QED
    BY <1>3, <1>7, <2>1, CoverMore
<1> QED
  BY <1>2, <1>3, <1>6, <1>7, <1>8, <1>9, <1>10 DEF Landed, SeriesOK, QueueOK

LEMMA InsertLands ==
  ASSUME SeriesOK, NEW n \in OpIds, Inserts(n), ~google.series[n].there, UNCHANGED <<rows, ops, cycle>>
  PROVE  Landed(n, "tail") /\ google'.series[n].there
<1>1. Busy(n) /\ jobs[n].at = "insert"
  BY DEF Inserts, At, Busy
<1>2. /\ n \in Positions /\ n \in SeriesIds /\ Occ(n) \in Occurrences /\ Occ(n)[2] \in Nat
      /\ Aim(jobs[n]) = "thisAndFollowing" /\ jobs[n].members = Group(n) /\ "trim" \in Did(n)
      /\ Last(Group(n)) \in Values /\ n \in Of(Occ(n))
  BY <1>1, BusyFacts, BoundsTyped DEF AimOK
<1>3. ops[Last(Group(n))].scope = "thisAndFollowing"
  BY <1>2 DEF Aim
<1>4. PICK slot \in Nat : slot = Occ(n)[2]
  BY <1>2
<1>5. PICK v \in Values : v = Last(Group(n))
  BY <1>2
<1>6. /\ Grows /\ google'.own = google.own
      /\ google'.series[n].there /\ google'.series[n].slots = {s \in Slots : s >= slot}
      /\ google'.series[n].val = v
      /\ \A q \in SeriesIds : q # n => google'.series[q] = google.series[q]
  BY <1>2, <1>4, <1>5, InsertedGrows DEF SeriesOK, Inserts, Value
<1>7. Puts(n, "tail")
  BY <1>1, <1>6 DEF Puts, Inserts
<1>8. WritesOK'
  BY <1>2, <1>4, <1>6, <1>7, BoundsTyped, WritesMore
<1>9. ValuesOK'
  BY <1>2, <1>3, <1>5, <1>6, <1>7, ValuesMore
<1>10. CoverOK'
  <2>1. \A q \in SeriesIds, s \in Slots : google'.series[q].there /\ (q = 0 \/ s >= Occ(q)[2]) =>
          \/ s \in google'.series[q].slots
          \/ google.series[q].there /\ s \notin google.series[q].slots
    BY <1>4, <1>6, BoundsTyped
  <2> QED
    BY <1>7, <2>1, CoverMore
<1> QED
  BY <1>2, <1>6, <1>7, <1>8, <1>9, <1>10 DEF Landed, SeriesOK, QueueOK

LEMMA SeriesLands ==
  ASSUME SeriesOK, NEW n \in OpIds, Sends(n), Aim(jobs[n]) = "allEvents", UNCHANGED <<rows, ops, cycle>>
  PROVE  Landed(n, "series") /\ "trim" \notin Did(n)
<1>1. Busy(n) /\ jobs[n].at = "send"
  BY DEF Sends, At, Busy
<1>2. /\ n \in Positions /\ Occ(n) \in Occurrences /\ Occ(n)[1] \in SeriesIds
      /\ jobs[n].members = Group(n) /\ AimOK(n, jobs[n])
      /\ Last(Group(n)) \in Values
  BY <1>1, BusyFacts
<1>3. Kind(n) = "update" /\ ops[Last(Group(n))].scope = "allEvents" /\ Scope(n) = "allEvents"
  BY <1>2 DEF Aim, AimOK, Scope
<1>4. "trim" \notin Did(n)
  BY <1>1, <1>3, FoundIsDone
<1>5. PICK v \in Values : v = Last(Group(n))
  BY <1>2
<1>6. PICK r \in SeriesIds : r = Occ(n)[1]
  BY <1>2
<1>7. WriteSeries(r, v) /\ Wrote(n, "series")
  BY <1>2, <1>3, <1>5, <1>6 DEF Sends, Value
<1>8. /\ Grows /\ google'.own = google.own
      /\ \A q \in SeriesIds : /\ (google'.series[q].there <=> google.series[q].there)
                              /\ google'.series[q].slots = google.series[q].slots
                              /\ google'.series[q].val = IF q = r THEN v ELSE google.series[q].val
  BY <1>7, WriteSeriesGrows DEF SeriesOK
<1>9. Puts(n, "series")
  BY <1>1, <1>7, <1>8 DEF Puts
<1>10. WritesOK'
  BY <1>8, <1>9, BoundsTyped, WritesMore
<1>11. ValuesOK'
  <2>1. \A q \in SeriesIds :
           \/ google'.series[q].val = google.series[q].val
           \/ google'.series[q].val = Last(Group(n)) /\ Occ(n)[1] = q
    BY <1>5, <1>6, <1>8
  <2> QED
    BY <1>3, <1>8, <1>9, <2>1, ValuesMore
<1>12. CoverOK'
  <2>1. \A q \in SeriesIds, s \in Slots : google'.series[q].there /\ (q = 0 \/ s >= Occ(q)[2]) =>
          \/ s \in google'.series[q].slots
          \/ google.series[q].there /\ s \notin google.series[q].slots
    BY <1>8
  <2> QED
    BY <1>9, <2>1, CoverMore
<1> QED
  BY <1>4, <1>8, <1>9, <1>10, <1>11, <1>12 DEF Landed, SeriesOK, QueueOK

LEMMA OccurrenceLands ==
  ASSUME SeriesOK, NEW n \in OpIds, Sends(n), Aim(jobs[n]) # "allEvents", Alive(Occ(n)),
         UNCHANGED <<rows, ops, cycle>>
  PROVE  /\ Landed(n, "occurrence") /\ "trim" \notin Did(n)
         /\ \A o \in Occurrences : o = Occ(n) => ~Alive(o)' \/ EtagOf(o)' = google.clock + 1
<1>1. Busy(n) /\ jobs[n].at = "send" /\ Wrote(n, "occurrence")
  BY DEF Sends, At, Busy
<1>2. /\ n \in Positions /\ Occ(n) \in Occurrences /\ Occ(n)[2] \in Nat
      /\ Last(Group(n)) \in Values /\ jobs[n].members = Group(n) /\ Kind(n) \in {"update", "delete"}
  BY <1>1, BusyFacts, SeriesOpsTyped DEF SeriesOK
<1>3. "trim" \notin Did(n)
  BY <1>2 DEF SeriesOK, WritesOK, Alive, Master
<1>4. PICK v \in Values : v = Last(Group(n))
  BY <1>2
<1>5. PICK x \in Occurrences : x = Occ(n)
  BY <1>2
<1>6. /\ Grows /\ google'.series = google.series
      /\ \A o \in Occurrences : google'.own[o].val = google.own[o].val \/ (google'.own[o].val = v /\ o = x)
      /\ google'.own[x].cut \/ google'.own[x].stamp = google.clock + 1
  <2>1. CASE Kind(n) = "update"
    <3>1. WriteOccurrence(x, v)
      BY <1>2, <1>4, <1>5, <2>1 DEF Sends, Value
    <3> QED
      BY <3>1, WriteOccurrenceGrows DEF SeriesOK
  <2>2. CASE Kind(n) = "delete"
    <3>1. CutOccurrence(x)
      BY <1>5, <2>2 DEF Sends
    <3> QED
      BY <3>1, CutOccurrenceGrows DEF SeriesOK
  <2> QED
    BY <1>2, <2>1, <2>2
<1>7. Puts(n, "occurrence")
  BY <1>1, <1>6 DEF Puts
<1>8. WritesOK'
  BY <1>6, <1>7, WritesMore
<1>9. ValuesOK'
  BY <1>4, <1>5, <1>6, <1>7, ValuesMore
<1>10. CoverOK'
  BY <1>6, <1>7, CoverMore
<1>11. ~Alive(x)' \/ EtagOf(x)' = google.clock + 1
  <2>1. CASE google'.own[x].cut
    BY <2>1 DEF Alive
  <2>2. CASE google'.own[x].stamp = google.clock + 1
    <3>1. /\ google'.series[x[1]].stamp \in Nat /\ google'.series[x[1]].stamp <= google.clock + 1
          /\ google.clock \in Nat
      BY <1>6, BoundsTyped, GoogleTyped DEF SeriesOK, Grows, Typed, SeriesRecord
    <3>2. EtagOf(x)' = IF google'.own[x].stamp > google'.series[x[1]].stamp THEN google'.own[x].stamp
                       ELSE google'.series[x[1]].stamp
      BY DEF EtagOf, Master
    <3> QED
      BY <2>2, <3>1, <3>2
  <2> QED
    BY <1>6, <2>1, <2>2
<1> QED
  BY <1>3, <1>5, <1>6, <1>7, <1>8, <1>9, <1>10, <1>11 DEF Landed, SeriesOK, QueueOK

LEMMA LandedFacts ==
  ASSUME SeriesOK, NEW n \in OpIds, NEW what, Landed(n, what)
  PROVE  /\ Busy(n) /\ what \in {"occurrence", "series", "trim", "tail"} /\ Did(n)' = Did(n) \cup {what}
         /\ Occ(n)' = Occ(n) /\ Kind(n)' = Kind(n) /\ ops' = ops /\ cycle' = cycle
         /\ (what # "trim" => Touched(n)')
<1>1. Puts(n, what) /\ Busy(n) /\ what \in {"occurrence", "series", "trim", "tail"}
      /\ ops' = ops /\ cycle' = cycle
  BY DEF Landed, Puts
<1>2. Did(n)' = Did(n) \cup {what} /\ Occ(n)' = Occ(n) /\ Kind(n)' = Kind(n)
  BY <1>1, DidMore, BusyFacts
<1>3. what # "trim" => Touched(n)'
  BY <1>1, <1>2 DEF Touched, Did
<1> QED
  BY <1>1, <1>2, <1>3

LEMMA LandedKeeps ==
  ASSUME SeriesOK, NEW n \in OpIds, NEW what, Landed(n, what), NEW job, Moved(n, job), job.at # "none",
         JobOK(n, job)', trouble' \in 0 .. MaxTrouble
  PROVE  SeriesOK'
  BY PutKeeps DEF Landed

LEMMA WritesLand ==
  ASSUME SeriesOK, NEW n \in OpIds, Writes(n), UNCHANGED <<rows, ops, cycle>>
  PROVE  \/ jobs[n].at = "trim" /\ Landed(n, "trim") /\ Kind(n) = "update" /\ Aim(jobs[n]) = "thisAndFollowing"
         \/ jobs[n].at = "insert" /\ Landed(n, "tail") /\ google'.series[n].there
         \/ /\ jobs[n].at = "send" /\ Aim(jobs[n]) = "allEvents"
            /\ Landed(n, "series") /\ "trim" \notin Did(n)
         \/ /\ jobs[n].at = "send" /\ Aim(jobs[n]) # "allEvents"
            /\ Landed(n, "occurrence") /\ "trim" \notin Did(n)
            /\ \A o \in Occurrences : o = Occ(n) => ~Alive(o)' \/ EtagOf(o)' = google.clock + 1
<1>1. Accepts(n) /\ (Trims(n) \/ Inserts(n) \/ Sends(n))
  BY DEF Writes
<1>2. CASE Trims(n)
  BY <1>2, TrimLands DEF Trims, At
<1>3. CASE Inserts(n)
  BY <1>1, <1>3, InsertLands DEF Inserts, At, Accepts
<1>4. CASE Sends(n) /\ Aim(jobs[n]) = "allEvents"
  BY <1>4, SeriesLands DEF Sends, At
<1>5. CASE Sends(n) /\ Aim(jobs[n]) # "allEvents"
  <2>1. jobs[n].at = "send"
    BY <1>5 DEF Sends, At
  <2>2. Alive(Occ(n))
    BY <1>1, <1>5, <2>1 DEF Accepts, At, ToMaster
  <2> QED
    BY <1>5, <2>1, <2>2, OccurrenceLands
<1> QED
  BY <1>1, <1>2, <1>3, <1>4, <1>5

LEMMA AnswerLostKeeps ==
  ASSUME SeriesOK, NEW n \in OpIds, AnswerLost(n)
  PROVE  SeriesOK'
<1>1. /\ Writes(n) /\ Goes(n, "unsure") /\ UNCHANGED <<rows, ops, cycle>>
      /\ trouble' \in 0 .. MaxTrouble
  BY RestTyped, BoundsTyped DEF SeriesOK, AnswerLost, Troubled
<1>2. PICK what : Landed(n, what)
  BY <1>1, WritesLand
<1>3. PICK job : Moved(n, job) /\ job.at = "unsure" /\ job.from = jobs[n].from
  BY <1>1, GoesTo DEF SeriesOK
<1>4. JobOK(n, job)'
  <2>1. (job.member => Kind(n) = "update") /\ Kind(n)' = Kind(n)
    BY <1>2, <1>3, LandedFacts, MovedAim
  <2> QED
    BY <1>3, <2>1 DEF JobOK, AimOK
<1> QED
  BY <1>1, <1>2, <1>3, <1>4, LandedKeeps

LEMMA WriteTakenKeeps ==
  ASSUME SeriesOK, NEW n \in OpIds, WriteTaken(n), trouble' = trouble
  PROVE  SeriesOK'
<1>1. Writes(n) /\ Taken(n) /\ UNCHANGED <<rows, ops, cycle>> /\ trouble' \in 0 .. MaxTrouble
  BY RestTyped DEF SeriesOK, WriteTaken
<1>2. CASE jobs[n].at = "trim" /\ Landed(n, "trim") /\ Kind(n) = "update" /\ Aim(jobs[n]) = "thisAndFollowing"
  <2>1. Goes(n, "insert")
    BY <1>1, <1>2 DEF Taken, At
  <2>2. PICK job : Moved(n, job) /\ job.at = "insert" /\ job.from = jobs[n].from
    BY <2>1, GoesTo DEF SeriesOK
  <2>3. Busy(n) /\ Did(n)' = Did(n) \cup {"trim"} /\ Kind(n)' = Kind(n) /\ ops' = ops
    BY <1>2, LandedFacts
  <2>4. Aim(job)' = "thisAndFollowing"
    BY <1>2, <2>2, <2>3, MovedAim DEF Aim
  <2>5. JobOK(n, job)'
    BY <1>2, <2>2, <2>3, <2>4 DEF JobOK, AimOK
  <2> QED
    BY <1>1, <1>2, <2>2, <2>5, LandedKeeps
<1>3. ASSUME NEW what \in {"tail", "series"}, Landed(n, what), Answers(n, "scoped", Desired(n)),
             "trim" \in Did(n) => google'.series[n].there
      PROVE  SeriesOK'
  <2>1. Busy(n) /\ Did(n)' = Did(n) \cup {what} /\ Kind(n)' = Kind(n) /\ ops' = ops /\ Touched(n)'
    BY <1>3, LandedFacts
  <2>2. PICK seen \in EventRow : seen = Desired(n) /\ seen.etag = 0
    BY <2>1, DesiredTyped
  <2>3. PICK job : /\ Moved(n, job) /\ job.at = "answered" /\ job.from = jobs[n].from
                   /\ job.answer = "scoped" /\ job.seen = seen
    BY <1>3, <2>2, AnswersTo DEF SeriesOK
  <2>4. job.member => Kind(n) = "update"
    BY <2>1, <2>3, MovedAim
  <2>5. DoneOK(n)' /\ ("trim" \in Did(n)' => google'.series[n].there)
    BY <1>3, <2>1 DEF DoneOK
  <2>6. AimOK(n, job)'
    BY <2>1, <2>3, <2>4 DEF AimOK
  <2>7. AnswerOK(n, job)'
    BY <2>2, <2>3, <2>5 DEF AnswerOK, SeenOK
  <2> QED
    BY <1>1, <1>3, <2>3, <2>6, <2>7, LandedKeeps DEF JobOK
<1>4. CASE jobs[n].at = "insert" /\ Landed(n, "tail") /\ google'.series[n].there
  <2>1. Answers(n, "scoped", Desired(n))
    BY <1>1, <1>4 DEF Taken, At
  <2> QED
    BY <1>3, <1>4, <2>1
<1>5. CASE /\ jobs[n].at = "send" /\ Aim(jobs[n]) = "allEvents"
           /\ Landed(n, "series") /\ "trim" \notin Did(n)
  <2>1. Answers(n, "scoped", Desired(n))
    BY <1>1, <1>5 DEF Taken, At, ToMaster
  <2> QED
    BY <1>3, <1>5, <2>1
<1>6. CASE /\ jobs[n].at = "send" /\ Aim(jobs[n]) # "allEvents"
           /\ Landed(n, "occurrence") /\ "trim" \notin Did(n)
           /\ \A o \in Occurrences : o = Occ(n) => ~Alive(o)' \/ EtagOf(o)' = google.clock + 1
  <2>1. Busy(n) /\ Did(n)' = Did(n) \cup {"occurrence"} /\ Kind(n)' = Kind(n) /\ ops' = ops /\ Touched(n)'
        /\ cycle' = cycle
    BY <1>6, LandedFacts
  <2>2. google.clock \in Nat /\ cycle.token \in Nat /\ cycle.token <= google.clock
    BY GoogleTyped, RestTyped DEF SeriesOK, StampsOK
  <2>3. Answers(n, "ok", [here |-> TRUE, val |-> Value(n), etag |-> google.clock + 1, member |-> TRUE])
    BY <1>1, <1>6 DEF Taken, At, ToMaster, Tick
  <2>4. PICK seen : seen = [here |-> TRUE, val |-> Value(n), etag |-> google.clock + 1, member |-> TRUE]
    OBVIOUS
  <2>5. seen \in EventRow
    BY <2>1, <2>2, <2>4, BusyFacts DEF Value, EventRow
  <2>6. PICK job : /\ Moved(n, job) /\ job.at = "answered" /\ job.from = jobs[n].from
                   /\ job.answer = "ok" /\ job.seen = seen
    BY <2>3, <2>4, <2>5, AnswersTo DEF SeriesOK
  <2>7. job.member => Kind(n) = "update"
    BY <2>1, <2>6, MovedAim
  <2>8. AimOK(n, job)'
    BY <2>1, <2>6, <2>7 DEF AimOK
  <2>9. PICK o \in Occurrences : o = Occ(n) /\ o = Occ(n)'
    BY <1>6, <2>1, BusyFacts, LandedFacts
  <2>10. SeenOK(o, seen)'
    BY <1>6, <2>1, <2>2, <2>9 DEF SeenOK
  <2>11. AnswerOK(n, job)'
    BY <1>6, <2>1, <2>6, <2>9, <2>10 DEF AnswerOK, DoneOK
  <2> QED
    BY <1>1, <1>6, <2>6, <2>8, <2>11, LandedKeeps DEF JobOK
<1> QED
  BY <1>1, <1>2, <1>4, <1>5, <1>6, WritesLand

-----------------------------------------------------------------------------
(* An outcome is recorded: the operations of the upload leave it together, *)
(* and no other is in doubt for the occurrence.                            *)

LEMMA AloneInDoubt ==
  ASSUME SeriesOK, NEW n \in OpIds, Busy(n), NEW k \in Of(Occ(n))
  PROVE  /\ Doubtful(k) => k \in Group(n)
         /\ k < n => State(k) = "succeeded"
         /\ ~Lost(k)
         /\ k \notin Group(n) => State(k) \in {"pending", "succeeded"}
<1>1. /\ n \in Positions /\ n \in Nat /\ State(n) = "syncing" /\ Lead(n) = n /\ Doubtful(n) /\ n \in Group(n)
  BY BusyFacts
<1>2. k \in Positions /\ Occ(k) = Occ(n) /\ n \in Of(Occ(k)) /\ k \in Nat
  BY <1>1, SeriesOpsTyped DEF SeriesOK
<1>3. k < n => State(k) = "succeeded"
  BY <1>1 DEF SeriesOK, GroupsOK
<1>4. ~Lost(k)
  <2>1. ASSUME Lost(k), n < k PROVE FALSE
    BY <1>1, <1>2, <2>1 DEF SeriesOK, QueueOK, Lost
  <2>2. k = n => ~Lost(k)
    BY <1>1 DEF Lost
  <2> QED
    BY <1>1, <1>2, <1>3, <2>1, <2>2 DEF Lost
<1>5. ASSUME Doubtful(k) PROVE k \in Group(n)
  <2>1. CASE k < n
    BY <1>3, <1>5, <2>1 DEF Doubtful
  <2>2. CASE k = n
    BY <1>1, <2>2
  <2>3. CASE n < k
    <3>1. Lead(k) \in Nat
      BY <1>2, SeriesOpsTyped, BoundsTyped DEF SeriesOK
    <3>2. Lead(n) = Lead(k)
      BY <1>1, <1>2, <1>5, <2>3, <3>1 DEF SeriesOK, GroupsOK
    <3> QED
      BY <1>1, <1>2, <1>5, <3>2 DEF Group
  <2> QED
    BY <1>1, <1>2, <2>1, <2>2, <2>3
<1>6. State(k) \in ActiveStates \cup {"succeeded"}
  BY <1>2, SeriesOpsTyped DEF SeriesOK
<1> QED
  BY <1>3, <1>4, <1>5, <1>6 DEF Doubtful, Lost, ActiveStates

\* What n leads is in state s, and what waits behind it may be in conflict.
Settled(n, s, lead) ==
  /\ n \in OpIds /\ Busy(n)
  /\ s \in {"pending", "ambiguous", "failed", "conflict", "succeeded"} /\ lead \in {0, n}
  /\ ops' \in Seq(Op) /\ Len(ops') = Len(ops)
  /\ \A k \in Positions : /\ ops'[k].occ = ops[k].occ /\ ops'[k].kind = ops[k].kind
                          /\ ops'[k].scope = ops[k].scope
                          /\ k \in Group(n) => ops'[k].state = s /\ ops'[k].lead = lead
                          /\ k \notin Group(n) => ops'[k].lead = ops[k].lead
                          /\ \/ k \in Group(n)
                             \/ ops'[k].state = ops[k].state
                             \/ /\ k \in Of(Occ(n)) /\ ops[k].state = "pending" /\ ops'[k].state = "conflict"
  /\ jobs' = [jobs EXCEPT ![n] = NoJob] /\ UNCHANGED <<google, cycle, history>>

LEMMA SettledFacts ==
  ASSUME SeriesOK, NEW n, NEW s, NEW lead, Settled(n, s, lead)
  PROVE  /\ Positions' = Positions
         /\ \A k \in Positions :
              /\ Occ(k)' = Occ(k) /\ Kind(k)' = Kind(k) /\ Did(k)' = Did(k)
              /\ k \in Group(n) => State(k)' = s /\ Lead(k)' = lead
              /\ k \notin Group(n) => Lead(k)' = Lead(k)
              /\ \/ k \in Group(n)
                 \/ State(k)' = State(k)
                 \/ k \in Of(Occ(n)) /\ State(k) = "pending" /\ State(k)' = "conflict"
         /\ \A o : Of(o)' = Of(o)
         /\ \A m \in OpIds : m # n => jobs'[m] = jobs[m] /\ (Busy(m)' <=> Busy(m))
         /\ ~Busy(n)' /\ jobs' \in [OpIds -> Job]
         /\ \A k \in OpIds : Did(k)' = Did(k)
         /\ \A m \in OpIds : m # n => Group(m)' = Group(m)
         /\ s = "ambiguous" /\ lead = n => Group(n)' = Group(n)
<1>1. Positions' = Positions
  BY DEF Settled, Positions
<1>2. ASSUME NEW k \in Positions
      PROVE  /\ Occ(k)' = Occ(k) /\ Kind(k)' = Kind(k) /\ Did(k)' = Did(k)
             /\ k \in Group(n) => State(k)' = s /\ Lead(k)' = lead
             /\ k \notin Group(n) => Lead(k)' = Lead(k)
             /\ \/ k \in Group(n)
                \/ State(k)' = State(k)
                \/ k \in Of(Occ(n)) /\ State(k) = "pending" /\ State(k)' = "conflict"
  BY DEF Settled, Occ, Kind, Did, State, Lead
<1>3. \A o : Of(o)' = Of(o)
  BY <1>1, <1>2 DEF Of, Occ
<1>4. jobs \in [OpIds -> Job] /\ n \in OpIds /\ jobs' = [jobs EXCEPT ![n] = NoJob]
  BY RestTyped DEF SeriesOK, Settled
<1>5. NoJob \in Job
  BY BoundsTyped DEF NoJob, Job, NoEventRow, EventRow
<1>6. /\ \A m \in OpIds : m # n => jobs'[m] = jobs[m] /\ (Busy(m)' <=> Busy(m))
      /\ ~Busy(n)' /\ jobs' \in [OpIds -> Job]
  BY <1>4, <1>5 DEF Busy, NoJob
<1>7. \A k \in OpIds : Did(k)' = Did(k)
  BY DEF Did, Settled
<1>8. ASSUME NEW m \in OpIds, m # n PROVE Group(m)' = Group(m)
  <2>1. \A k \in Group(n) : Lead(k) = n
    BY DEF Group
  <2>2. ASSUME NEW k \in Positions PROVE Doubtful(k)' /\ Lead(k)' = m <=> Doubtful(k) /\ Lead(k) = m
    <3>1. CASE k \in Group(n)
      BY <1>2, <1>8, <2>1, <3>1, BoundsTyped DEF Settled
    <3>2. CASE k \notin Group(n)
      BY <1>2, <3>2 DEF Doubtful
    <3> QED
      BY <3>1, <3>2
  <2> QED
    BY <1>1, <2>2 DEF Group
<1>9. ASSUME s = "ambiguous", lead = n PROVE Group(n)' = Group(n)
  <2>1. ASSUME NEW k \in Positions PROVE Doubtful(k)' /\ Lead(k)' = n <=> k \in Group(n)
    <3>1. CASE k \in Group(n)
      BY <1>2, <1>9, <3>1 DEF Doubtful
    <3>2. CASE k \notin Group(n)
      BY <1>2, <3>2 DEF Doubtful, Group
    <3> QED
      BY <3>1, <3>2
  <2> QED
    BY <1>1, <2>1 DEF Group
<1> QED
  BY <1>1, <1>2, <1>3, <1>6, <1>7, <1>8, <1>9

LEMMA SettledGroups ==
  ASSUME SeriesOK, NEW n, NEW s, NEW lead, Settled(n, s, lead), s = "ambiguous" => lead = n
  PROVE  GroupsOK'
<1>1. /\ Positions' = Positions
      /\ \A k \in Positions :
           /\ Occ(k)' = Occ(k) /\ Kind(k)' = Kind(k)
           /\ k \in Group(n) => State(k)' = s /\ Lead(k)' = lead
           /\ k \notin Group(n) => Lead(k)' = Lead(k)
           /\ \/ k \in Group(n)
              \/ State(k)' = State(k)
              \/ k \in Of(Occ(n)) /\ State(k) = "pending" /\ State(k)' = "conflict"
      /\ \A o : Of(o)' = Of(o)
  BY SettledFacts
<1>2. n \in OpIds /\ Busy(n) /\ s \in {"pending", "ambiguous", "failed", "conflict", "succeeded"}
  BY DEF Settled
<1>3. /\ n \in Positions /\ n \in Nat /\ n \in Group(n)
      /\ \A k \in Group(n) : /\ k \in Positions /\ Occ(k) = Occ(n) /\ k \in Of(Occ(n)) /\ Lead(k) = n
                             /\ n <= k /\ (k # n => Kind(k) = "update") /\ Doubtful(k)
  BY <1>2, BusyFacts
<1>4. SUFFICES ASSUME NEW k \in Positions, Doubtful(k)'
               PROVE  /\ Lead(k)' \in Of(Occ(k)) /\ Lead(k)' <= k
                      /\ k # Lead(k)' => Kind(k) = "update"
                      /\ \A j \in Of(Occ(k)) : j < k =>
                           IF j < Lead(k)' THEN State(j)' = "succeeded"
                           ELSE State(j)' = State(k)' /\ Lead(j)' = Lead(k)'
  BY <1>1 DEF GroupsOK
<1>5. CASE k \in Group(n)
  <2>1. s = "ambiguous" /\ lead = n /\ Lead(k)' = n /\ State(k)' = s
    BY <1>1, <1>2, <1>4, <1>5 DEF Doubtful
  <2>2. ASSUME NEW j \in Of(Occ(k)), j < k
        PROVE  IF j < n THEN State(j)' = "succeeded" ELSE State(j)' = s /\ Lead(j)' = n
    <3>1. j \in Positions /\ j \in Of(Occ(n)) /\ j \in Nat /\ k \in Nat
      BY <1>3, <1>5, SeriesOpsTyped DEF SeriesOK
    <3>2. IF j < n THEN State(j) = "succeeded" ELSE State(j) = State(k) /\ Lead(j) = n
      BY <1>3, <1>5, <2>2, <3>1 DEF SeriesOK, GroupsOK
    <3>3. CASE j < n
      BY <1>1, <1>3, <3>1, <3>2, <3>3 DEF Doubtful
    <3>4. CASE ~(j < n)
      <4>1. j \in Group(n)
        BY <1>3, <1>5, <3>1, <3>2, <3>4 DEF Group, Doubtful
      <4> QED
        BY <1>1, <2>1, <3>1, <3>4, <4>1
    <3> QED
      BY <3>3, <3>4
  <2> QED
    BY <1>3, <1>5, <2>1, <2>2
<1>6. CASE k \notin Group(n)
  <2>1. Doubtful(k) /\ State(k)' = State(k) /\ Lead(k)' = Lead(k)
    BY <1>1, <1>4, <1>6 DEF Doubtful
  <2>2. k \notin Of(Occ(n)) /\ Occ(k) # Occ(n)
    <3>1. k \notin Of(Occ(n))
      BY <1>2, <1>6, <2>1, AloneInDoubt
    <3> QED
      BY <3>1, SeriesOpsTyped DEF SeriesOK
  <2>3. ASSUME NEW j \in Of(Occ(k)) PROVE State(j)' = State(j) /\ Lead(j)' = Lead(j)
    <3>1. j \in Positions /\ Occ(j) = Occ(k)
      BY SeriesOpsTyped DEF SeriesOK
    <3>2. j \notin Group(n) /\ j \notin Of(Occ(n))
      BY <1>3, <2>2, <3>1, SeriesOpsTyped DEF SeriesOK
    <3> QED
      BY <1>1, <3>1, <3>2
  <2>4. /\ Lead(k) \in Of(Occ(k)) /\ Lead(k) <= k
        /\ k # Lead(k) => Kind(k) = "update"
        /\ \A j \in Of(Occ(k)) : j < k =>
             IF j < Lead(k) THEN State(j) = "succeeded"
             ELSE State(j) = State(k) /\ Lead(j) = Lead(k)
    BY <2>1 DEF SeriesOK, GroupsOK
  <2> QED
    BY <2>1, <2>3, <2>4
<1> QED
  BY <1>5, <1>6

LEMMA SettledJobs ==
  ASSUME SeriesOK, NEW n, NEW s, NEW lead, Settled(n, s, lead)
  PROVE  JobsOK' /\ StepsOK'
<1>1. /\ Positions' = Positions
      /\ \A k \in Positions :
           /\ Occ(k)' = Occ(k) /\ Kind(k)' = Kind(k) /\ Did(k)' = Did(k)
           /\ k \in Group(n) => State(k)' = s /\ Lead(k)' = lead
           /\ k \notin Group(n) => Lead(k)' = Lead(k)
           /\ \/ k \in Group(n)
              \/ State(k)' = State(k)
              \/ k \in Of(Occ(n)) /\ State(k) = "pending" /\ State(k)' = "conflict"
      /\ \A o : Of(o)' = Of(o)
      /\ \A m \in OpIds : m # n => jobs'[m] = jobs[m] /\ (Busy(m)' <=> Busy(m))
      /\ ~Busy(n)'
      /\ \A m \in OpIds : m # n => Group(m)' = Group(m)
  BY SettledFacts
<1>2. n \in OpIds /\ Busy(n) /\ s # "syncing" /\ cycle' = cycle /\ google' = google /\ history' = history
  BY DEF Settled
<1>3. \A k \in Group(n) : k \in Positions /\ Lead(k) = n
  BY DEF Group
<1>4. cycle'.at = "open" => \A m \in OpIds : ~Busy(m)'
  BY <1>2 DEF SeriesOK, JobsOK
<1>5. ASSUME NEW k \in Positions, NEW m \in OpIds, State(k)' = "syncing", Lead(k)' = m PROVE Busy(m)'
  <2>1. k \notin Group(n) /\ State(k) = "syncing" /\ Lead(k) = m
    BY <1>1, <1>2, <1>5
  <2>2. m # n
    BY <2>1 DEF Group, Doubtful
  <2> QED
    BY <1>1, <2>1, <2>2 DEF SeriesOK, JobsOK
<1>6. ASSUME NEW m \in OpIds, Busy(m)'
      PROVE  /\ m # n /\ Busy(m) /\ jobs'[m] = jobs[m]
             /\ m \in Positions /\ State(m)' = "syncing" /\ Lead(m)' = m /\ jobs'[m].members = Group(m)'
  <2>1. m # n /\ Busy(m) /\ jobs'[m] = jobs[m] /\ Group(m)' = Group(m)
    BY <1>1, <1>6
  <2>2. m \in Positions /\ State(m) = "syncing" /\ Lead(m) = m /\ jobs[m].members = Group(m)
    BY <2>1 DEF SeriesOK, JobsOK
  <2>3. m \notin Group(n)
    BY <1>3, <2>1, <2>2
  <2> QED
    BY <1>1, <2>1, <2>2, <2>3
<1>7. JobsOK'
  BY <1>1, <1>4, <1>5, <1>6 DEF JobsOK
<1>8. StepsOK'
  <2> SUFFICES ASSUME NEW m \in OpIds, Busy(m)' PROVE JobOK(m, jobs[m])'
    BY DEF StepsOK
  <2>1. Busy(m) /\ jobs'[m] = jobs[m] /\ m \in Positions
    BY <1>6
  <2>2. JobOK(m, jobs[m]) /\ jobs[m].members = Group(m) /\ Last(Group(m)) \in Group(m)
        /\ Group(m) \subseteq Positions
    BY <2>1, BusyFacts
  <2>3. PICK j : j = jobs[m]
    OBVIOUS
  <2>4. Aim(j)' = Aim(j)
    BY <2>2, <2>3 DEF Aim, Settled
  <2>5. Occ(m)' = Occ(m) /\ Kind(m)' = Kind(m) /\ Did(m)' = Did(m)
    BY <1>1, <2>1
  <2>6. AimOK(m, j)'
    BY <2>2, <2>3, <2>4, <2>5 DEF AimOK, JobOK
  <2>7. AnswerOK(m, j) => AnswerOK(m, j)'
    BY <1>2, <2>5 DEF AnswerOK, DoneOK, Touched, SeenOK, Alive, Master, EtagOf, ValueOf, Did
  <2> QED
    BY <2>1, <2>2, <2>3, <2>6, <2>7 DEF JobOK
<1> QED
  BY <1>7, <1>8

LEMMA SettledWrites ==
  ASSUME SeriesOK, NEW n, NEW s, NEW lead, Settled(n, s, lead), s = "ambiguous" => lead = n,
         s = "pending" => Did(n) = {}
  PROVE  WritesOK' /\ ValuesOK'
<1>1. /\ Positions' = Positions
      /\ \A k \in Positions :
           /\ Occ(k)' = Occ(k) /\ Kind(k)' = Kind(k) /\ Did(k)' = Did(k)
           /\ k \in Group(n) => State(k)' = s /\ Lead(k)' = lead
           /\ k \notin Group(n) => Lead(k)' = Lead(k)
           /\ \/ k \in Group(n)
              \/ State(k)' = State(k)
              \/ k \in Of(Occ(n)) /\ State(k) = "pending" /\ State(k)' = "conflict"
      /\ \A o : Of(o)' = Of(o)
      /\ \A k \in OpIds : Did(k)' = Did(k)
      /\ \A m \in OpIds : m # n => Group(m)' = Group(m)
      /\ s = "ambiguous" /\ lead = n => Group(n)' = Group(n)
  BY SettledFacts
<1>2. n \in OpIds /\ Busy(n) /\ google' = google /\ history' = history
      /\ \A k \in Positions : ops'[k].scope = ops[k].scope
      /\ s \in {"pending", "ambiguous", "failed", "conflict", "succeeded"}
  BY DEF Settled
<1>3. n \in Positions /\ n \in Group(n)
      /\ \A k \in Group(n) : k \in Positions /\ Lead(k) = n /\ Did(k) = Did(n) /\ Doubtful(k)
  BY <1>2, BusyFacts
<1>4. Positions \subseteq OpIds
  BY SeriesOpsTyped DEF SeriesOK
<1>5. ASSUME NEW k \in OpIds, k \notin Positions \/ State(k)' = "pending" PROVE Did(k)' = {}
  <2>1. CASE k \in Group(n)
    BY <1>1, <1>3, <1>5, <2>1
  <2>2. CASE k \notin Group(n)
    BY <1>1, <1>5, <2>2 DEF SeriesOK, WritesOK
  <2> QED
    BY <2>1, <2>2
<1>6. ASSUME NEW k \in Positions, Doubtful(k)' PROVE Did(k) = Did(Lead(k)') /\ Lead(k)' \in OpIds
  <2>1. CASE k \in Group(n)
    BY <1>1, <1>2, <1>3, <1>6, <2>1 DEF Doubtful
  <2>2. CASE k \notin Group(n)
    <3>1. Doubtful(k) /\ Lead(k)' = Lead(k)
      BY <1>1, <1>6, <2>2 DEF Doubtful
    <3> QED
      BY <1>4, <3>1, SeriesOpsTyped DEF SeriesOK, WritesOK, GroupsOK
  <2> QED
    BY <2>1, <2>2
<1>7. ASSUME NEW k \in Positions, Doubtful(k)', Lead(k)' = k, "trim" \in Did(k)
      PROVE  ops[Last(Group(k)')].scope = "thisAndFollowing" /\ Last(Group(k)') \in Positions
  <2>1. Doubtful(k) /\ Lead(k) = k /\ Group(k)' = Group(k)
    <3>1. CASE k \in Group(n)
      BY <1>1, <1>2, <1>3, <1>7, <3>1 DEF Doubtful
    <3>2. CASE k \notin Group(n)
      BY <1>1, <1>3, <1>4, <1>7, <3>2 DEF Doubtful
    <3> QED
      BY <3>1, <3>2
  <2>2. ops[Last(Group(k))].scope = "thisAndFollowing"
    BY <1>7, <2>1 DEF SeriesOK, WritesOK
  <2>3. Last(Group(k)) \in Group(k)
    <3>1. Group(k) \subseteq 0 .. Len(ops) /\ Len(ops) \in Nat
      BY SeriesOpsTyped DEF SeriesOK, Group
    <3>2. k \in Group(k)
      BY <2>1 DEF Group
    <3> QED
      BY <3>1, <3>2, LastIsLast
  <2> QED
    BY <2>1, <2>2, <2>3 DEF Group
<1>8. (\A k \in Positions : Doubtful(k) => Did(k) = Did(Lead(k)))'
  BY <1>1, <1>2, <1>6 DEF Did
<1>9. (\A k \in Positions : "trim" \in Did(k) =>
         /\ Kind(k) = "update"
         /\ \A s_1 \in Master(Occ(k)).slots : s_1 < Occ(k)[2]
         /\ Doubtful(k) /\ Lead(k) = k => ops[Last(Group(k))].scope = "thisAndFollowing")'
  <2> SUFFICES ASSUME NEW k \in Positions, "trim" \in Did(k)'
               PROVE  /\ Kind(k)' = "update"
                      /\ \A s_1 \in google'.series[Occ(k)'[1]].slots : s_1 < Occ(k)'[2]
                      /\ Doubtful(k)' /\ Lead(k)' = k => ops'[Last(Group(k)')].scope = "thisAndFollowing"
    BY <1>1 DEF Master
  <2> QED
    BY <1>1, <1>2, <1>7 DEF SeriesOK, WritesOK, Master
<1>10. (\A k \in OpIds : google.series[k].there =>
          {"trim", "tail"} \subseteq Did(k) /\ \A s_1 \in google.series[k].slots : s_1 >= Occ(k)[2])'
  <2> SUFFICES ASSUME NEW k \in OpIds, google'.series[k].there
               PROVE  {"trim", "tail"} \subseteq Did(k)' /\ \A s_1 \in google'.series[k].slots : s_1 >= Occ(k)'[2]
    OBVIOUS
  <2>1. k \in Positions
    BY <1>2, BoundsTyped DEF SeriesOK, QueueOK
  <2> QED
    BY <1>1, <1>2, <2>1 DEF SeriesOK, WritesOK
<1>11. WritesOK'
  BY <1>1, <1>5, <1>8, <1>9, <1>10 DEF WritesOK
<1>12. ValuesOK'
  <2>1. ASSUME NEW o \in Occurrences, NEW k \in OpIds, google'.own[o].val = k
        PROVE  k \in Positions /\ Occ(k)' = o /\ "occurrence" \in Did(k)'
    BY <1>1, <1>2, <2>1 DEF SeriesOK, ValuesOK
  <2>2. ASSUME NEW r \in SeriesIds, NEW k \in OpIds, google'.series[r].val = k
        PROVE  /\ k \in Positions /\ Did(k)' \cap {"series", "tail"} # {}
               /\ \/ ops'[k].scope = "allEvents" /\ Occ(k)'[1] = r
                  \/ ops'[k].scope = "thisAndFollowing" /\ r \in Of(Occ(k))
    BY <1>1, <1>2, <2>2 DEF SeriesOK, ValuesOK
  <2> QED
    BY <1>1, <2>1, <2>2 DEF ValuesOK
<1> QED
  BY <1>11, <1>12

LEMMA SettledCover ==
  ASSUME SeriesOK, NEW n, NEW s, NEW lead, Settled(n, s, lead), s = "ambiguous" => lead = n,
         s = "succeeded" => /\ "trim" \in Did(n) => google.series[n].there
                            /\ \A k \in Group(n) : DoneOK(k)
  PROVE  CoverOK' /\ OutcomesOK'
<1>1. /\ Positions' = Positions
      /\ \A k \in Positions :
           /\ Occ(k)' = Occ(k) /\ Kind(k)' = Kind(k) /\ Did(k)' = Did(k)
           /\ k \in Group(n) => State(k)' = s /\ Lead(k)' = lead
           /\ k \notin Group(n) => Lead(k)' = Lead(k)
           /\ \/ k \in Group(n)
              \/ State(k)' = State(k)
              \/ k \in Of(Occ(n)) /\ State(k) = "pending" /\ State(k)' = "conflict"
  BY SettledFacts
<1>2. n \in OpIds /\ Busy(n) /\ google' = google /\ history' = history
      /\ s \in {"pending", "ambiguous", "failed", "conflict", "succeeded"}
  BY DEF Settled
<1>3. n \in Positions /\ n \in Group(n)
      /\ \A k \in Group(n) : k \in Positions /\ Lead(k) = n /\ Did(k) = Did(n) /\ Doubtful(k)
  BY <1>2, BusyFacts
<1>4. ASSUME NEW m \in Positions, NEW r, NEW x, Took(m, r, x) PROVE Took(m, r, x)'
  <2>1. CASE google.series[m].there
    BY <1>1, <1>2, <1>4, <2>1 DEF Took
  <2>2. CASE ~google.series[m].there /\ m \in Group(n)
    <3>1. m = n /\ "trim" \in Did(n)
      BY <1>3, <1>4, <2>2 DEF Took
    <3>2. s # "succeeded"
      BY <2>2, <3>1
    <3>3. Doubtful(m)' => Lead(m)' = m
      BY <1>1, <1>2, <2>2, <3>1 DEF Doubtful
    <3> QED
      BY <1>1, <1>2, <1>4, <2>2, <3>2, <3>3 DEF Took
  <2>3. CASE ~google.series[m].there /\ m \notin Group(n)
    <3>1. State(m)' # "succeeded" /\ (Doubtful(m)' => Lead(m)' = m)
      BY <1>1, <1>4, <2>3 DEF Took, Doubtful
    <3> QED
      BY <1>1, <1>2, <1>4, <2>3, <3>1 DEF Took
  <2> QED
    BY <2>1, <2>2, <2>3
<1>5. CoverOK'
  <2> SUFFICES ASSUME NEW r \in SeriesIds, NEW x \in Slots, google'.series[r].there, r = 0 \/ x >= Occ(r)'[2]
               PROVE  x \in google'.series[r].slots \/ \E m \in Positions : Took(m, r, x)'
    BY <1>1 DEF CoverOK
  <2>1. r = 0 \/ x >= Occ(r)[2]
    BY <1>1, <1>2 DEF SeriesOK, QueueOK
  <2>2. x \in google.series[r].slots \/ \E m \in Positions : Took(m, r, x)
    BY <1>2, <2>1 DEF SeriesOK, CoverOK
  <2> QED
    BY <1>2, <1>4, <2>2
<1>6. OutcomesOK'
  <2> SUFFICES ASSUME NEW k \in Positions, State(k)' = "succeeded" PROVE DoneOK(k)'
    BY <1>1 DEF OutcomesOK
  <2>1. DoneOK(k)
    BY <1>1 DEF SeriesOK, OutcomesOK
  <2>2. Occ(k)' = Occ(k) /\ Kind(k)' = Kind(k)
    BY <1>1
  <2> QED
    BY <1>2, <2>1, <2>2 DEF DoneOK, Touched, Alive, Master
<1> QED
  BY <1>5, <1>6

LEMMA SettledKeeps ==
  ASSUME SeriesOK, NEW n, NEW s, NEW lead, Settled(n, s, lead), s = "ambiguous" => lead = n,
         s = "pending" => Did(n) = {},
         s = "succeeded" => /\ "trim" \in Did(n) => google.series[n].there
                            /\ \A k \in Group(n) : DoneOK(k),
         QueueOK', RowsOK', rows' \in [Occurrences -> EventRow], trouble' \in 0 .. MaxTrouble
  PROVE  SeriesOK'
<1>1. SeriesTypeOK'
  <2>1. jobs' \in [OpIds -> Job]
    BY SettledFacts
  <2>2. ops' \in Seq(Op) /\ Len(ops') <= MaxOps
    BY DEF Settled, SeriesOK, SeriesTypeOK
  <2> QED
    BY <2>1, <2>2 DEF SeriesOK, SeriesTypeOK, Settled
<1>2. StampsOK'
  BY DEF SeriesOK, StampsOK, Settled
<1>3. GroupsOK' /\ JobsOK' /\ StepsOK' /\ WritesOK' /\ ValuesOK' /\ CoverOK' /\ OutcomesOK'
  BY SettledGroups, SettledJobs, SettledWrites, SettledCover
<1> QED
  BY <1>1, <1>2, <1>3 DEF SeriesOK

-----------------------------------------------------------------------------
(* What the rows show while an upload is on its way, and once it is        *)
(* recorded.                                                               *)

\* The row of its occurrence, and the operations that have conflicted or failed.
LEMMA SettledQueue ==
  ASSUME SeriesOK, NEW n, NEW s, NEW lead, Settled(n, s, lead),
         \A o \in Occurrences : o # Occ(n) => rows'[o] = rows[o],
         rows'[Occ(n)].here =>
           \A k \in Of(Occ(n)) : Kind(k) = "delete" => k \notin Group(n) /\ State(k) \notin ActiveStates,
         \A j, k \in Of(Occ(n)) :
           j < k /\ State(k)' = "conflict" /\ State(k) = "pending" /\ k \notin Group(n)
             => State(j)' = "succeeded" \/ Lost(j)'
  PROVE  QueueOK'
<1>1. /\ Positions' = Positions
      /\ \A k \in Positions :
           /\ Occ(k)' = Occ(k) /\ Kind(k)' = Kind(k)
           /\ k \in Group(n) => State(k)' = s /\ Lead(k)' = lead
           /\ \/ k \in Group(n)
              \/ State(k)' = State(k)
              \/ k \in Of(Occ(n)) /\ State(k) = "pending" /\ State(k)' = "conflict"
      /\ \A o : Of(o)' = Of(o)
  BY SettledFacts
<1>2. n \in OpIds /\ Busy(n) /\ google' = google
      /\ s \in {"pending", "ambiguous", "failed", "conflict", "succeeded"}
  BY DEF Settled
<1>3. /\ n \in Positions /\ n \in Group(n) /\ n \in Nat /\ Occ(n) \in Occurrences /\ Master(Occ(n)).there
      /\ \A k \in Group(n) : k \in Positions /\ k \in Of(Occ(n)) /\ State(k) = "syncing" /\ n <= k
  BY <1>2, BusyFacts
<1>4. \A o \in Occurrences : rows'[o].here => google'.series[o[1]].there
  BY <1>2, <1>3 DEF SeriesOK, QueueOK, Master
<1>5. \A k \in Positions : Occ(k) \in Occurrences
  BY SeriesOpsTyped DEF SeriesOK
<1>6. ASSUME NEW k \in Positions, Kind(k) = "delete", State(k)' \in ActiveStates
      PROVE  ~rows'[Occ(k)].here /\ \A j \in Of(Occ(k)) : j <= k
  <2>1. State(k) \in ActiveStates
    BY <1>1, <1>3, <1>6 DEF ActiveStates
  <2>2. ~rows[Occ(k)].here /\ \A j \in Of(Occ(k)) : j <= k
    BY <1>6, <2>1 DEF SeriesOK, QueueOK
  <2>3. Occ(k) = Occ(n) => k \in Of(Occ(n))
    BY SeriesOpsTyped DEF SeriesOK
  <2>4. ~rows'[Occ(k)].here
    BY <1>5, <1>6, <2>1, <2>2, <2>3
  <2> QED
    BY <2>2, <2>4
<1>7. ASSUME NEW k \in Positions, Lost(k)', NEW j \in Of(Occ(k)), j < k
      PROVE  State(j)' = "succeeded" \/ Lost(j)'
  <2>1. j \in Positions /\ j \in Nat /\ k \in Nat /\ Occ(j) = Occ(k)
    BY SeriesOpsTyped DEF SeriesOK
  <2>2. CASE k \in Group(n)
    <3>1. j \in Of(Occ(n))
      BY <1>3, <2>1, <2>2, SeriesOpsTyped DEF SeriesOK
    <3>2. CASE j < n
      BY <1>1, <1>2, <1>3, <2>1, <3>1, <3>2, AloneInDoubt
    <3>3. CASE ~(j < n)
      <4>1. n <= j
        BY <1>3, <2>1, <3>3
      <4>2. Doubtful(k) /\ Lead(k) = n
        BY <2>2 DEF Group
      <4>3. State(j) = State(k)
        BY <1>7, <2>1, <3>3, <4>2 DEF SeriesOK, GroupsOK
      <4>4. j \in Group(n)
        BY <1>2, <3>1, <4>2, <4>3, AloneInDoubt DEF Doubtful
      <4> QED
        BY <1>1, <1>7, <2>1, <2>2, <4>4 DEF Lost
    <3> QED
      BY <3>2, <3>3
  <2>3. CASE k \notin Group(n) /\ State(k)' = State(k)
    <3>1. Lost(k)
      BY <1>7, <2>3 DEF Lost
    <3>2. State(j) = "succeeded" \/ Lost(j)
      BY <1>7, <3>1 DEF SeriesOK, QueueOK
    <3> QED
      BY <1>1, <1>3, <2>1, <3>2 DEF Lost
  <2>4. CASE k \notin Group(n) /\ k \in Of(Occ(n)) /\ State(k) = "pending" /\ State(k)' = "conflict"
    <3>1. j \in Of(Occ(n))
      BY <2>1, <2>4, SeriesOpsTyped DEF SeriesOK
    <3> QED
      BY <1>7, <2>4, <3>1
  <2> QED
    BY <1>1, <2>2, <2>3, <2>4
<1>8. (\A k \in Positions : Occ(k)[1] < k /\ google.series[Occ(k)[1]].there)'
  BY <1>1, <1>2 DEF SeriesOK, QueueOK
<1>9. (\A k \in Positions : Kind(k) = "delete" /\ State(k) \in ActiveStates =>
         ~rows[Occ(k)].here /\ \A j \in Of(Occ(k)) : j <= k)'
  BY <1>1, <1>6
<1>10. (\A k \in Positions : Lost(k) => \A j \in Of(Occ(k)) : j < k => State(j) = "succeeded" \/ Lost(j))'
  BY <1>1, <1>7
<1>11. google'.series[0].there /\ \A r \in SeriesIds : google'.series[r].there /\ r # 0 => r \in Positions
  BY <1>2 DEF SeriesOK, QueueOK
<1> QED
  BY <1>1, <1>4, <1>8, <1>9, <1>10, <1>11 DEF QueueOK, Master

LEMMA NotStuck ==
  ASSUME SeriesOK, NEW n \in OpIds, Busy(n)
  PROVE  ~Stuck(Occ(n)) /\ (Alive(Occ(n)) \/ EtagOf(Occ(n)) > cycle.token)
<1>1. n \in Positions /\ State(n) = "syncing" /\ n \in Of(Occ(n)) /\ Occ(n) \in Occurrences /\ n \in Group(n)
  BY BusyFacts
<1>2. ~Stuck(Occ(n))
  BY AloneInDoubt DEF Stuck
<1>3. State(n) \in ActiveStates
  BY <1>1 DEF ActiveStates
<1>4. Alive(Occ(n)) \/ ~(EtagOf(Occ(n)) <= cycle.token)
  BY <1>1, <1>2, <1>3 DEF SeriesOK, RowsOK
<1>5. EtagOf(Occ(n)) \in Nat /\ cycle.token \in Nat
  BY <1>1, GoogleTyped, RestTyped DEF SeriesOK
<1> QED
  BY <1>2, <1>4, <1>5

LEMMA SettledRows ==
  ASSUME SeriesOK, NEW n, NEW s, NEW lead, Settled(n, s, lead),
         \A o \in Occurrences : o # Occ(n) => rows'[o] = rows[o],
         rows'[Occ(n)].here => SeenOK(Occ(n), rows'[Occ(n)])
  PROVE  RowsOK'
<1>1. /\ Positions' = Positions
      /\ \A k \in Positions :
           /\ Occ(k)' = Occ(k)
           /\ \/ k \in Group(n)
              \/ State(k)' = State(k)
              \/ k \in Of(Occ(n)) /\ State(k) = "pending" /\ State(k)' = "conflict"
      /\ \A o : Of(o)' = Of(o)
  BY SettledFacts
<1>2. n \in OpIds /\ Busy(n) /\ google' = google /\ cycle' = cycle
  BY DEF Settled
<1>3. /\ Occ(n) \in Occurrences /\ \A k \in Group(n) : Occ(k) = Occ(n)
  BY <1>2, BusyFacts
<1>4. \A o : (Alive(o)' <=> Alive(o)) /\ EtagOf(o)' = EtagOf(o) /\ ValueOf(o)' = ValueOf(o)
  BY <1>2 DEF Alive, EtagOf, ValueOf, Master
<1>5. ASSUME NEW o \in Occurrences, rows'[o].here PROVE SeenOK(o, rows'[o])
  BY <1>5 DEF SeriesOK, RowsOK
<1>6. ASSUME NEW o \in Occurrences, ~Alive(o), EtagOf(o) <= cycle.token
      PROVE  /\ rows'[o].here => Stuck(o)'
             /\ \A k \in Of(o) : State(k)' \in ActiveStates => Stuck(o)'
  <2>1. o # Occ(n)
    <3>1. EtagOf(o) \in Nat /\ cycle.token \in Nat
      BY GoogleTyped, RestTyped DEF SeriesOK
    <3> QED
      BY <1>2, <1>6, <3>1, NotStuck
  <2>2. ASSUME NEW k \in Of(o) PROVE State(k)' = State(k)
    <3>1. k \in Positions /\ Occ(k) = o
      BY SeriesOpsTyped DEF SeriesOK
    <3>2. k \notin Group(n) /\ k \notin Of(Occ(n))
      BY <1>3, <2>1, <3>1, SeriesOpsTyped DEF SeriesOK
    <3> QED
      BY <1>1, <3>1, <3>2
  <2>3. Stuck(o)' <=> Stuck(o)
    BY <1>1, <2>2 DEF Stuck, Lost
  <2>4. /\ rows[o].here => Stuck(o)
        /\ \A k \in Of(o) : State(k) \in ActiveStates => Stuck(o)
    BY <1>6 DEF SeriesOK, RowsOK
  <2> QED
    BY <2>1, <2>2, <2>3, <2>4
<1>7. (\A o \in Occurrences : rows[o].here => SeenOK(o, rows[o]))'
  BY <1>2, <1>4, <1>5 DEF SeenOK
<1> QED
  BY <1>1, <1>2, <1>4, <1>6, <1>7 DEF RowsOK

\* The states InState gives.
LEMMA InStateTyped ==
  ASSUME SeriesTypeOK, NEW G, NEW s \in ActiveStates \cup {"succeeded"}, NEW lead \in SeriesIds
  PROVE  /\ InState(G, s, lead) \in Seq(Op) /\ Len(InState(G, s, lead)) = Len(ops)
         /\ \A k \in Positions :
              /\ InState(G, s, lead)[k].occ = ops[k].occ /\ InState(G, s, lead)[k].kind = ops[k].kind
              /\ InState(G, s, lead)[k].scope = ops[k].scope
              /\ k \in G => InState(G, s, lead)[k].state = s /\ InState(G, s, lead)[k].lead = lead
              /\ k \notin G => InState(G, s, lead)[k] = ops[k]
<1>1. \A k \in Positions : ops[k] \in Op
  BY SeriesOpsTyped
<1> DEFINE f == InState(G, s, lead)
           e(k) == IF k \in G THEN [ops[k] EXCEPT !.state = s, !.lead = lead] ELSE ops[k]
<1>2. \A k \in Positions : f[k] = e(k)
  BY DEF InState
<1>3. ASSUME NEW k \in Positions
      PROVE  /\ e(k) \in Op
             /\ e(k).occ = ops[k].occ /\ e(k).kind = ops[k].kind /\ e(k).scope = ops[k].scope
             /\ k \in G => e(k).state = s /\ e(k).lead = lead
             /\ k \notin G => e(k) = ops[k]
  <2>1. ops[k] \in Op
    BY <1>1
  <2>2. CASE k \in G
    BY <2>1, <2>2 DEF Op
  <2>3. CASE k \notin G
    BY <2>1, <2>3
  <2> QED
    BY <2>2, <2>3
<1>4. f = [k \in Positions |-> e(k)]
  BY DEF InState
<1> HIDE DEF f, e
<1>5. f \in [1 .. Len(ops) -> Op] /\ Len(ops) \in Nat
  BY <1>3, <1>4, SeriesOpsTyped
<1>6. f \in Seq(Op) /\ Len(f) = Len(ops)
  BY <1>5
<1> QED
  BY <1>2, <1>3, <1>6 DEF f

LEMMA RecordedSettles ==
  ASSUME SeriesOK, NEW n \in OpIds, Busy(n), Recorded(n),
         NEW s \in {"pending", "ambiguous", "failed", "conflict", "succeeded"}, NEW lead \in {0, n},
         ops' = InState(jobs[n].members, s, lead)
  PROVE  Settled(n, s, lead) /\ \A k \in Positions : k \notin Group(n) => ops'[k] = ops[k]
<1>1. jobs[n].members = Group(n)
  BY BusyFacts
<1>2. s \in ActiveStates \cup {"succeeded"} /\ lead \in SeriesIds
  BY BoundsTyped DEF ActiveStates
<1>3. /\ ops' \in Seq(Op) /\ Len(ops') = Len(ops)
      /\ \A k \in Positions :
           /\ ops'[k].occ = ops[k].occ /\ ops'[k].kind = ops[k].kind /\ ops'[k].scope = ops[k].scope
           /\ k \in Group(n) => ops'[k].state = s /\ ops'[k].lead = lead
           /\ k \notin Group(n) => ops'[k] = ops[k]
  BY <1>1, <1>2, InStateTyped DEF SeriesOK
<1> QED
  BY <1>3 DEF Settled, Recorded

\* The rows as they were.
LEMMA RowsStay ==
  ASSUME SeriesOK, NEW n, NEW s, NEW lead, Settled(n, s, lead), rows' = rows,
         \A k \in Positions : k \notin Group(n) => ops'[k] = ops[k]
  PROVE  QueueOK' /\ RowsOK'
<1>1. n \in OpIds /\ Busy(n)
  BY DEF Settled
<1>2. /\ Occ(n) \in Occurrences
      /\ \A k \in Group(n) : k \in Positions /\ State(k) = "syncing"
  BY <1>1, BusyFacts
<1>3. rows[Occ(n)].here =>
        \A k \in Of(Occ(n)) : Kind(k) = "delete" => k \notin Group(n) /\ State(k) \notin ActiveStates
  <2>1. ASSUME NEW k \in Of(Occ(n)), Kind(k) = "delete", State(k) \in ActiveStates PROVE ~rows[Occ(n)].here
    BY <2>1, SeriesOpsTyped DEF SeriesOK, QueueOK
  <2>2. \A k \in Group(n) : State(k) \in ActiveStates
    BY <1>2 DEF ActiveStates
  <2> QED
    BY <2>1, <2>2
<1>4. \A j, k \in Of(Occ(n)) :
        ~(j < k /\ State(k)' = "conflict" /\ State(k) = "pending" /\ k \notin Group(n))
  BY SeriesOpsTyped DEF SeriesOK, State
<1>5. QueueOK'
  BY <1>3, <1>4, SettledQueue
<1>6. rows[Occ(n)].here => SeenOK(Occ(n), rows[Occ(n)])
  BY <1>2 DEF SeriesOK, RowsOK
<1> QED
  BY <1>5, <1>6, SettledRows

LEMMA RecordRetryKeeps ==
  ASSUME SeriesOK, NEW n \in OpIds, RecordRetry(n), trouble' = trouble
  PROVE  SeriesOK'
<1>1. /\ Busy(n) /\ jobs[n].at = "answered" /\ jobs[n].answer = "retry" /\ rows' = rows
      /\ Recorded(n) /\ ops' = InState(jobs[n].members, jobs[n].from, n)
  BY DEF RecordRetry, Answered, At, Busy
<1>2. PICK s \in {"pending", "ambiguous"} : s = jobs[n].from
  BY RestTyped DEF SeriesOK
<1>3. Settled(n, s, n) /\ \A k \in Positions : k \notin Group(n) => ops'[k] = ops[k]
  BY <1>1, <1>2, RecordedSettles
<1>4. s = "pending" => Did(n) = {}
  BY <1>1, <1>2, BusyFacts DEF AimOK
<1>5. QueueOK' /\ RowsOK'
  BY <1>1, <1>3, RowsStay
<1> QED
  BY <1>1, <1>3, <1>4, <1>5, SettledKeeps, RestTyped DEF SeriesOK

LEMMA RecordFailureKeeps ==
  ASSUME SeriesOK, NEW n \in OpIds, RecordFailure(n), trouble' = trouble
  PROVE  SeriesOK'
<1>1. /\ Busy(n) /\ rows' = rows /\ Recorded(n) /\ ops' = InState(jobs[n].members, "failed", 0)
  BY DEF RecordFailure, Answered, At, Busy
<1>2. Settled(n, "failed", 0) /\ \A k \in Positions : k \notin Group(n) => ops'[k] = ops[k]
  BY <1>1, RecordedSettles
<1>3. QueueOK' /\ RowsOK'
  BY <1>1, <1>2, RowsStay
<1> QED
  BY <1>1, <1>2, <1>3, SettledKeeps, RestTyped DEF SeriesOK

\* A row that was projected shows no delete that is active.
LEMMA ProjectedRow ==
  ASSUME NEW list, NEW o, NEW snap \in EventRow
  PROVE  /\ Projected(list, o, snap) \in EventRow
         /\ Projected(list, o, snap).here =>
              /\ Projected(list, o, snap) = snap
              /\ \A k \in DOMAIN list : list[k].occ = o /\ list[k].kind = "delete" =>
                   list[k].state \notin ActiveStates
  BY BoundsTyped DEF Projected, NoEventRow, EventRow

LEMMA RecordConflictKeeps ==
  ASSUME SeriesOK, NEW n \in OpIds, RecordConflict(n), trouble' = trouble
  PROVE  SeriesOK'
<1> DEFINE lost == InState(jobs[n].members, "conflict", 0)
<1>1. /\ Busy(n) /\ jobs[n].at = "answered" /\ jobs[n].answer = "changed"
      /\ Recorded(n) /\ ops' = lost
      /\ rows' = [rows EXCEPT ![Occ(n)] = Projected(lost, Occ(n), jobs[n].seen)]
  BY DEF RecordConflict, Answered, At, Busy
<1>2. Settled(n, "conflict", 0) /\ \A k \in Positions : k \notin Group(n) => ops'[k] = ops[k]
  BY <1>1, RecordedSettles
<1>3. /\ Occ(n) \in Occurrences /\ jobs[n].seen \in EventRow /\ rows \in [Occurrences -> EventRow]
      /\ \A k \in Group(n) : State(k) = "syncing"
  BY <1>1, BusyFacts, RestTyped DEF SeriesOK
<1>4. PICK snap : snap = Projected(ops', Occ(n), jobs[n].seen)
  OBVIOUS
<1>5. snap \in EventRow /\ (snap.here => /\ snap = jobs[n].seen
                                       /\ \A k \in DOMAIN ops' : ops'[k].occ = Occ(n) /\ ops'[k].kind = "delete" =>
                                            ops'[k].state \notin ActiveStates)
  BY <1>3, <1>4, ProjectedRow
<1>6. rows' = [rows EXCEPT ![Occ(n)] = snap]
  BY <1>1, <1>4
<1>7. rows'[Occ(n)] = snap /\ rows' \in [Occurrences -> EventRow]
      /\ \A o \in Occurrences : o # Occ(n) => rows'[o] = rows[o]
  BY <1>3, <1>5, <1>6
<1>8. ASSUME snap.here, NEW k \in Of(Occ(n)), Kind(k) = "delete"
      PROVE  k \notin Group(n) /\ State(k) \notin ActiveStates
  <2>1. k \in Positions /\ Occ(k) = Occ(n) /\ DOMAIN ops' = Positions
    BY <1>2, SeriesOpsTyped DEF SeriesOK, Settled, Positions
  <2>2. ops'[k].occ = Occ(n) /\ ops'[k].kind = "delete"
    BY <1>2, <1>8, <2>1 DEF Settled, Occ, Kind
  <2>3. ops'[k].state \notin ActiveStates
    BY <1>5, <1>8, <2>1, <2>2
  <2> QED
    BY <1>2, <2>1, <2>3 DEF Settled, ActiveStates, State
<1>9. \A j, k \in Of(Occ(n)) :
        ~(j < k /\ State(k)' = "conflict" /\ State(k) = "pending" /\ k \notin Group(n))
  BY <1>2, SeriesOpsTyped DEF SeriesOK, State
<1>10. QueueOK'
  BY <1>2, <1>7, <1>8, <1>9, SettledQueue
<1>11. SeenOK(Occ(n), jobs[n].seen)
  BY <1>1, BusyFacts DEF JobOK, AnswerOK
<1>12. RowsOK'
  BY <1>2, <1>5, <1>7, <1>11, SettledRows
<1> QED
  BY <1>2, <1>7, <1>10, <1>12, SettledKeeps, RestTyped DEF SeriesOK

\* What was answered as done was done, for all that was sent together.
LEMMA AnsweredIsDone ==
  ASSUME SeriesOK, NEW n \in OpIds, Busy(n), jobs[n].at = "answered",
         \/ jobs[n].answer \in {"ok", "scoped"}
         \/ jobs[n].answer = "gone" /\ Kind(n) = "delete"
  PROVE  /\ "trim" \in Did(n) => google.series[n].there
         /\ \A k \in Group(n) : DoneOK(k)
<1>1. /\ n \in Positions /\ n \in Nat /\ n \in Group(n) /\ State(n) = "syncing"
      /\ \A k \in Group(n) : k \in Of(Occ(n)) /\ k \in Positions /\ n <= k /\ Did(k) = Did(n) /\ Occ(k) = Occ(n)
  BY BusyFacts
<1>2. AnswerOK(n, jobs[n])
  BY BusyFacts DEF JobOK
<1>3. DoneOK(n)
  BY <1>2 DEF AnswerOK, DoneOK
<1>4. "trim" \in Did(n) => google.series[n].there
  <2>1. Kind(n) = "delete" => "trim" \notin Did(n)
    BY <1>1 DEF SeriesOK, WritesOK
  <2> QED
    BY <1>2, <2>1 DEF AnswerOK
<1>5. ASSUME NEW k \in Group(n) PROVE DoneOK(k)
  <2>1. CASE Kind(n) = "delete"
    <3>1. k <= n /\ k \in Nat
      BY <1>1, <2>1, SeriesOpsTyped DEF SeriesOK, QueueOK, ActiveStates
    <3>2. k = n
      BY <1>1, <3>1
    <3> QED
      BY <1>3, <3>2
  <2>2. CASE Kind(n) # "delete"
    <3>1. Touched(n)
      BY <1>3, <2>2 DEF DoneOK
    <3>2. Touched(k)
      BY <1>1, <3>1 DEF Touched, Did
    <3> QED
      BY <3>2 DEF DoneOK
  <2> QED
    BY <2>1, <2>2
<1> QED
  BY <1>4, <1>5

LEMMA DeleteRecorded ==
  ASSUME SeriesOK, NEW n \in OpIds, RecordSuccess(n), Kind(n) = "delete", trouble' = trouble
  PROVE  SeriesOK'
<1>1. /\ Busy(n) /\ jobs[n].at = "answered" /\ jobs[n].answer \in {"ok", "scoped", "gone"}
      /\ Recorded(n) /\ ops' = InState(jobs[n].members, "succeeded", 0)
      /\ rows' = [rows EXCEPT ![Occ(n)] = NoEventRow]
  BY DEF RecordSuccess, Answered, At, Busy
<1>2. Settled(n, "succeeded", 0) /\ \A k \in Positions : k \notin Group(n) => ops'[k] = ops[k]
  BY <1>1, RecordedSettles
<1>3. Occ(n) \in Occurrences /\ rows \in [Occurrences -> EventRow] /\ NoEventRow \in EventRow
      /\ ~NoEventRow.here
  BY <1>1, BusyFacts, RestTyped, BoundsTyped DEF SeriesOK, NoEventRow, EventRow
<1>4. ~rows'[Occ(n)].here /\ rows' \in [Occurrences -> EventRow]
      /\ \A o \in Occurrences : o # Occ(n) => rows'[o] = rows[o]
  BY <1>1, <1>3
<1>5. \A j, k \in Of(Occ(n)) :
        ~(j < k /\ State(k)' = "conflict" /\ State(k) = "pending" /\ k \notin Group(n))
  BY <1>2, SeriesOpsTyped DEF SeriesOK, State
<1>6. QueueOK'
  BY <1>2, <1>4, <1>5, SettledQueue
<1>7. RowsOK'
  BY <1>2, <1>4, SettledRows
<1>8. /\ "trim" \in Did(n) => google.series[n].there
      /\ \A k \in Group(n) : DoneOK(k)
  BY <1>1, AnsweredIsDone
<1> QED
  BY <1>2, <1>4, <1>6, <1>7, <1>8, SettledKeeps, RestTyped DEF SeriesOK

LEMMA RebasedTyped ==
  ASSUME NEW op \in Op, NEW old \in EventRow, NEW new \in EventRow
  PROVE  LET x == Rebased(op, old, new) IN
         /\ x \in Op /\ x.occ = op.occ /\ x.kind = op.kind /\ x.scope = op.scope /\ x.lead = op.lead
         /\ x.state = op.state \/ (x.state = "conflict" /\ op.kind = "update")
         /\ op.state = "succeeded" => x = op
         /\ x.state # op.state => old.here /\ old.val # new.val
         /\ op.kind = "update" /\ old.here /\ old.val # new.val /\ op.state = "pending" => x.state = "conflict"
<1> DEFINE x == Rebased(op, old, new)
<1>1. new.etag \in Nat
  BY DEF EventRow
<1>2. CASE /\ old.here /\ op.kind = "update" /\ old.val # new.val
           /\ op.state \in {"pending", "syncing", "ambiguous", "failed"}
  <2>1. x = [op EXCEPT !.state = "conflict"]
    BY <1>2 DEF Rebased
  <2>2. x \in Op /\ x.occ = op.occ /\ x.kind = op.kind /\ x.scope = op.scope /\ x.lead = op.lead
        /\ x.state = "conflict"
    <3> HIDE DEF x
    <3> QED
      BY <2>1 DEF Op, ActiveStates
  <2> QED
    BY <1>2, <2>2
<1>3. CASE /\ ~(/\ old.here /\ op.kind = "update" /\ old.val # new.val
                /\ op.state \in {"pending", "syncing", "ambiguous", "failed"})
           /\ new.etag # 0 /\ op.state \in {"pending", "ambiguous", "failed"}
  <2>1. x = [op EXCEPT !.etag = new.etag]
    BY <1>3 DEF Rebased
  <2>2. x \in Op /\ x.occ = op.occ /\ x.kind = op.kind /\ x.scope = op.scope /\ x.lead = op.lead
        /\ x.state = op.state
    <3> HIDE DEF x
    <3> QED
      BY <1>1, <2>1 DEF Op
  <2> QED
    BY <1>3, <2>2
<1>4. CASE /\ ~(/\ old.here /\ op.kind = "update" /\ old.val # new.val
                /\ op.state \in {"pending", "syncing", "ambiguous", "failed"})
           /\ ~(new.etag # 0 /\ op.state \in {"pending", "ambiguous", "failed"})
  <2>1. x = op
    BY <1>4 DEF Rebased
  <2> QED
    BY <1>4, <2>1
<1> QED
  BY <1>2, <1>3, <1>4

LEMMA UpdateRecorded ==
  ASSUME SeriesOK, NEW n \in OpIds, RecordSuccess(n), Kind(n) = "update", trouble' = trouble
  PROVE  SeriesOK'
<1>1. PICK o : o = Occ(n)
  OBVIOUS
<1>2. PICK done : done = InState(jobs[n].members, "succeeded", 0)
  OBVIOUS
<1>3. PICK seen : seen = [jobs[n].seen EXCEPT !.member = rows[o].member]
  OBVIOUS
<1>4. /\ Busy(n) /\ jobs[n].at = "answered" /\ jobs[n].answer \in {"ok", "scoped"} /\ Recorded(n)
      /\ ops' = [k \in Positions |-> IF k \in Of(o) THEN Rebased(done[k], rows[o], seen) ELSE done[k]]
      /\ rows' = [rows EXCEPT ![o] = Projected(done, o, seen)]
  BY <1>1, <1>2, <1>3 DEF RecordSuccess, Answered, At, Busy
<1>5. /\ n \in Positions /\ n \in Nat /\ n \in Group(n) /\ jobs[n].members = Group(n) /\ o \in Occurrences
      /\ \A k \in Group(n) : k \in Of(o) /\ k \in Positions /\ State(k) = "syncing"
  BY <1>1, <1>4, BusyFacts
<1>6. /\ rows \in [Occurrences -> EventRow] /\ rows[o] \in EventRow /\ jobs[n].seen \in EventRow
      /\ rows[o].member \in BOOLEAN
  BY <1>5, RestTyped DEF SeriesOK
<1>7. seen \in EventRow /\ seen.val = jobs[n].seen.val /\ seen.etag = jobs[n].seen.etag
  BY <1>3, <1>6 DEF EventRow
<1>8. /\ done \in Seq(Op) /\ Len(done) = Len(ops) /\ DOMAIN done = Positions
      /\ \A k \in Positions :
           /\ done[k] \in Op
           /\ done[k].occ = ops[k].occ /\ done[k].kind = ops[k].kind /\ done[k].scope = ops[k].scope
           /\ k \in Group(n) => done[k].state = "succeeded" /\ done[k].lead = 0
           /\ k \notin Group(n) => done[k] = ops[k]
  <2>1. /\ done \in Seq(Op) /\ Len(done) = Len(ops)
        /\ \A k \in Positions :
             /\ done[k].occ = ops[k].occ /\ done[k].kind = ops[k].kind /\ done[k].scope = ops[k].scope
             /\ k \in Group(n) => done[k].state = "succeeded" /\ done[k].lead = 0
             /\ k \notin Group(n) => done[k] = ops[k]
    BY <1>2, <1>5, BoundsTyped, InStateTyped DEF SeriesOK
  <2>2. DOMAIN done = Positions /\ \A k \in Positions : done[k] \in Op
    BY <2>1 DEF Positions
  <2> QED
    BY <2>1, <2>2
<1>9. ASSUME NEW k \in Positions
      PROVE  /\ ops'[k] \in Op /\ ops'[k].occ = ops[k].occ /\ ops'[k].kind = ops[k].kind
             /\ ops'[k].scope = ops[k].scope
             /\ k \in Group(n) => ops'[k].state = "succeeded" /\ ops'[k].lead = 0
             /\ k \notin Group(n) =>
                  /\ ops'[k].lead = ops[k].lead
                  /\ \/ ops'[k].state = ops[k].state
                     \/ /\ ops'[k].state = "conflict" /\ k \in Of(o) /\ rows[o].here /\ rows[o].val # seen.val
                        /\ ops[k].kind = "update"
             /\ k \notin Group(n) /\ k \in Of(o) /\ rows[o].here /\ rows[o].val # seen.val
                  /\ ops[k].kind = "update" /\ ops[k].state = "pending" => ops'[k].state = "conflict"
  <2>1. ops'[k] = IF k \in Of(o) THEN Rebased(done[k], rows[o], seen) ELSE done[k]
    BY <1>4
  <2>2. CASE k \in Of(o)
    <3>1. PICK d \in Op : d = done[k]
      BY <1>8
    <3>2. PICK old \in EventRow : old = rows[o]
      BY <1>6
    <3>3. PICK x : x = Rebased(d, old, seen)
      OBVIOUS
    <3>4. /\ x \in Op /\ x.occ = d.occ /\ x.kind = d.kind /\ x.scope = d.scope /\ x.lead = d.lead
          /\ x.state = d.state \/ (x.state = "conflict" /\ d.kind = "update")
          /\ d.state = "succeeded" => x = d
          /\ x.state # d.state => old.here /\ old.val # seen.val
          /\ d.kind = "update" /\ old.here /\ old.val # seen.val /\ d.state = "pending" => x.state = "conflict"
      BY <1>7, <3>3, RebasedTyped
    <3>5. ops'[k] = x
      BY <2>1, <2>2, <3>1, <3>2, <3>3
    <3> QED
      BY <1>8, <2>2, <3>1, <3>2, <3>4, <3>5
  <2>3. CASE k \notin Of(o)
    <3>1. ops'[k] = done[k] /\ k \notin Group(n)
      BY <1>5, <2>1, <2>3
    <3> QED
      BY <1>8, <2>3, <3>1
  <2> QED
    BY <2>2, <2>3
<1>10. ops' \in Seq(Op) /\ Len(ops') = Len(ops)
  <2>1. ops' \in [1 .. Len(ops) -> Op] /\ Len(ops) \in Nat
    <3>1. DOMAIN ops' = Positions /\ Positions = 1 .. Len(ops) /\ Len(ops) \in Nat
      BY <1>4, SeriesOpsTyped DEF SeriesOK
    <3>2. ops' = [k \in Positions |-> ops'[k]]
      BY <1>4
    <3> QED
      BY <1>9, <3>1, <3>2
  <2> QED
    BY <2>1
<1>11. ASSUME NEW k \in Positions, k \notin Group(n), ops'[k].state # ops[k].state
       PROVE  k \in Of(Occ(n)) /\ ops[k].state = "pending" /\ ops'[k].state = "conflict"
  <2>1. k \in Of(o) /\ ops'[k].state = "conflict"
    BY <1>9, <1>11
  <2>2. State(k) \in {"pending", "succeeded"}
    BY <1>1, <1>4, <1>11, <2>1, AloneInDoubt
  <2>3. State(k) # "succeeded"
    <3>1. done[k] = ops[k] /\ ops'[k] = Rebased(done[k], rows[o], seen)
      BY <1>4, <1>8, <1>11, <2>1
    <3>2. ops[k].state = "succeeded" => ops'[k] = ops[k]
      <4>1. \A x \in Op : x.state = "succeeded" => Rebased(x, rows[o], seen) = x
        BY DEF Rebased
      <4> QED
        BY <1>8, <3>1, <4>1
    <3> QED
      BY <1>11, <3>2 DEF State
  <2> QED
    BY <1>1, <2>1, <2>2, <2>3 DEF State
<1>12. Settled(n, "succeeded", 0)
  BY <1>4, <1>9, <1>10, <1>11 DEF Settled, Recorded
<1>13. PICK snap : snap = Projected(done, o, seen)
  OBVIOUS
<1>14. snap \in EventRow /\ (snap.here => /\ snap = seen
                                        /\ \A k \in DOMAIN done : done[k].occ = o /\ done[k].kind = "delete" =>
                                             done[k].state \notin ActiveStates)
  BY <1>7, <1>13, ProjectedRow
<1>15. rows'[o] = snap /\ rows' \in [Occurrences -> EventRow]
       /\ \A x \in Occurrences : x # o => rows'[x] = rows[x]
  BY <1>4, <1>5, <1>6, <1>13, <1>14
<1>16. ASSUME snap.here, NEW k \in Of(o), Kind(k) = "delete"
       PROVE  k \notin Group(n) /\ State(k) \notin ActiveStates
  <2>1. k \in Positions /\ Occ(k) = o /\ ops[k].occ = o /\ ops[k].kind = "delete"
    BY <1>16, SeriesOpsTyped DEF SeriesOK, Kind, Occ
  <2>2. done[k].state \notin ActiveStates
    BY <1>8, <1>14, <1>16, <2>1
  <2>3. k \notin Group(n)
    BY <1>1, <1>4, <1>16, BusyFacts
  <2> QED
    BY <1>8, <2>1, <2>2, <2>3 DEF State
<1>17. ASSUME NEW j \in Of(o), NEW k \in Of(o), j < k, State(k)' = "conflict", State(k) = "pending",
              k \notin Group(n)
       PROVE  State(j)' = "succeeded" \/ Lost(j)'
  <2>1. j \in Positions /\ k \in Positions /\ j \in Nat /\ k \in Nat /\ Occ(j) = o
    BY SeriesOpsTyped DEF SeriesOK
  <2>2. rows[o].here /\ rows[o].val # seen.val
    BY <1>9, <1>17, <2>1 DEF State
  <2>3. CASE j \in Group(n)
    BY <1>9, <2>1, <2>3 DEF State
  <2>4. CASE j \notin Group(n) /\ State(j) = "pending"
    <3>1. Kind(j) = "update"
      <4>1. Kind(j) = "delete" => k <= j
        BY <1>17, <2>1, <2>4 DEF SeriesOK, QueueOK, ActiveStates
      <4> QED
        BY <1>17, <2>1, <4>1, SeriesOpsTyped DEF SeriesOK
    <3>2. ops'[j].state = "conflict"
      BY <1>9, <2>1, <2>2, <2>4, <3>1 DEF State, Kind
    <3> QED
      BY <3>2 DEF Lost, State
  <2>5. CASE j \notin Group(n) /\ State(j) = "succeeded"
    BY <1>11, <2>1, <2>5 DEF State
  <2> QED
    BY <1>1, <1>4, <2>3, <2>4, <2>5, AloneInDoubt
<1>18. QueueOK'
  <2>1. rows'[Occ(n)].here =>
          \A k \in Of(Occ(n)) : Kind(k) = "delete" => k \notin Group(n) /\ State(k) \notin ActiveStates
    BY <1>1, <1>15, <1>16
  <2>2. \A j, k \in Of(Occ(n)) :
          j < k /\ State(k)' = "conflict" /\ State(k) = "pending" /\ k \notin Group(n)
            => State(j)' = "succeeded" \/ Lost(j)'
    BY <1>1, <1>17
  <2> QED
    BY <1>1, <1>12, <1>15, <2>1, <2>2, SettledQueue
<1>19. SeenOK(Occ(n), jobs[n].seen)
  BY <1>4, BusyFacts DEF JobOK, AnswerOK
<1>20. RowsOK'
  <2>1. rows'[Occ(n)].here => SeenOK(Occ(n), rows'[Occ(n)])
    BY <1>1, <1>7, <1>14, <1>15, <1>19 DEF SeenOK
  <2> QED
    BY <1>1, <1>12, <1>15, <2>1, SettledRows
<1>21. /\ "trim" \in Did(n) => google.series[n].there
       /\ \A k \in Group(n) : DoneOK(k)
  BY <1>4, AnsweredIsDone
<1> QED
  BY <1>12, <1>15, <1>18, <1>20, <1>21, SettledKeeps, RestTyped DEF SeriesOK

-----------------------------------------------------------------------------
(* The death of the worker: what was on its way is in doubt.               *)

LEMMA OpsByPosition ==
  ASSUME SeriesTypeOK, NEW f, f = [k \in Positions |-> f[k]], \A k \in Positions : f[k] \in Op
  PROVE  f \in Seq(Op) /\ Len(f) = Len(ops)
<1>1. Len(ops) \in Nat /\ Positions = 1 .. Len(ops)
  BY SeriesOpsTyped
<1>2. f \in [1 .. Len(ops) -> Op]
  BY <1>1
<1> QED
  BY <1>1, <1>2

LEMMA WorkerDiesKeeps ==
  ASSUME SeriesOK, WorkerDies
  PROVE  SeriesOK'
<1>1. /\ trouble' \in 0 .. MaxTrouble /\ jobs' = [n \in OpIds |-> NoJob]
      /\ UNCHANGED <<google, rows, cycle, history>>
      /\ ops' = [k \in Positions |-> IF ops[k].state = "syncing"
                                     THEN [ops[k] EXCEPT !.state = "ambiguous"] ELSE ops[k]]
  BY RestTyped, BoundsTyped DEF SeriesOK, WorkerDies, Troubled
<1>2. ASSUME NEW k \in Positions
      PROVE  /\ ops'[k] \in Op /\ ops'[k].occ = ops[k].occ /\ ops'[k].kind = ops[k].kind
             /\ ops'[k].scope = ops[k].scope /\ ops'[k].lead = ops[k].lead
             /\ ops[k].state = "syncing" => ops'[k].state = "ambiguous"
             /\ ops[k].state # "syncing" => ops'[k].state = ops[k].state
  <2>1. ops[k] \in Op
    BY SeriesOpsTyped DEF SeriesOK
  <2>2. CASE ops[k].state = "syncing"
    <3>1. ops'[k] = [ops[k] EXCEPT !.state = "ambiguous"]
      BY <1>1, <2>2
    <3> QED
      BY <2>1, <2>2, <3>1 DEF Op, ActiveStates
  <2>3. CASE ops[k].state # "syncing"
    BY <1>1, <2>1, <2>3
  <2> QED
    BY <2>2, <2>3
<1>3. ops' \in Seq(Op) /\ Len(ops') = Len(ops)
  <2>1. ops' = [k \in Positions |-> ops'[k]]
    BY <1>1
  <2> QED
    BY <1>2, <2>1, OpsByPosition DEF SeriesOK
<1>4. /\ Positions' = Positions
      /\ \A k \in Positions :
           /\ Occ(k)' = Occ(k) /\ Kind(k)' = Kind(k) /\ Lead(k)' = Lead(k)
           /\ State(k) = "syncing" => State(k)' = "ambiguous"
           /\ State(k) # "syncing" => State(k)' = State(k)
           /\ (Doubtful(k)' <=> Doubtful(k)) /\ (Lost(k)' <=> Lost(k))
           /\ (State(k)' \in ActiveStates <=> State(k) \in ActiveStates)
      /\ \A k : Did(k)' = Did(k)
  BY <1>1, <1>2, <1>3 DEF Positions, Occ, Kind, Lead, State, Doubtful, Lost, ActiveStates, Did
<1>5. \A o : Of(o)' = Of(o)
  BY <1>2, <1>4 DEF Of
<1>6. \A m : Group(m)' = Group(m)
  BY <1>4 DEF Group
<1>7. \A o : (Alive(o)' <=> Alive(o)) /\ EtagOf(o)' = EtagOf(o) /\ ValueOf(o)' = ValueOf(o)
             /\ (Stuck(o)' <=> Stuck(o))
  BY <1>1, <1>4, <1>5, SeriesOpsTyped DEF SeriesOK, Alive, EtagOf, ValueOf, Master, Stuck
<1>8. \A o : Of(o) \subseteq Positions
  BY SeriesOpsTyped DEF SeriesOK
<1>9. SeriesTypeOK'
  <2>1. NoJob \in Job
    BY BoundsTyped DEF NoJob, Job, NoEventRow, EventRow
  <2> QED
    BY <1>1, <1>3, <2>1 DEF SeriesOK, SeriesTypeOK
<1>10. QueueOK'
  BY <1>1, <1>4, <1>5, <1>8 DEF SeriesOK, QueueOK, Master
<1>11. StampsOK'
  BY <1>1 DEF SeriesOK, StampsOK
<1>12. GroupsOK'
  <2> SUFFICES ASSUME NEW k \in Positions, Doubtful(k)'
               PROVE  /\ Lead(k)' \in Of(Occ(k)) /\ Lead(k)' <= k
                      /\ k # Lead(k)' => Kind(k) = "update"
                      /\ \A j \in Of(Occ(k)) : j < k =>
                           IF j < Lead(k)' THEN State(j)' = "succeeded"
                           ELSE State(j)' = State(k)' /\ Lead(j)' = Lead(k)'
    BY <1>4, <1>5 DEF GroupsOK
  <2>1. /\ Lead(k) \in Of(Occ(k)) /\ Lead(k) <= k
        /\ k # Lead(k) => Kind(k) = "update"
        /\ \A j \in Of(Occ(k)) : j < k =>
             IF j < Lead(k) THEN State(j) = "succeeded" ELSE State(j) = State(k) /\ Lead(j) = Lead(k)
    BY <1>4 DEF SeriesOK, GroupsOK
  <2> QED
    BY <1>4, <1>8, <2>1
<1>13. JobsOK' /\ StepsOK'
  <2>1. \A m \in OpIds : ~Busy(m)'
    BY <1>1 DEF Busy, NoJob
  <2>2. \A k \in Positions : State(k)' # "syncing"
    BY <1>4
  <2> QED
    BY <1>4, <2>1, <2>2 DEF JobsOK, StepsOK
<1>14. WritesOK'
  <2>1. \A k \in Positions : Doubtful(k) => Did(k) = Did(Lead(k))
    BY DEF SeriesOK, WritesOK
  <2>2. (\A k \in Positions : Doubtful(k) => Did(k) = Did(Lead(k)))'
    BY <1>1, <1>4, <2>1 DEF Did
  <2>3. (\A k \in OpIds : k \notin Positions \/ State(k) = "pending" => Did(k) = {})'
    BY <1>4 DEF SeriesOK, WritesOK
  <2>4. ASSUME NEW k \in Positions, Doubtful(k), Lead(k) = k PROVE Last(Group(k)) \in Positions
    <3>1. Group(k) \subseteq 0 .. Len(ops) /\ Len(ops) \in Nat /\ k \in Group(k)
      BY <2>4, SeriesOpsTyped DEF SeriesOK, Group
    <3> QED
      BY <3>1, LastIsLast DEF Group
  <2>5. (\A k \in Positions : "trim" \in Did(k) =>
           /\ Kind(k) = "update"
           /\ \A s \in Master(Occ(k)).slots : s < Occ(k)[2]
           /\ Doubtful(k) /\ Lead(k) = k => ops[Last(Group(k))].scope = "thisAndFollowing")'
    BY <1>1, <1>2, <1>4, <1>6, <2>4 DEF SeriesOK, WritesOK, Master
  <2>6. (\A k \in OpIds : google.series[k].there =>
          {"trim", "tail"} \subseteq Did(k) /\ \A s \in google.series[k].slots : s >= Occ(k)[2])'
    BY <1>1, <1>4, BoundsTyped DEF SeriesOK, WritesOK, QueueOK
  <2> QED
    BY <2>2, <2>3, <2>5, <2>6 DEF WritesOK
<1>15. ValuesOK'
  BY <1>1, <1>2, <1>4, <1>5 DEF SeriesOK, ValuesOK
<1>16. CoverOK'
  <2>1. \A r, s : \A m \in Positions : Took(m, r, s) => Took(m, r, s)'
    BY <1>1, <1>4 DEF Took
  <2>2. ASSUME NEW r \in SeriesIds, NEW s \in Slots, google'.series[r].there, r = 0 \/ s >= Occ(r)'[2]
        PROVE  s \in google'.series[r].slots \/ \E m \in Positions : Took(m, r, s)'
    <3>1. r = 0 \/ s >= Occ(r)[2]
      BY <1>1, <1>4, <2>2 DEF SeriesOK, QueueOK
    <3>2. s \in google.series[r].slots \/ \E m \in Positions : Took(m, r, s)
      BY <1>1, <2>2, <3>1 DEF SeriesOK, CoverOK
    <3> QED
      BY <1>1, <2>1, <3>2
  <2> QED
    BY <1>4, <2>2 DEF CoverOK
<1>17. OutcomesOK'
  <2> SUFFICES ASSUME NEW k \in Positions, State(k)' = "succeeded" PROVE DoneOK(k)'
    BY <1>4 DEF OutcomesOK
  <2>1. DoneOK(k) /\ Occ(k)' = Occ(k) /\ Kind(k)' = Kind(k)
    BY <1>4 DEF SeriesOK, OutcomesOK
  <2> QED
    BY <1>1, <2>1 DEF DoneOK, Touched, Alive, Master
<1>18. RowsOK'
  BY <1>1, <1>4, <1>5, <1>7, <1>8 DEF SeriesOK, RowsOK, SeenOK
<1> QED
  BY <1>9, <1>10, <1>11, <1>12, <1>13, <1>14, <1>15, <1>16, <1>17, <1>18 DEF SeriesOK

-----------------------------------------------------------------------------
(* The user queues an operation: it has done nothing yet, and the row it   *)
(* was made on says that nothing before it deletes the occurrence.         *)

LEMMA QueueKeeps ==
  ASSUME SeriesOK, trouble' = trouble, NEW o \in Occurrences, NEW kind \in {"update", "delete"},
         NEW scope \in Scopes, Queue(o, kind, scope), rows' \in [Occurrences -> EventRow],
         \A x \in Occurrences : rows'[x].here => rows'[x] = rows[x],
         kind = "delete" => ~rows'[o].here
  PROVE  SeriesOK'
<1>0. PICK new : new = Len(ops) + 1
  OBVIOUS
<1> DEFINE op  == [occ |-> o, kind |-> kind, scope |-> scope, etag |-> rows[o].etag,
                   state |-> "pending", lead |-> 0]
<1>1. /\ Len(ops) < MaxOps /\ rows[o].here /\ ops' = Append(ops, op)
      /\ UNCHANGED <<google, jobs, cycle, history>>
  BY DEF Queue
<1>2. /\ op \in Op /\ op.occ = o /\ op.kind = kind /\ op.scope = scope /\ op.state = "pending" /\ op.lead = 0
  <2>1. rows[o].etag \in Nat /\ 0 \in SeriesIds
    BY RestTyped, BoundsTyped DEF SeriesOK
  <2> QED
    BY <2>1 DEF Op, ActiveStates
<1>3. /\ ops \in Seq(Op) /\ Len(ops) \in Nat /\ MaxOps \in Nat /\ Positions = 1 .. Len(ops)
      /\ Positions \subseteq OpIds /\ \A o1 : Of(o1) \subseteq Positions
  BY SeriesOpsTyped, BoundsTyped DEF SeriesOK
<1> HIDE DEF op
<1>4. /\ ops' \in Seq(Op) /\ Len(ops') = new /\ ops'[new] = op
      /\ \A k \in Positions : ops'[k] = ops[k]
  BY <1>0, <1>1, <1>2, <1>3
<1>5. /\ Positions' = Positions \cup {new} /\ new \notin Positions /\ new \in OpIds /\ new \in Nat
      /\ \A k \in Positions : k < new /\ k \in Nat
  <2>1. Positions' = 1 .. new
    BY <1>4 DEF Positions
  <2> QED
    BY <1>0, <1>1, <1>3, <2>1 DEF OpIds
<1>6. /\ \A k \in Positions : /\ Occ(k)' = Occ(k) /\ Kind(k)' = Kind(k) /\ State(k)' = State(k)
                              /\ Lead(k)' = Lead(k) /\ (Doubtful(k)' <=> Doubtful(k))
                              /\ (Lost(k)' <=> Lost(k)) /\ ops'[k].scope = ops[k].scope
      /\ Occ(new)' = o /\ Kind(new)' = kind /\ State(new)' = "pending" /\ ~Doubtful(new)' /\ ~Lost(new)'
      /\ \A k : Did(k)' = Did(k) /\ (Busy(k)' <=> Busy(k))
  BY <1>1, <1>2, <1>4 DEF Occ, Kind, State, Lead, Doubtful, Lost, Did, Busy
<1>7. \A x : Of(x) \subseteq Of(x)' /\ \A k \in Of(x)' : k \in Of(x) \/ (k = new /\ x = o)
  BY <1>4, <1>5, <1>6, <1>2 DEF Of, Occ
<1>8. \A m : Group(m)' = Group(m)
  BY <1>5, <1>6 DEF Group
<1>9. \A x : Stuck(x) => Stuck(x)'
  BY <1>3, <1>6, <1>7 DEF Stuck
<1>10. \A x : (Alive(x)' <=> Alive(x)) /\ EtagOf(x)' = EtagOf(x) /\ ValueOf(x)' = ValueOf(x)
              /\ Master(x)' = Master(x)
  BY <1>1 DEF Alive, EtagOf, ValueOf, Master
<1>11. /\ Did(new) = {} /\ ~google.series[new].there /\ new # 0
  BY <1>5, BoundsTyped DEF SeriesOK, WritesOK, QueueOK
<1>12. SeriesTypeOK'
  BY <1>1, <1>3, <1>4, <1>5 DEF SeriesOK, SeriesTypeOK, OpIds
<1>13. QueueOK'
  <2>1. o[1] < new /\ google.series[o[1]].there
    <3>1. Master(o).there /\ o[1] \in SeriesIds
      BY <1>1, BoundsTyped DEF SeriesOK, QueueOK
    <3>2. o[1] = 0 \/ o[1] \in Positions
      BY <3>1 DEF SeriesOK, QueueOK, Master
    <3> QED
      BY <1>5, <1>11, <3>1, <3>2 DEF Master
  <2>2. (\A n \in Positions : Occ(n)[1] < n /\ google.series[Occ(n)[1]].there)'
    BY <1>1, <1>5, <1>6, <2>1 DEF SeriesOK, QueueOK
  <2>3. (\A x \in Occurrences : rows[x].here => Master(x).there)'
    BY <1>10 DEF SeriesOK, QueueOK
  <2>4. ASSUME NEW n \in Positions', Kind(n)' = "delete", State(n)' \in ActiveStates
        PROVE  ~rows'[Occ(n)'].here /\ \A k \in Of(Occ(n))' : k <= n
    <3>1. CASE n = new
      <4>1. ~rows'[Occ(n)'].here
        BY <1>6, <2>4, <3>1
      <4>2. \A k \in Positions' : k <= n
        BY <1>5, <3>1
      <4>3. Of(Occ(n))' \subseteq Positions'
        BY DEF Of
      <4> QED
        BY <4>1, <4>2, <4>3
    <3>2. CASE n \in Positions
      <4>1. Kind(n) = "delete" /\ State(n) \in ActiveStates /\ Occ(n)' = Occ(n) /\ Occ(n) \in Occurrences
        BY <1>6, <2>4, <3>2, SeriesOpsTyped DEF SeriesOK
      <4>2. ~rows[Occ(n)].here /\ \A k \in Of(Occ(n)) : k <= n
        BY <3>2, <4>1 DEF SeriesOK, QueueOK
      <4>3. Occ(n) # o
        BY <1>1, <4>2
      <4>4. \A k \in Of(Occ(n))' : k \in Of(Occ(n))
        BY <1>7, <4>1, <4>3
      <4> QED
        BY <4>1, <4>2, <4>4
    <3> QED
      BY <1>5, <2>4, <3>1, <3>2
  <2>5. (\A n \in Positions : Kind(n) = "delete" /\ State(n) \in ActiveStates =>
           ~rows[Occ(n)].here /\ \A k \in Of(Occ(n)) : k <= n)'
    BY <2>4
  <2>6. ASSUME NEW n \in Positions', Lost(n)', NEW k \in Of(Occ(n))', k < n
        PROVE  State(k)' = "succeeded" \/ Lost(k)'
    <3>1. n \in Positions /\ Lost(n) /\ Occ(n)' = Occ(n) /\ n \in Nat
      BY <1>5, <1>6, <2>6
    <3>2. k # new
      BY <1>5, <2>6, <3>1
    <3>3. k \in Of(Occ(n)) /\ k \in Positions
      BY <1>3, <1>7, <2>6, <3>1, <3>2
    <3>4. State(k) = "succeeded" \/ Lost(k)
      BY <2>6, <3>1, <3>3 DEF SeriesOK, QueueOK
    <3> QED
      BY <1>6, <3>3, <3>4
  <2>7. (\A n \in Positions : Lost(n) => \A k \in Of(Occ(n)) : k < n => State(k) = "succeeded" \/ Lost(k))'
    BY <2>6
  <2>8. google'.series[0].there /\ \A r \in SeriesIds : google'.series[r].there /\ r # 0 => r \in Positions'
    BY <1>1, <1>5 DEF SeriesOK, QueueOK
  <2> QED
    BY <2>2, <2>3, <2>5, <2>7, <2>8 DEF QueueOK
<1>14. StampsOK'
  BY <1>1 DEF SeriesOK, StampsOK
<1>15. GroupsOK'
  <2> SUFFICES ASSUME NEW n \in Positions', Doubtful(n)'
               PROVE  /\ Lead(n)' \in Of(Occ(n))' /\ Lead(n)' <= n
                      /\ n # Lead(n)' => Kind(n)' = "update"
                      /\ \A k \in Of(Occ(n))' : k < n =>
                           IF k < Lead(n)' THEN State(k)' = "succeeded"
                           ELSE State(k)' = State(n)' /\ Lead(k)' = Lead(n)'
    BY DEF GroupsOK
  <2>1. n \in Positions /\ Doubtful(n) /\ Occ(n)' = Occ(n) /\ Lead(n)' = Lead(n) /\ Kind(n)' = Kind(n)
        /\ State(n)' = State(n)
    BY <1>5, <1>6
  <2>2. /\ Lead(n) \in Of(Occ(n)) /\ Lead(n) <= n
        /\ n # Lead(n) => Kind(n) = "update"
        /\ \A k \in Of(Occ(n)) : k < n =>
             IF k < Lead(n) THEN State(k) = "succeeded" ELSE State(k) = State(n) /\ Lead(k) = Lead(n)
    BY <2>1 DEF SeriesOK, GroupsOK
  <2>3. \A k \in Of(Occ(n))' : k < n => k \in Of(Occ(n)) /\ k \in Positions
    BY <1>3, <1>5, <1>7, <2>1
  <2>4. Of(Occ(n)) \subseteq Of(Occ(n))'
    BY <1>7, <2>1
  <2> QED
    BY <1>6, <2>1, <2>2, <2>3, <2>4
<1>16. JobsOK'
  <2>1. cycle'.at = "open" => \A m \in OpIds : ~Busy(m)'
    BY <1>1, <1>6 DEF SeriesOK, JobsOK
  <2>2. \A n \in Positions', m \in OpIds : State(n)' = "syncing" /\ Lead(n)' = m => Busy(m)'
    BY <1>5, <1>6 DEF SeriesOK, JobsOK
  <2>3. \A m \in OpIds : Busy(m)' =>
          m \in Positions' /\ State(m)' = "syncing" /\ Lead(m)' = m /\ jobs'[m].members = Group(m)'
    BY <1>1, <1>5, <1>6, <1>8 DEF SeriesOK, JobsOK
  <2> QED
    BY <2>1, <2>2, <2>3 DEF JobsOK
<1>17. StepsOK'
  <2> SUFFICES ASSUME NEW m \in OpIds, Busy(m)' PROVE JobOK(m, jobs[m])'
    BY DEF StepsOK
  <2>1. Busy(m) /\ m \in Positions /\ jobs[m].members = Group(m) /\ m \in Group(m) /\ JobOK(m, jobs[m])
    BY <1>6, BusyFacts
  <2>2. PICK job : job = jobs[m]
    OBVIOUS
  <2>3. Last(job.members) \in Positions
    <3>1. Group(m) \subseteq 0 .. Len(ops)
      BY <1>3 DEF Group
    <3> QED
      BY <1>3, <2>1, <2>2, <3>1, LastIsLast DEF Group
  <2>4. Aim(job)' = Aim(job)
    BY <1>6, <2>3 DEF Aim
  <2>5. Occ(m)' = Occ(m) /\ Kind(m)' = Kind(m) /\ Did(m)' = Did(m)
    BY <1>6, <2>1
  <2>6. JobOK(m, job) => JobOK(m, job)'
    <3>1. AimOK(m, job) => AimOK(m, job)'
      BY <2>4, <2>5 DEF AimOK
    <3>2. DoneOK(m) => DoneOK(m)'
      BY <1>10, <2>5 DEF DoneOK, Touched, Did
    <3>3. SeenOK(Occ(m), job.seen) => SeenOK(Occ(m), job.seen)'
      BY <1>1, <1>10, <2>5 DEF SeenOK
    <3>4. AnswerOK(m, job) => AnswerOK(m, job)'
      BY <1>1, <1>10, <2>5, <3>2, <3>3 DEF AnswerOK
    <3> QED
      BY <3>1, <3>4 DEF JobOK
  <2>7. jobs' = jobs
    BY <1>1
  <2> QED
    BY <2>1, <2>2, <2>6, <2>7
<1>18. WritesOK'
  <2>1. (\A n \in OpIds : n \notin Positions \/ State(n) = "pending" => Did(n) = {})'
    BY <1>5, <1>6, <1>11 DEF SeriesOK, WritesOK
  <2>2. (\A n \in Positions : Doubtful(n) => Did(n) = Did(Lead(n)))'
    BY <1>5, <1>6, <1>1 DEF SeriesOK, WritesOK, Did
  <2>3. ASSUME NEW k \in Positions, Doubtful(k), Lead(k) = k PROVE Last(Group(k)) \in Positions
    <3>1. Group(k) \subseteq 0 .. Len(ops) /\ k \in Group(k)
      BY <1>3, <2>3 DEF Group
    <3> QED
      BY <1>3, <3>1, LastIsLast DEF Group
  <2>4. (\A n \in Positions : "trim" \in Did(n) =>
           /\ Kind(n) = "update"
           /\ \A s \in Master(Occ(n)).slots : s < Occ(n)[2]
           /\ Doubtful(n) /\ Lead(n) = n => ops[Last(Group(n))].scope = "thisAndFollowing")'
    BY <1>5, <1>6, <1>8, <1>10, <1>11, <2>3 DEF SeriesOK, WritesOK
  <2>5. (\A n \in OpIds : google.series[n].there =>
          {"trim", "tail"} \subseteq Did(n) /\ \A s \in google.series[n].slots : s >= Occ(n)[2])'
    BY <1>1, <1>6, BoundsTyped DEF SeriesOK, WritesOK, QueueOK
  <2> QED
    BY <2>1, <2>2, <2>4, <2>5 DEF WritesOK
<1>19. ValuesOK'
  <2>1. ASSUME NEW x \in Occurrences, NEW n \in OpIds, google'.own[x].val = n
        PROVE  n \in Positions' /\ Occ(n)' = x /\ "occurrence" \in Did(n)'
    <3>1. n \in Positions /\ Occ(n) = x /\ "occurrence" \in Did(n)
      BY <1>1, <2>1 DEF SeriesOK, ValuesOK
    <3> QED
      BY <1>5, <1>6, <3>1
  <2>2. ASSUME NEW r \in SeriesIds, NEW n \in OpIds, google'.series[r].val = n
        PROVE  /\ n \in Positions' /\ Did(n)' \cap {"series", "tail"} # {}
               /\ \/ ops'[n].scope = "allEvents" /\ Occ(n)'[1] = r
                  \/ ops'[n].scope = "thisAndFollowing" /\ r \in Of(Occ(n))'
    <3>1. /\ n \in Positions /\ Did(n) \cap {"series", "tail"} # {}
          /\ \/ ops[n].scope = "allEvents" /\ Occ(n)[1] = r
             \/ ops[n].scope = "thisAndFollowing" /\ r \in Of(Occ(n))
      BY <1>1, <2>2 DEF SeriesOK, ValuesOK
    <3>2. Occ(n)' = Occ(n) /\ Did(n)' = Did(n) /\ ops'[n].scope = ops[n].scope
      BY <1>6, <3>1
    <3>3. r \in Of(Occ(n)) => r \in Of(Occ(n))'
      BY <1>7, <3>2
    <3> QED
      BY <1>5, <3>1, <3>2, <3>3
  <2> QED
    BY <2>1, <2>2 DEF ValuesOK
<1>20. CoverOK'
  <2>1. \A r, s : \A m \in Positions : Took(m, r, s) => Took(m, r, s)'
    BY <1>1, <1>6 DEF Took
  <2>2. ASSUME NEW r \in SeriesIds, NEW s \in Slots, google'.series[r].there, r = 0 \/ s >= Occ(r)'[2]
        PROVE  s \in google'.series[r].slots \/ \E m \in Positions' : Took(m, r, s)'
    <3>1. r = 0 \/ s >= Occ(r)[2]
      BY <1>1, <1>6, <2>2 DEF SeriesOK, QueueOK
    <3>2. s \in google.series[r].slots \/ \E m \in Positions : Took(m, r, s)
      BY <1>1, <2>2, <3>1 DEF SeriesOK, CoverOK
    <3> QED
      BY <1>1, <1>5, <2>1, <3>2
  <2> QED
    BY <2>2 DEF CoverOK
<1>21. OutcomesOK'
  <2> SUFFICES ASSUME NEW k \in Positions', State(k)' = "succeeded" PROVE DoneOK(k)'
    BY DEF OutcomesOK
  <2>1. DoneOK(k) /\ Occ(k)' = Occ(k) /\ Kind(k)' = Kind(k)
    BY <1>5, <1>6 DEF SeriesOK, OutcomesOK
  <2> QED
    BY <1>6, <1>10, <2>1 DEF DoneOK, Touched, Did
<1>22. RowsOK'
  <2>1. (\A x \in Occurrences : rows[x].here => SeenOK(x, rows[x]))'
    BY <1>1, <1>10 DEF SeriesOK, RowsOK, SeenOK
  <2>2. ASSUME NEW x \in Occurrences, ~Alive(x), EtagOf(x) <= cycle.token
        PROVE  /\ rows'[x].here => Stuck(x)'
               /\ \A n \in Of(x)' : State(n)' \in ActiveStates => Stuck(x)'
    <3>1. /\ rows[x].here => Stuck(x)
          /\ \A n \in Of(x) : State(n) \in ActiveStates => Stuck(x)
      BY <2>2 DEF SeriesOK, RowsOK
    <3>2. \A n \in Of(x)' : n = new => x = o
      BY <1>3, <1>5, <1>7
    <3> QED
      BY <1>1, <1>3, <1>6, <1>7, <1>9, <3>1, <3>2
  <2> QED
    BY <1>1, <1>10, <2>1, <2>2 DEF RowsOK
<1> QED
  BY <1>12, <1>13, <1>14, <1>15, <1>16, <1>17, <1>18, <1>19, <1>20, <1>21, <1>22 DEF SeriesOK

LEMMA UserKeeps ==
  ASSUME SeriesOK, User, trouble' = trouble
  PROVE  SeriesOK'
<1>1. PICK o \in Occurrences, scope \in Scopes : Update(o, scope) \/ Delete(o, scope)
  BY DEF User
<1>2. rows \in [Occurrences -> EventRow]
  BY RestTyped DEF SeriesOK
<1>3. CASE Update(o, scope)
  BY <1>2, <1>3, QueueKeeps DEF Update
<1>4. CASE Delete(o, scope)
  <2>1. NoEventRow \in EventRow /\ ~NoEventRow.here
    BY BoundsTyped DEF NoEventRow, EventRow
  <2>2. rows' = [rows EXCEPT ![o] = NoEventRow] /\ Queue(o, "delete", scope)
    BY <1>4 DEF Delete
  <2>3. rows' \in [Occurrences -> EventRow] /\ ~rows'[o].here
        /\ \A x \in Occurrences : rows'[x].here => rows'[x] = rows[x]
    BY <1>2, <2>1, <2>2
  <2> QED
    BY <2>2, <2>3, QueueKeeps
<1> QED
  BY <1>1, <1>3, <1>4

-----------------------------------------------------------------------------
(* The worker leases: what is sent together is pending and has done        *)
(* nothing, or it is what was sent together before.                        *)

LEMMA UploadFacts ==
  ASSUME SeriesOK, NEW n \in Positions, Leasable(n)
  PROVE  /\ n \in UploadOf(n) /\ UploadOf(n) \subseteq Positions
         /\ State(n) \in {"pending", "ambiguous"}
         /\ \A k \in UploadOf(n) : /\ k \in Of(Occ(n)) /\ Occ(k) = Occ(n) /\ n <= k
                                   /\ (k # n => Kind(k) = "update") /\ State(k) = State(n)
                                   /\ \A j \in Of(Occ(n)) : n <= j /\ j <= k => j \in UploadOf(n)
         /\ State(n) = "ambiguous" => Lead(n) = n /\ UploadOf(n) = Group(n)
         /\ Last(UploadOf(n)) \in UploadOf(n)
<1>1. n \in Nat /\ Positions \subseteq Nat /\ Positions = 1 .. Len(ops) /\ Len(ops) \in Nat /\ n # 0
      /\ n \in Of(Occ(n)) /\ \A x : Of(x) \subseteq Positions
      /\ \A k \in Positions : Occ(k) = ops[k].occ /\ Kind(k) = ops[k].kind
      /\ \A j : j \in Of(Occ(n)) <=> j \in Positions /\ Occ(j) = Occ(n)
  BY SeriesOpsTyped DEF SeriesOK
<1>2. State(n) \in {"pending", "ambiguous"} /\ (State(n) = "ambiguous" => Lead(n) = n)
  BY DEF Leasable, State, Lead
<1>3. CASE Kind(n) = "delete"
  <2>1. UploadOf(n) = {n}
    BY <1>3 DEF UploadOf, Kind
  <2>2. ASSUME State(n) = "ambiguous" PROVE Group(n) = {n}
    <3>1. n \in Group(n)
      BY <1>2, <2>2 DEF Group, Doubtful
    <3>2. ASSUME NEW k \in Group(n) PROVE k = n
      <4>1. k \in Positions /\ Lead(k) = n /\ n \in Of(Occ(k)) /\ n <= k
        BY DEF SeriesOK, GroupsOK, Group
      <4>2. k \in Of(Occ(n))
        BY <1>1, <4>1, SeriesOpsTyped DEF SeriesOK
      <4>3. k <= n
        BY <1>3, <2>2, <4>2 DEF SeriesOK, QueueOK, ActiveStates
      <4> QED
        BY <1>1, <4>1, <4>3
    <3> QED
      BY <3>1, <3>2
  <2>3. Last({n}) = n
    BY <1>1 DEF Last
  <2> QED
    BY <1>1, <1>2, <2>1, <2>2, <2>3
<1>4. CASE Kind(n) # "delete"
  <2>1. UploadOf(n) = {n} \cup {k \in Of(Occ(n)) : k > n /\ \A j \in Of(Occ(n)) \cap (n + 1) .. k :
                                                       Kind(j) = "update" /\ Joins(n, j)}
    BY <1>4 DEF UploadOf, Kind, Occ
  <2>2. n \in UploadOf(n) /\ UploadOf(n) \subseteq Positions
    BY <1>1, <2>1
  <2>3. ASSUME NEW k \in UploadOf(n), k # n
        PROVE  /\ k \in Of(Occ(n)) /\ n < k
               /\ \A j \in Of(Occ(n)) : n < j /\ j <= k => Kind(j) = "update" /\ Joins(n, j)
    <3>1. /\ k \in Of(Occ(n)) /\ k > n /\ k \in Nat
          /\ \A j \in Of(Occ(n)) \cap (n + 1) .. k : Kind(j) = "update" /\ Joins(n, j)
      BY <1>1, <2>1, <2>3
    <3>2. \A j \in Of(Occ(n)) : n < j /\ j <= k => j \in (n + 1) .. k
      BY <1>1, <3>1
    <3> QED
      BY <1>1, <3>1, <3>2
  <2>4. ASSUME NEW k \in UploadOf(n)
        PROVE  /\ k \in Of(Occ(n)) /\ Occ(k) = Occ(n) /\ n <= k
               /\ (k # n => Kind(k) = "update") /\ State(k) = State(n)
               /\ \A j \in Of(Occ(n)) : n <= j /\ j <= k => j \in UploadOf(n)
    <3>1. CASE k = n
      <4>1. \A j \in Of(Occ(n)) : n <= j /\ j <= k => j = n
        BY <1>1, <3>1
      <4> QED
        BY <1>1, <2>2, <3>1, <4>1
    <3>2. CASE k # n
      <4>1. k \in Nat /\ k \in Of(Occ(n)) /\ n < k /\ Kind(k) = "update" /\ Joins(n, k)
        BY <1>1, <2>3, <3>2
      <4>2. State(k) = State(n)
        BY <1>2, <4>1 DEF Joins, State
      <4>3. ASSUME NEW j \in Of(Occ(n)), n <= j, j <= k PROVE j \in UploadOf(n)
        <5>1. CASE j = n
          BY <2>2, <5>1
        <5>2. CASE j # n
          <6>1. j \in Nat /\ j > n
            BY <1>1, <4>3, <5>2
          <6>2. \A i \in Of(Occ(n)) \cap (n + 1) .. j : n < i /\ i <= k
            BY <1>1, <4>1, <4>3, <6>1
          <6>3. \A i \in Of(Occ(n)) \cap (n + 1) .. j : Kind(i) = "update" /\ Joins(n, i)
            BY <2>3, <3>2, <6>2
          <6> QED
            BY <2>1, <6>1, <6>3
        <5> QED
          BY <5>1, <5>2
      <4> QED
        BY <1>1, <4>1, <4>2, <4>3
    <3> QED
      BY <3>1, <3>2
  <2>5. ASSUME State(n) = "ambiguous" PROVE UploadOf(n) = Group(n)
    <3>1. Lead(n) = n /\ n \in Group(n)
      BY <1>2, <2>5 DEF Group, Doubtful
    <3>2. ASSUME NEW k \in UploadOf(n), k # n PROVE k \in Group(n)
      <4>1. k \in Positions /\ k \in Nat /\ Joins(n, k)
        BY <1>1, <2>2, <2>3, <3>2
      <4>2. State(k) = "ambiguous" /\ Lead(k) = n
        BY <2>5, <3>1, <4>1 DEF Joins, State, Lead
      <4> QED
        BY <4>1, <4>2 DEF Group, Doubtful
    <3>3. ASSUME NEW k \in Group(n), k # n PROVE k \in UploadOf(n)
      <4>1. k \in Positions /\ k \in Nat /\ Doubtful(k) /\ Lead(k) = n
        BY <1>1 DEF Group
      <4>2. /\ n \in Of(Occ(k)) /\ n <= k
            /\ \A j \in Of(Occ(k)) : j < k =>
                 IF j < n THEN State(j) = "succeeded" ELSE State(j) = State(k) /\ Lead(j) = n
        BY <4>1 DEF SeriesOK, GroupsOK
      <4>3. Occ(k) = Occ(n) /\ k > n
        BY <1>1, <3>3, <4>1, <4>2, SeriesOpsTyped DEF SeriesOK
      <4>4. State(k) = "ambiguous"
        BY <1>1, <2>5, <4>1, <4>2, <4>3
      <4>5. ASSUME NEW j \in Of(Occ(n)), j \in (n + 1) .. k PROVE Kind(j) = "update" /\ Joins(n, j)
        <5>1. j \in Positions /\ j \in Nat /\ j > n /\ j <= k
          BY <1>1, <4>1, <4>5
        <5>2. State(j) = "ambiguous" /\ Lead(j) = n
          BY <1>1, <4>1, <4>2, <4>3, <4>4, <4>5, <5>1
        <5>3. Kind(j) = "update"
          BY <1>1, <5>1, <5>2 DEF SeriesOK, GroupsOK, Doubtful
        <5> QED
          BY <1>1, <2>5, <3>1, <5>2, <5>3 DEF Joins, State, Lead
      <4>6. k \in Of(Occ(n)) /\ k > n
        BY <1>1, <4>1, <4>3
      <4> QED
        BY <2>1, <4>5, <4>6
    <3> QED
      BY <2>2, <3>1, <3>2, <3>3
  <2>6. Last(UploadOf(n)) \in UploadOf(n)
    <3>1. UploadOf(n) \subseteq 0 .. Len(ops) /\ UploadOf(n) # {}
      BY <1>1, <2>2
    <3> QED
      BY <1>1, <3>1, LastIsLast
  <2> QED
    BY <1>2, <2>2, <2>4, <2>5, <2>6
<1> QED
  BY <1>3, <1>4

\* An operation has one lease, and it leads to the first of its upload.
LEMMA OneLease ==
  ASSUME SeriesOK, NEW n \in Positions, Leasable(n), NEW m \in Positions, Leasable(m), Occ(n) = Occ(m)
  PROVE  n = m
<1>1. n \in Nat /\ m \in Nat /\ n \in Of(Occ(m)) /\ m \in Of(Occ(n))
  BY SeriesOpsTyped DEF SeriesOK
<1>2. State(n) # "succeeded" /\ State(m) # "succeeded"
  BY DEF Leasable, State
<1>3. ~(n < m) /\ ~(m < n)
  BY <1>1, <1>2 DEF Leasable, State, Occ
<1> QED
  BY <1>1, <1>3

Leasing(S) == S \subseteq Positions /\ (\A n \in S : Leasable(n)) /\ Lease(S)

LEMMA BegunIs ==
  ASSUME SeriesOK, NEW n \in Positions, Leasable(n)
  PROVE  /\ Begun(n) \in Job /\ Begun(n).members = UploadOf(n) /\ Begun(n).from = State(n)
         /\ (Begun(n).member <=> KnownMember(Occ(n))) /\ Begun(n).at \in {"look", "read", "send"}
         /\ Begun(n).at = "look" => State(n) = "ambiguous"
         /\ Begun(n).at = "read" => Aim(Begun(n)) # "thisEvent"
<1>1. /\ UploadOf(n) \in SUBSET OpIds /\ State(n) \in {"pending", "ambiguous"}
      /\ KnownMember(Occ(n)) \in BOOLEAN
  <2>1. rows[Occ(n)].here \in BOOLEAN /\ rows[Occ(n)].member \in BOOLEAN /\ Positions \subseteq OpIds
    BY SeriesOpsTyped, RestTyped DEF SeriesOK
  <2> QED
    BY <2>1, UploadFacts DEF KnownMember
<1>2. NoJob \in Job
  BY BoundsTyped DEF NoJob, Job, NoEventRow, EventRow
<1>3. PICK job : job = [NoJob EXCEPT !.members = UploadOf(n), !.from = State(n),
                                     !.member = KnownMember(Occ(n))]
  OBVIOUS
<1>4. /\ job \in Job /\ job.members = UploadOf(n) /\ job.from = State(n)
      /\ (job.member <=> KnownMember(Occ(n)))
  BY <1>1, <1>2, <1>3 DEF Job
<1>5. PICK at : at = IF ops[n].state = "ambiguous" THEN "look" ELSE FirstStep(job)
  OBVIOUS
<1>6. Begun(n) = [job EXCEPT !.at = at]
  BY <1>3, <1>5 DEF Begun, State, Occ
<1>7. at \in {"look", "read", "send"} /\ (at = "look" => State(n) = "ambiguous")
      /\ (at = "read" => Aim(job) # "thisEvent")
  BY <1>5 DEF FirstStep, State
<1>8. /\ Begun(n) \in Job /\ Begun(n).at = at /\ Begun(n).members = job.members
      /\ Begun(n).from = job.from /\ Begun(n).member = job.member
  BY <1>4, <1>6, <1>7 DEF Job
<1>9. Aim(Begun(n)) = Aim(job)
  BY <1>8 DEF Aim
<1> QED
  BY <1>4, <1>7, <1>8, <1>9

LEMMA LeasingFacts ==
  ASSUME SeriesOK, NEW S, Leasing(S)
  PROVE  /\ UNCHANGED <<google, rows, history>> /\ cycle'.at = "idle" /\ cycle'.token = cycle.token
         /\ cycle' \in [at : {"idle", "open"}, token : Nat]
         /\ \A m \in OpIds : ~Busy(m)
         /\ \A m \in OpIds : jobs'[m] = IF m \in S THEN Begun(m) ELSE NoJob
         /\ jobs' \in [OpIds -> Job]
         /\ ops' \in Seq(Op) /\ Len(ops') = Len(ops) /\ Positions' = Positions
         /\ \A k \in Positions :
              /\ Occ(k)' = Occ(k) /\ Kind(k)' = Kind(k) /\ ops'[k].scope = ops[k].scope
              /\ (\A n \in S : k \notin UploadOf(n)) =>
                   State(k)' = State(k) /\ Lead(k)' = Lead(k) /\ (Doubtful(k)' <=> Doubtful(k))
              /\ \A n \in S : k \in UploadOf(n) =>
                   State(k)' = "syncing" /\ Lead(k)' = n /\ Doubtful(k)'
         /\ \A k : Did(k)' = Did(k)
         /\ \A o : Of(o)' = Of(o)
<1>1. /\ cycle.at = "open" /\ cycle' = [cycle EXCEPT !.at = "idle"]
      /\ jobs' = [n \in OpIds |-> IF n \in S THEN Begun(n) ELSE NoJob]
      /\ UNCHANGED <<google, rows, history>>
      /\ S \subseteq Positions /\ \A n \in S : Leasable(n)
      /\ ops' = [k \in Positions |->
                   IF {n \in S : k \in UploadOf(n)} = {} THEN ops[k]
                   ELSE [ops[k] EXCEPT !.state = "syncing", !.lead = Last({n \in S : k \in UploadOf(n)})]]
  BY DEF Leasing, Lease
<1>2. cycle \in [at : {"idle", "open"}, token : Nat]
  BY RestTyped DEF SeriesOK
<1>3. cycle'.at = "idle" /\ cycle'.token = cycle.token /\ cycle' \in [at : {"idle", "open"}, token : Nat]
  BY <1>1, <1>2
<1>4. \A m \in OpIds : ~Busy(m)
  BY <1>1 DEF SeriesOK, JobsOK
<1>5. jobs' \in [OpIds -> Job]
  <2>1. NoJob \in Job
    BY BoundsTyped DEF NoJob, Job, NoEventRow, EventRow
  <2>2. \A n \in S : Begun(n) \in Job
    BY <1>1, BegunIs
  <2> QED
    BY <1>1, <2>1, <2>2
<1>6. ASSUME NEW k \in Positions, NEW n \in S, k \in UploadOf(n)
      PROVE  {m \in S : k \in UploadOf(m)} = {n} /\ Last({n}) = n /\ n \in SeriesIds
  <2>1. ASSUME NEW m \in S, k \in UploadOf(m) PROVE m = n
    <3>1. Occ(m) = Occ(k) /\ Occ(n) = Occ(k)
      BY <1>1, <1>6, <2>1, UploadFacts
    <3> QED
      BY <1>1, <3>1, OneLease
  <2>2. n \in Nat /\ n \in SeriesIds
    BY <1>1, SeriesOpsTyped, BoundsTyped DEF SeriesOK
  <2>3. Last({n}) = n
    BY <2>2 DEF Last
  <2> QED
    BY <1>6, <2>1, <2>2, <2>3
<1>7. ASSUME NEW k \in Positions
      PROVE  /\ ops'[k] \in Op
             /\ ops'[k].occ = ops[k].occ /\ ops'[k].kind = ops[k].kind /\ ops'[k].scope = ops[k].scope
             /\ (\A n \in S : k \notin UploadOf(n)) => ops'[k] = ops[k]
             /\ \A n \in S : k \in UploadOf(n) => ops'[k].state = "syncing" /\ ops'[k].lead = n
  <2>1. ops[k] \in Op
    BY SeriesOpsTyped DEF SeriesOK
  <2>2. CASE \A n \in S : k \notin UploadOf(n)
    <3>1. {n \in S : k \in UploadOf(n)} = {}
      BY <2>2
    <3>2. ops'[k] = ops[k]
      BY <1>1, <3>1
    <3> QED
      BY <2>1, <2>2, <3>2
  <2>3. CASE \E n \in S : k \in UploadOf(n)
    <3>1. PICK n \in S : k \in UploadOf(n)
      BY <2>3
    <3>2. {m \in S : k \in UploadOf(m)} = {n} /\ Last({n}) = n /\ n \in SeriesIds
      BY <1>6, <3>1
    <3>3. ops'[k] = [ops[k] EXCEPT !.state = "syncing", !.lead = n]
      BY <1>1, <3>2
    <3>4. /\ ops'[k] \in Op
          /\ ops'[k].occ = ops[k].occ /\ ops'[k].kind = ops[k].kind /\ ops'[k].scope = ops[k].scope
          /\ ops'[k].state = "syncing" /\ ops'[k].lead = n
      BY <2>1, <3>2, <3>3 DEF Op, ActiveStates
    <3>5. \A m \in S : k \in UploadOf(m) => m = n
      BY <3>2
    <3> QED
      BY <3>1, <3>4, <3>5
  <2> QED
    BY <2>2, <2>3
<1>8. ops' \in Seq(Op) /\ Len(ops') = Len(ops)
  <2>1. ops' = [k \in Positions |-> ops'[k]]
    BY <1>1
  <2> QED
    BY <1>7, <2>1, OpsByPosition DEF SeriesOK
<1>9. Positions' = Positions
  BY <1>8 DEF Positions
<1>10. ASSUME NEW k \in Positions
       PROVE  /\ Occ(k)' = Occ(k) /\ Kind(k)' = Kind(k) /\ ops'[k].scope = ops[k].scope
              /\ (\A n \in S : k \notin UploadOf(n)) =>
                   State(k)' = State(k) /\ Lead(k)' = Lead(k) /\ (Doubtful(k)' <=> Doubtful(k))
              /\ \A n \in S : k \in UploadOf(n) =>
                   State(k)' = "syncing" /\ Lead(k)' = n /\ Doubtful(k)'
  BY <1>7 DEF Occ, Kind, State, Lead, Doubtful
<1>11. \A k : Did(k)' = Did(k)
  BY <1>1 DEF Did
<1>12. \A o : Of(o)' = Of(o)
  BY <1>7, <1>9 DEF Of
<1>13. \A m \in OpIds : jobs'[m] = IF m \in S THEN Begun(m) ELSE NoJob
  BY <1>1
<1> QED
  BY <1>1, <1>3, <1>4, <1>5, <1>8, <1>9, <1>10, <1>11, <1>12, <1>13

\* What is leased is told from the rest by its state, and groups are leased whole.
LEMMA LeasedApart ==
  ASSUME SeriesOK, NEW S, Leasing(S)
  PROVE  /\ \A k \in Positions, n \in S : k \in UploadOf(n) =>
              /\ n \in Positions /\ Occ(k) = Occ(n) /\ n <= k
              /\ State(k) = "pending" \/ (State(k) = "ambiguous" /\ Lead(k) = n /\ Doubtful(k))
              /\ State(k) = State(n)
         /\ \A k \in Positions, n \in S : Doubtful(k) /\ Lead(k) = n => k \in UploadOf(n)
         /\ \A n \in S : Group(n)' = UploadOf(n)
         /\ \A m : m \notin S => Group(m)' = Group(m)
<1>1. /\ \A m \in OpIds : ~Busy(m)
      /\ Positions' = Positions
      /\ \A k \in Positions :
           /\ (\A n \in S : k \notin UploadOf(n)) => Lead(k)' = Lead(k) /\ (Doubtful(k)' <=> Doubtful(k))
           /\ \A n \in S : k \in UploadOf(n) => Lead(k)' = n /\ Doubtful(k)'
  BY LeasingFacts
<1>2. S \subseteq Positions /\ \A n \in S : Leasable(n)
  BY DEF Leasing
<1>3. ASSUME NEW k \in Positions, NEW n \in S, k \in UploadOf(n)
      PROVE  /\ n \in Positions /\ Occ(k) = Occ(n) /\ n <= k
             /\ State(k) = "pending" \/ (State(k) = "ambiguous" /\ Lead(k) = n /\ Doubtful(k))
             /\ State(k) = State(n)
  <2>1. n \in Positions /\ Leasable(n)
    BY <1>2
  <2>2. /\ Occ(k) = Occ(n) /\ n <= k /\ State(k) = State(n) /\ State(n) \in {"pending", "ambiguous"}
        /\ State(n) = "ambiguous" => Lead(n) = n /\ UploadOf(n) = Group(n)
    BY <1>3, <2>1, UploadFacts
  <2>3. State(n) = "ambiguous" => Lead(k) = n /\ Doubtful(k)
    BY <1>3, <2>2 DEF Group
  <2> QED
    BY <2>1, <2>2, <2>3
<1>4. ASSUME NEW k \in Positions, NEW n \in S, Doubtful(k), Lead(k) = n PROVE k \in UploadOf(n)
  <2>1. State(k) = "ambiguous"
    <3>1. State(k) # "syncing"
      <4>1. n \in OpIds
        BY <1>2, SeriesOpsTyped DEF SeriesOK
      <4> QED
        BY <1>1, <1>4, <4>1 DEF SeriesOK, JobsOK
    <3> QED
      BY <1>4, <3>1 DEF Doubtful
  <2>2. State(n) = "ambiguous"
    <3>1. n \in Of(Occ(k)) /\ n <= k /\ n \in Nat /\ k \in Nat
      BY <1>2, <1>4, SeriesOpsTyped DEF SeriesOK, GroupsOK
    <3>2. n < k => State(n) = State(k)
      BY <1>4, <3>1 DEF SeriesOK, GroupsOK
    <3> QED
      BY <2>1, <3>1, <3>2
  <2>3. UploadOf(n) = Group(n)
    BY <1>2, <2>2, UploadFacts
  <2> QED
    BY <1>4, <2>3 DEF Group
<1>5. ASSUME NEW n \in S PROVE Group(n)' = UploadOf(n)
  <2>1. UploadOf(n) \subseteq Positions
    BY <1>2, UploadFacts
  <2>2. ASSUME NEW k \in Positions, Doubtful(k)', Lead(k)' = n PROVE k \in UploadOf(n)
    <3>1. CASE \E m \in S : k \in UploadOf(m)
      BY <1>1, <2>2, <3>1
    <3>2. CASE \A m \in S : k \notin UploadOf(m)
      BY <1>1, <1>4, <2>2, <3>2
    <3> QED
      BY <3>1, <3>2
  <2>3. Group(n)' = {k \in Positions' : Doubtful(k)' /\ Lead(k)' = n}
    BY DEF Group
  <2>4. \A k \in UploadOf(n) : Doubtful(k)' /\ Lead(k)' = n
    BY <1>1, <2>1
  <2> QED
    BY <1>1, <2>1, <2>2, <2>3, <2>4
<1>6. ASSUME NEW m, m \notin S PROVE Group(m)' = Group(m)
  <2>1. ASSUME NEW k \in Positions PROVE (Doubtful(k)' /\ Lead(k)' = m) <=> (Doubtful(k) /\ Lead(k) = m)
    <3>1. CASE \E n \in S : k \in UploadOf(n)
      <4>1. PICK n \in S : k \in UploadOf(n)
        BY <3>1
      <4>2. Lead(k)' = n /\ n # m
        BY <1>1, <1>6, <4>1
      <4>3. ~(Doubtful(k) /\ Lead(k) = m)
        BY <1>3, <4>1, <4>2 DEF Doubtful
      <4> QED
        BY <4>2, <4>3
    <3>2. CASE \A n \in S : k \notin UploadOf(n)
      BY <1>1, <3>2
    <3> QED
      BY <3>1, <3>2
  <2> QED
    BY <1>1, <2>1 DEF Group
<1> QED
  BY <1>3, <1>4, <1>5, <1>6

LEMMA LeasingKeeps ==
  ASSUME SeriesOK, NEW S, Leasing(S), trouble' = trouble
  PROVE  SeriesOK'
<1>1. /\ UNCHANGED <<google, rows, history>> /\ cycle'.at = "idle" /\ cycle'.token = cycle.token
      /\ cycle' \in [at : {"idle", "open"}, token : Nat]
      /\ \A m \in OpIds : ~Busy(m)
      /\ \A m \in OpIds : jobs'[m] = IF m \in S THEN Begun(m) ELSE NoJob
      /\ jobs' \in [OpIds -> Job]
      /\ ops' \in Seq(Op) /\ Len(ops') = Len(ops) /\ Positions' = Positions
  BY LeasingFacts
<1>2. /\ \A k \in Positions :
           /\ Occ(k)' = Occ(k) /\ Kind(k)' = Kind(k) /\ ops'[k].scope = ops[k].scope
           /\ (\A n \in S : k \notin UploadOf(n)) =>
                State(k)' = State(k) /\ Lead(k)' = Lead(k) /\ (Doubtful(k)' <=> Doubtful(k))
           /\ \A n \in S : k \in UploadOf(n) =>
                State(k)' = "syncing" /\ Lead(k)' = n /\ Doubtful(k)'
      /\ \A k : Did(k)' = Did(k)
      /\ \A o : Of(o)' = Of(o)
  BY LeasingFacts
<1>3. /\ \A k \in Positions, n \in S : k \in UploadOf(n) =>
           /\ n \in Positions /\ Occ(k) = Occ(n) /\ n <= k
           /\ State(k) = "pending" \/ (State(k) = "ambiguous" /\ Lead(k) = n /\ Doubtful(k))
           /\ State(k) = State(n)
      /\ \A k \in Positions, n \in S : Doubtful(k) /\ Lead(k) = n => k \in UploadOf(n)
      /\ \A n \in S : Group(n)' = UploadOf(n)
      /\ \A m : m \notin S => Group(m)' = Group(m)
  BY LeasedApart
<1>4. S \subseteq Positions /\ \A n \in S : Leasable(n)
  BY DEF Leasing
<1>5. Positions \subseteq OpIds /\ Positions \subseteq Nat /\ \A o : Of(o) \subseteq Positions
  BY SeriesOpsTyped DEF SeriesOK
<1>6. ASSUME NEW k \in Positions
      PROVE  /\ (Lost(k)' <=> Lost(k)) /\ (State(k)' = "succeeded" <=> State(k) = "succeeded")
             /\ (State(k)' \in ActiveStates <=> State(k) \in ActiveStates)
             /\ State(k)' = "pending" => State(k) = "pending"
  <2>1. CASE \E n \in S : k \in UploadOf(n)
    <3>1. State(k)' = "syncing" /\ State(k) \in {"pending", "ambiguous"}
      BY <1>2, <1>3, <2>1
    <3> QED
      BY <3>1 DEF Lost, ActiveStates
  <2>2. CASE \A n \in S : k \notin UploadOf(n)
    <3>1. State(k)' = State(k)
      BY <1>2, <2>2
    <3> QED
      BY <3>1 DEF Lost
  <2> QED
    BY <2>1, <2>2
<1>7. \A o : (Alive(o)' <=> Alive(o)) /\ EtagOf(o)' = EtagOf(o) /\ ValueOf(o)' = ValueOf(o)
             /\ (Stuck(o)' <=> Stuck(o)) /\ Master(o)' = Master(o)
  BY <1>1, <1>2, <1>5, <1>6 DEF Alive, EtagOf, ValueOf, Master, Stuck
<1>8. SeriesTypeOK'
  BY <1>1 DEF SeriesOK, SeriesTypeOK
<1>9. QueueOK'
  <2>1. google'.series[0].there /\ \A r \in SeriesIds : google'.series[r].there /\ r # 0 => r \in Positions
    BY <1>1 DEF SeriesOK, QueueOK
  <2>2. (\A n \in Positions : Occ(n)[1] < n /\ google.series[Occ(n)[1]].there)'
    BY <1>1, <1>2 DEF SeriesOK, QueueOK
  <2>3. (\A o \in Occurrences : rows[o].here => Master(o).there)'
    BY <1>1, <1>7 DEF SeriesOK, QueueOK
  <2>4. (\A n \in Positions : Kind(n) = "delete" /\ State(n) \in ActiveStates =>
           ~rows[Occ(n)].here /\ \A k \in Of(Occ(n)) : k <= n)'
    BY <1>1, <1>2, <1>6 DEF SeriesOK, QueueOK
  <2>5. (\A n \in Positions : Lost(n) => \A k \in Of(Occ(n)) : k < n => State(k) = "succeeded" \/ Lost(k))'
    BY <1>1, <1>2, <1>5, <1>6 DEF SeriesOK, QueueOK
  <2> QED
    BY <1>1, <2>1, <2>2, <2>3, <2>4, <2>5 DEF QueueOK
<1>10. StampsOK'
  BY <1>1 DEF SeriesOK, StampsOK
<1>11. GroupsOK'
  <2> SUFFICES ASSUME NEW k \in Positions, Doubtful(k)'
               PROVE  /\ Lead(k)' \in Of(Occ(k)) /\ Lead(k)' <= k
                      /\ k # Lead(k)' => Kind(k) = "update"
                      /\ \A j \in Of(Occ(k)) : j < k =>
                           IF j < Lead(k)' THEN State(j)' = "succeeded"
                           ELSE State(j)' = State(k)' /\ Lead(j)' = Lead(k)'
    BY <1>1, <1>2 DEF GroupsOK
  <2>1. CASE \E n \in S : k \in UploadOf(n)
    <3>1. PICK n \in S : k \in UploadOf(n)
      BY <2>1
    <3>2. n \in Positions /\ Leasable(n)
      BY <1>4
    <3>3. /\ n \in UploadOf(n) /\ k \in Of(Occ(n)) /\ Occ(k) = Occ(n) /\ n <= k /\ (k # n => Kind(k) = "update")
          /\ \A j \in Of(Occ(n)) : n <= j /\ j <= k => j \in UploadOf(n)
      BY <3>1, <3>2, UploadFacts
    <3>4. State(k)' = "syncing" /\ Lead(k)' = n
      BY <1>2, <3>1
    <3>5. n \in Of(Occ(k))
      BY <3>2, <3>3, SeriesOpsTyped DEF SeriesOK
    <3>6. ASSUME NEW j \in Of(Occ(k)), j < k
          PROVE  IF j < n THEN State(j)' = "succeeded" ELSE State(j)' = "syncing" /\ Lead(j)' = n
      <4>1. j \in Positions /\ j \in Nat /\ n \in Nat /\ k \in Nat
        BY <1>5, <3>2
      <4>2. CASE j < n
        <5>1. State(j) = "succeeded"
          BY <3>2, <3>3, <3>6, <4>2 DEF Leasable, State, Occ
        <5> QED
          BY <1>6, <4>1, <4>2, <5>1
      <4>3. CASE ~(j < n)
        <5>1. j \in UploadOf(n)
          BY <3>3, <3>6, <4>1, <4>3
        <5> QED
          BY <1>2, <4>1, <4>3, <5>1
      <4> QED
        BY <4>2, <4>3
    <3> QED
      BY <3>3, <3>4, <3>5, <3>6
  <2>2. CASE \A n \in S : k \notin UploadOf(n)
    <3>1. Doubtful(k) /\ State(k)' = State(k) /\ Lead(k)' = Lead(k)
      BY <1>2, <2>2
    <3>2. /\ Lead(k) \in Of(Occ(k)) /\ Lead(k) <= k
          /\ k # Lead(k) => Kind(k) = "update"
          /\ \A j \in Of(Occ(k)) : j < k =>
               IF j < Lead(k) THEN State(j) = "succeeded" ELSE State(j) = State(k) /\ Lead(j) = Lead(k)
      BY <3>1 DEF SeriesOK, GroupsOK
    <3>3. ASSUME NEW j \in Of(Occ(k)), j < k
          PROVE  IF j < Lead(k) THEN State(j)' = "succeeded" ELSE State(j)' = State(k) /\ Lead(j)' = Lead(k)
      <4>1. j \in Positions
        BY <1>5
      <4>2. CASE j < Lead(k)
        BY <1>6, <3>2, <3>3, <4>1, <4>2
      <4>3. CASE ~(j < Lead(k))
        <5>1. State(j) = State(k) /\ Lead(j) = Lead(k) /\ Doubtful(j)
          BY <3>1, <3>2, <3>3, <4>3 DEF Doubtful
        <5>2. ASSUME NEW n \in S, j \in UploadOf(n) PROVE FALSE
          <6>1. Lead(j) = n
            BY <1>3, <4>1, <5>1, <5>2 DEF Doubtful
          <6>2. k \in UploadOf(n)
            BY <1>3, <3>1, <5>1, <6>1
          <6> QED
            BY <2>2, <6>2
        <5> QED
          BY <1>2, <4>1, <4>3, <5>1, <5>2
      <4> QED
        BY <4>2, <4>3
    <3> QED
      BY <3>1, <3>2, <3>3
  <2> QED
    BY <2>1, <2>2
<1>12. ASSUME NEW m \in OpIds, Busy(m)' PROVE m \in S /\ jobs'[m] = Begun(m)
  BY <1>1, <1>12 DEF Busy, NoJob
<1>13. JobsOK'
  <2>1. ASSUME NEW k \in Positions, NEW m \in OpIds, State(k)' = "syncing", Lead(k)' = m PROVE Busy(m)'
    <3>1. CASE \E n \in S : k \in UploadOf(n)
      <4>1. m \in S
        BY <1>2, <2>1, <3>1
      <4>2. Begun(m).at # "none"
        BY <1>4, <4>1, BegunIs
      <4> QED
        BY <1>1, <4>1, <4>2 DEF Busy
    <3>2. CASE \A n \in S : k \notin UploadOf(n)
      <4>1. State(k) = "syncing" /\ Lead(k) = m
        BY <1>2, <2>1, <3>2
      <4> QED
        BY <1>1, <4>1 DEF SeriesOK, JobsOK
    <3> QED
      BY <3>1, <3>2
  <2>2. ASSUME NEW m \in OpIds, Busy(m)'
        PROVE  m \in Positions /\ State(m)' = "syncing" /\ Lead(m)' = m /\ jobs'[m].members = Group(m)'
    <3>1. m \in S /\ jobs'[m] = Begun(m) /\ m \in Positions /\ Leasable(m)
      BY <1>4, <1>12, <2>2
    <3>2. Begun(m).members = UploadOf(m) /\ m \in UploadOf(m)
      BY <3>1, BegunIs, UploadFacts
    <3> QED
      BY <1>2, <1>3, <3>1, <3>2
  <2> QED
    BY <1>1, <2>1, <2>2 DEF JobsOK
<1>14. StepsOK'
  <2> SUFFICES ASSUME NEW m \in OpIds, Busy(m)' PROVE JobOK(m, jobs[m])'
    BY DEF StepsOK
  <2>1. m \in S /\ jobs'[m] = Begun(m) /\ m \in Positions /\ Leasable(m)
    BY <1>4, <1>12
  <2>2. PICK job : job = Begun(m)
    OBVIOUS
  <2>3. /\ job.members = UploadOf(m) /\ job.from = State(m)
        /\ (job.member <=> KnownMember(Occ(m))) /\ job.at \in {"look", "read", "send"}
        /\ job.at = "look" => State(m) = "ambiguous"
        /\ job.at = "read" => Aim(job) # "thisEvent"
    BY <2>1, <2>2, BegunIs
  <2>4. Last(job.members) \in Positions /\ State(m) \in {"pending", "ambiguous"}
    BY <2>1, <2>3, UploadFacts
  <2>5. Aim(job)' = Aim(job)
    BY <1>2, <2>4 DEF Aim
  <2>6. Kind(m)' = Kind(m) /\ Did(m)' = Did(m)
    BY <1>2, <2>1
  <2>7. job.member => Kind(m) = "update"
    <3>1. State(m) \in ActiveStates /\ Kind(m) \in {"update", "delete"}
      BY <2>1, <2>4, SeriesOpsTyped DEF SeriesOK, ActiveStates
    <3> QED
      BY <2>1, <2>3, <3>1 DEF SeriesOK, QueueOK, KnownMember
  <2>8. job.from = "pending" => Did(m) = {}
    BY <1>5, <2>1, <2>3 DEF SeriesOK, WritesOK
  <2>9. AimOK(m, job)'
    BY <2>3, <2>5, <2>6, <2>7, <2>8 DEF AimOK
  <2>10. JobOK(m, job)'
    BY <2>3, <2>9 DEF JobOK
  <2>11. jobs'[m] = job
    BY <2>1, <2>2
  <2> QED
    BY <2>10, <2>11
<1>15. WritesOK'
  <2>1. (\A n \in OpIds : n \notin Positions \/ State(n) = "pending" => Did(n) = {})'
    BY <1>1, <1>2, <1>6 DEF SeriesOK, WritesOK
  <2>2. ASSUME NEW k \in Positions, Doubtful(k)' PROVE Did(k) = Did(Lead(k)')
    <3>1. CASE \E n \in S : k \in UploadOf(n)
      <4>1. PICK n \in S : k \in UploadOf(n)
        BY <3>1
      <4>2. Lead(k)' = n /\ State(k) = State(n) /\ n \in OpIds /\ k \in OpIds
            /\ (State(k) = "pending" \/ (Lead(k) = n /\ Doubtful(k)))
        BY <1>2, <1>3, <1>5, <4>1
      <4>3. State(k) = "pending" => Did(k) = Did(n)
        BY <4>2 DEF SeriesOK, WritesOK
      <4>4. Doubtful(k) => Did(k) = Did(Lead(k))
        BY DEF SeriesOK, WritesOK
      <4> QED
        BY <4>2, <4>3, <4>4
    <3>2. CASE \A n \in S : k \notin UploadOf(n)
      BY <1>2, <2>2, <3>2 DEF SeriesOK, WritesOK
    <3> QED
      BY <3>1, <3>2
  <2>3. (\A k \in Positions : Doubtful(k) => Did(k) = Did(Lead(k)))'
    BY <1>1, <2>2 DEF Did
  <2>4. ASSUME NEW n \in Positions, "trim" \in Did(n)
        PROVE  /\ Kind(n) = "update"
               /\ \A s \in Master(Occ(n)).slots : s < Occ(n)[2]
               /\ Doubtful(n)' /\ Lead(n)' = n => ops'[Last(Group(n)')].scope = "thisAndFollowing"
    <3>1. /\ Kind(n) = "update"
          /\ \A s \in Master(Occ(n)).slots : s < Occ(n)[2]
          /\ Doubtful(n) /\ Lead(n) = n => ops[Last(Group(n))].scope = "thisAndFollowing"
      BY <2>4 DEF SeriesOK, WritesOK
    <3>2. State(n) # "pending"
      BY <1>5, <2>4 DEF SeriesOK, WritesOK
    <3>3. ASSUME Doubtful(n)', Lead(n)' = n
          PROVE  Doubtful(n) /\ Lead(n) = n /\ Group(n)' = Group(n)
      <4>1. CASE n \in S
        <5>1. n \in UploadOf(n) /\ State(n) = "ambiguous" /\ Lead(n) = n /\ UploadOf(n) = Group(n)
          BY <1>4, <3>2, <4>1, UploadFacts
        <5> QED
          BY <1>3, <4>1, <5>1 DEF Doubtful
      <4>2. CASE n \notin S
        <5>1. \A m \in S : n \notin UploadOf(m)
          BY <1>2, <3>3, <4>2
        <5> QED
          BY <1>2, <1>3, <3>3, <4>2, <5>1
      <4> QED
        BY <4>1, <4>2
    <3>4. Doubtful(n) /\ Lead(n) = n => Last(Group(n)) \in Positions
      <4>1. ASSUME Doubtful(n), Lead(n) = n PROVE Last(Group(n)) \in Group(n)
        <5>1. n \in Group(n) /\ Group(n) \subseteq 0 .. Len(ops) /\ Len(ops) \in Nat
          BY <4>1, SeriesOpsTyped DEF SeriesOK, Group
        <5> QED
          BY <5>1, LastIsLast
      <4> QED
        BY <4>1 DEF Group
    <3> QED
      BY <1>2, <3>1, <3>3, <3>4
  <2>5. (\A n \in Positions : "trim" \in Did(n) =>
           /\ Kind(n) = "update"
           /\ \A s \in Master(Occ(n)).slots : s < Occ(n)[2]
           /\ Doubtful(n) /\ Lead(n) = n => ops[Last(Group(n))].scope = "thisAndFollowing")'
    <3>1. \A n \in Positions : Master(Occ(n))' = Master(Occ(n))
      BY <1>1, <1>2 DEF Master
    <3> QED
      BY <1>1, <1>2, <2>4, <3>1
  <2>6. (\A n \in OpIds : google.series[n].there =>
          {"trim", "tail"} \subseteq Did(n) /\ \A s \in google.series[n].slots : s >= Occ(n)[2])'
    BY <1>1, <1>2, BoundsTyped DEF SeriesOK, WritesOK, QueueOK
  <2> QED
    BY <2>1, <2>3, <2>5, <2>6 DEF WritesOK
<1>16. ValuesOK'
  BY <1>1, <1>2 DEF SeriesOK, ValuesOK
<1>17. CoverOK'
  <2>1. ASSUME NEW m \in Positions, NEW r, NEW s, Took(m, r, s) PROVE Took(m, r, s)'
    <3>1. "trim" \in Did(m) /\ (google.series[m].there
                                \/ (State(m) # "succeeded" /\ (Doubtful(m) => Lead(m) = m)))
      BY <2>1 DEF Took
    <3>2. State(m) # "pending"
      BY <1>5, <3>1 DEF SeriesOK, WritesOK
    <3>3. ASSUME Doubtful(m) => Lead(m) = m, Doubtful(m)' PROVE Lead(m)' = m
      <4>1. CASE \E n \in S : m \in UploadOf(n)
        BY <1>2, <1>3, <3>2, <3>3, <4>1
      <4>2. CASE \A n \in S : m \notin UploadOf(n)
        BY <1>2, <3>3, <4>2
      <4> QED
        BY <4>1, <4>2
    <3> QED
      BY <1>1, <1>2, <1>6, <2>1, <3>1, <3>3 DEF Took
  <2>2. ASSUME NEW r \in SeriesIds, NEW s \in Slots, google'.series[r].there, r = 0 \/ s >= Occ(r)'[2]
        PROVE  s \in google'.series[r].slots \/ \E m \in Positions : Took(m, r, s)'
    <3>1. r = 0 \/ s >= Occ(r)[2]
      BY <1>1, <1>2, <2>2 DEF SeriesOK, QueueOK
    <3>2. s \in google.series[r].slots \/ \E m \in Positions : Took(m, r, s)
      BY <1>1, <2>2, <3>1 DEF SeriesOK, CoverOK
    <3> QED
      BY <1>1, <2>1, <3>2
  <2> QED
    BY <1>1, <2>2 DEF CoverOK
<1>18. OutcomesOK'
  <2> SUFFICES ASSUME NEW k \in Positions, State(k)' = "succeeded" PROVE DoneOK(k)'
    BY <1>1 DEF OutcomesOK
  <2>1. DoneOK(k) /\ Occ(k)' = Occ(k) /\ Kind(k)' = Kind(k)
    BY <1>2, <1>6 DEF SeriesOK, OutcomesOK
  <2> QED
    BY <1>1, <2>1 DEF DoneOK, Touched, Alive, Master
<1>19. RowsOK'
  <2>1. (\A o \in Occurrences : rows[o].here => SeenOK(o, rows[o]))'
    BY <1>1, <1>7 DEF SeriesOK, RowsOK, SeenOK
  <2>2. ASSUME NEW o \in Occurrences, ~Alive(o), EtagOf(o) <= cycle.token
        PROVE  /\ rows[o].here => Stuck(o)
               /\ \A n \in Of(o) : State(n)' \in ActiveStates => Stuck(o)
    BY <1>5, <1>6, <2>2 DEF SeriesOK, RowsOK
  <2> QED
    BY <1>1, <1>2, <1>7, <2>1, <2>2 DEF RowsOK
<1> QED
  BY <1>8, <1>9, <1>10, <1>11, <1>13, <1>14, <1>15, <1>16, <1>17, <1>18, <1>19 DEF SeriesOK

LEMMA LeaseKeeps ==
  ASSUME SeriesOK, LeaseAll \/ LeaseSome, trouble' = trouble
  PROVE  SeriesOK'
<1>1. \A s : Due(s) \subseteq Positions /\ \A n \in Due(s) : Leasable(n)
  BY DEF Due
<1>2. CASE LeaseAll
  <2>1. Leasing(Due("pending") \cup Due("ambiguous"))
    BY <1>1, <1>2 DEF LeaseAll, Leasing
  <2> QED
    BY <2>1, LeasingKeeps
<1>3. CASE LeaseSome
  <2>1. PICK S \in SUBSET Due("ambiguous") : Lease(Due("pending") \cup S)
    BY <1>3 DEF LeaseSome
  <2>2. Leasing(Due("pending") \cup S)
    BY <1>1, <2>1 DEF Leasing
  <2> QED
    BY <2>2, LeasingKeeps
<1> QED
  BY <1>2, <1>3

-----------------------------------------------------------------------------
(* A pull: an occurrence that has changed puts its edits in conflict all   *)
(* together, and what the row shows afterwards is what Google has.         *)

LEMMA RebasedTogether ==
  ASSUME NEW op \in Op, NEW old \in EventRow, NEW new \in EventRow
  PROVE  LET x == Rebased(op, old, new) IN
         /\ x \in Op /\ x.occ = op.occ /\ x.kind = op.kind /\ x.scope = op.scope /\ x.lead = op.lead
         /\ x.state # op.state =>
              x.state = "conflict" /\ op.state \in ActiveStates /\ old.here /\ old.val # new.val
         /\ op.kind = "update" /\ old.here /\ old.val # new.val /\ op.state \in ActiveStates =>
              x.state = "conflict"
<1> DEFINE x == Rebased(op, old, new)
<1>1. /\ x \in Op /\ x.occ = op.occ /\ x.kind = op.kind /\ x.scope = op.scope /\ x.lead = op.lead
      /\ x.state = op.state \/ x.state = "conflict"
      /\ op.state = "succeeded" => x = op
      /\ x.state # op.state => old.here /\ old.val # new.val
  BY RebasedTyped
<1>2. op.state \in ActiveStates \cup {"succeeded"}
  BY DEF Op
<1>3. ASSUME op.kind = "update", old.here, old.val # new.val, op.state \in ActiveStates
      PROVE  x.state = "conflict"
  <2>1. CASE op.state = "conflict"
    BY <1>1, <2>1
  <2>2. CASE op.state # "conflict"
    <3>1. x = [op EXCEPT !.state = "conflict"]
      BY <1>3, <2>2 DEF Rebased, ActiveStates
    <3> HIDE DEF x
    <3> QED
      BY <3>1 DEF Op
  <2> QED
    BY <2>1, <2>2
<1> QED
  BY <1>1, <1>2, <1>3

LEMMA PullFacts ==
  ASSUME SeriesOK, Pull
  PROVE  /\ UNCHANGED <<google, jobs, history>> /\ cycle' = [at |-> "open", token |-> google.clock]
         /\ \A m \in OpIds : ~Busy(m)
         /\ ops' \in Seq(Op) /\ Len(ops') = Len(ops) /\ Positions' = Positions
         /\ \A k \in Positions :
              /\ Occ(k)' = Occ(k) /\ Kind(k)' = Kind(k) /\ Lead(k)' = Lead(k) /\ ops'[k].scope = ops[k].scope
              /\ State(k)' # State(k) =>
                   /\ State(k)' = "conflict" /\ State(k) \in ActiveStates /\ Listed(Occ(k))
                   /\ \A j \in Of(Occ(k)) : State(j) \in ActiveStates => State(j)' = "conflict"
              /\ Listed(Occ(k)) /\ ~Alive(Occ(k)) /\ State(k) \in ActiveStates => State(k)' = "conflict"
         /\ \A o : Of(o)' = Of(o)
<1>1. /\ Idle /\ UNCHANGED <<google, jobs, history>> /\ cycle' = [at |-> "open", token |-> google.clock]
      /\ ops' = [k \in Positions |->
                   IF ~Listed(ops[k].occ) THEN ops[k]
                   ELSE IF Alive(ops[k].occ) THEN Rebased(ops[k], rows[ops[k].occ], Remote(ops[k].occ))
                   ELSE IF ops[k].state \in ActiveStates THEN [ops[k] EXCEPT !.state = "conflict"] ELSE ops[k]]
  BY DEF Pull
<1>2. \A m \in OpIds : ~Busy(m)
  BY <1>1 DEF Idle, Busy
<1>3. ASSUME NEW k \in Positions
      PROVE  /\ ops'[k] \in Op /\ ops'[k].occ = ops[k].occ /\ ops'[k].kind = ops[k].kind
             /\ ops'[k].scope = ops[k].scope /\ ops'[k].lead = ops[k].lead
             /\ ops'[k].state # ops[k].state =>
                  /\ ops'[k].state = "conflict" /\ ops[k].state \in ActiveStates /\ Listed(ops[k].occ)
                  /\ Alive(ops[k].occ) =>
                       rows[ops[k].occ].here /\ rows[ops[k].occ].val # Remote(ops[k].occ).val
             /\ Listed(ops[k].occ) /\ ~Alive(ops[k].occ) /\ ops[k].state \in ActiveStates =>
                  ops'[k].state = "conflict"
             /\ /\ Listed(ops[k].occ) /\ Alive(ops[k].occ) /\ ops[k].kind = "update"
                /\ ops[k].state \in ActiveStates
                /\ rows[ops[k].occ].here /\ rows[ops[k].occ].val # Remote(ops[k].occ).val
                => ops'[k].state = "conflict"
  <2>1. ops[k] \in Op /\ ops[k].occ \in Occurrences
    BY SeriesOpsTyped DEF SeriesOK, Occ
  <2>2. PICK op \in Op : op = ops[k]
    BY <2>1
  <2>3. PICK o \in Occurrences : o = ops[k].occ
    BY <2>1
  <2>4. rows[o] \in EventRow /\ Remote(o) \in EventRow
    BY RestTyped, GoogleTyped DEF SeriesOK
  <2>5. CASE ~Listed(o)
    <3>1. ops'[k] = op
      BY <1>1, <2>2, <2>3, <2>5
    <3> QED
      BY <2>2, <2>3, <2>5, <3>1
  <2>6. CASE Listed(o) /\ Alive(o)
    <3>1. PICK old \in EventRow, new \in EventRow : old = rows[o] /\ new = Remote(o)
      BY <2>4
    <3>2. PICK x : x = Rebased(op, old, new)
      OBVIOUS
    <3>3. ops'[k] = x
      BY <1>1, <2>2, <2>3, <2>6, <3>1, <3>2
    <3>4. /\ x \in Op /\ x.occ = op.occ /\ x.kind = op.kind /\ x.scope = op.scope /\ x.lead = op.lead
          /\ x.state # op.state =>
               x.state = "conflict" /\ op.state \in ActiveStates /\ old.here /\ old.val # new.val
          /\ op.kind = "update" /\ old.here /\ old.val # new.val /\ op.state \in ActiveStates =>
               x.state = "conflict"
      BY <3>2, RebasedTogether
    <3> QED
      BY <2>2, <2>3, <2>6, <3>1, <3>3, <3>4
  <2>7. CASE Listed(o) /\ ~Alive(o)
    <3>1. ops'[k] = IF op.state \in ActiveStates THEN [op EXCEPT !.state = "conflict"] ELSE op
      BY <1>1, <2>2, <2>3, <2>7
    <3>2. /\ ops'[k] \in Op /\ ops'[k].occ = op.occ /\ ops'[k].kind = op.kind
          /\ ops'[k].scope = op.scope /\ ops'[k].lead = op.lead
          /\ op.state \in ActiveStates => ops'[k].state = "conflict"
          /\ op.state \notin ActiveStates => ops'[k].state = op.state
      <4>1. CASE op.state \in ActiveStates
        <5>1. ops'[k] = [op EXCEPT !.state = "conflict"]
          BY <3>1, <4>1
        <5> QED
          BY <4>1, <5>1 DEF Op, ActiveStates
      <4>2. CASE op.state \notin ActiveStates
        BY <3>1, <4>2
      <4> QED
        BY <4>1, <4>2
    <3> QED
      BY <2>2, <2>3, <2>7, <3>2
  <2> QED
    BY <2>3, <2>5, <2>6, <2>7
<1>4. ops' \in Seq(Op) /\ Len(ops') = Len(ops)
  <2>1. ops' = [k \in Positions |-> ops'[k]]
    BY <1>1
  <2> QED
    BY <1>3, <2>1, OpsByPosition DEF SeriesOK
<1>5. Positions' = Positions
  BY <1>4 DEF Positions
<1>6. \A o : Of(o)' = Of(o)
  BY <1>3, <1>5 DEF Of
<1>7. ASSUME NEW k \in Positions
      PROVE  /\ Occ(k)' = Occ(k) /\ Kind(k)' = Kind(k) /\ Lead(k)' = Lead(k) /\ ops'[k].scope = ops[k].scope
             /\ State(k)' # State(k) =>
                   /\ State(k)' = "conflict" /\ State(k) \in ActiveStates /\ Listed(Occ(k))
                   /\ \A j \in Of(Occ(k)) : State(j) \in ActiveStates => State(j)' = "conflict"
             /\ Listed(Occ(k)) /\ ~Alive(Occ(k)) /\ State(k) \in ActiveStates => State(k)' = "conflict"
  <2>1. PICK o \in Occurrences : o = ops[k].occ
    BY SeriesOpsTyped DEF SeriesOK, Occ
  <2>2. ASSUME State(k)' # State(k), NEW j \in Of(o), State(j) \in ActiveStates PROVE State(j)' = "conflict"
    <3>1. /\ j \in Positions /\ ops[j].occ = o /\ ops[j].state \in ActiveStates /\ Occ(j) = o
          /\ Kind(j) \in {"update", "delete"} /\ ops[j].kind = Kind(j)
      BY <2>2, SeriesOpsTyped DEF SeriesOK, State, Occ
    <3>2. Listed(o) /\ (Alive(o) => rows[o].here /\ rows[o].val # Remote(o).val)
      BY <1>3, <2>1, <2>2 DEF State
    <3>3. CASE Alive(o)
      <4>1. Kind(j) = "update"
        BY <2>2, <3>1, <3>2, <3>3 DEF SeriesOK, QueueOK
      <4> QED
        BY <1>3, <3>1, <3>2, <3>3, <4>1 DEF State
    <3>4. CASE ~Alive(o)
      BY <1>3, <3>1, <3>2, <3>4 DEF State
    <3> QED
      BY <3>3, <3>4
  <2>3. Occ(k) = o
    BY <2>1 DEF Occ
  <2>4. /\ State(k)' # State(k) =>
             State(k)' = "conflict" /\ State(k) \in ActiveStates /\ Listed(o)
        /\ Listed(o) /\ ~Alive(o) /\ State(k) \in ActiveStates => State(k)' = "conflict"
    BY <1>3, <2>1 DEF State
  <2>5. /\ Occ(k)' = Occ(k) /\ Kind(k)' = Kind(k) /\ Lead(k)' = Lead(k) /\ ops'[k].scope = ops[k].scope
    BY <1>3 DEF Occ, Kind, Lead
  <2> QED
    BY <2>2, <2>3, <2>4, <2>5
<1> QED
  BY <1>1, <1>2, <1>4, <1>5, <1>6, <1>7

LEMMA PullRows ==
  ASSUME SeriesOK, Pull
  PROVE  /\ rows' \in [Occurrences -> EventRow]
         /\ \A o \in Occurrences :
              /\ ~Listed(o) => rows'[o] = rows[o]
              /\ Listed(o) /\ Alive(o) /\ rows'[o].here => rows'[o] = Remote(o)
              /\ Listed(o) /\ ~Alive(o) /\ rows'[o].here =>
                   rows[o].here /\ \E n \in Of(o) : State(n) \in ActiveStates
              /\ rows'[o].here /\ Listed(o) /\ Alive(o) =>
                   \A n \in Of(o) : Kind(n) = "delete" => State(n) \notin ActiveStates
<1>1. rows' = [o \in Occurrences |->
                IF ~Listed(o) THEN rows[o]
                ELSE IF Alive(o) THEN Projected(ops, o, Remote(o))
                ELSE IF \E n \in Of(o) : ops[n].state \in ActiveStates THEN rows[o] ELSE NoEventRow]
  BY DEF Pull
<1>2. NoEventRow \in EventRow /\ ~NoEventRow.here
  BY BoundsTyped DEF NoEventRow, EventRow
<1>3. ASSUME NEW o \in Occurrences
      PROVE  /\ rows'[o] \in EventRow
             /\ ~Listed(o) => rows'[o] = rows[o]
             /\ Listed(o) /\ Alive(o) /\ rows'[o].here => rows'[o] = Remote(o)
             /\ Listed(o) /\ ~Alive(o) /\ rows'[o].here =>
                  rows[o].here /\ \E n \in Of(o) : State(n) \in ActiveStates
             /\ rows'[o].here /\ Listed(o) /\ Alive(o) =>
                  \A n \in Of(o) : Kind(n) = "delete" => State(n) \notin ActiveStates
  <2>1. rows[o] \in EventRow /\ Remote(o) \in EventRow
    BY RestTyped, GoogleTyped DEF SeriesOK
  <2>2. CASE ~Listed(o)
    BY <1>1, <2>1, <2>2
  <2>3. CASE Listed(o) /\ Alive(o)
    <3>1. rows'[o] = Projected(ops, o, Remote(o))
      BY <1>1, <2>3
    <3>2. Of(o) \subseteq DOMAIN ops /\ \A n \in Of(o) : ops[n].occ = o
      BY SeriesOpsTyped DEF SeriesOK, Occ
    <3>3. rows'[o] = NoEventRow \/
            (rows'[o] = Remote(o) /\ \A n \in Of(o) : ops[n].kind = "delete" => ops[n].state \notin ActiveStates)
      BY <3>1, <3>2 DEF Projected
    <3> QED
      BY <1>2, <2>1, <2>3, <3>3 DEF Kind, State
  <2>4. CASE Listed(o) /\ ~Alive(o)
    BY <1>1, <1>2, <2>1, <2>4 DEF State
  <2> QED
    BY <2>2, <2>3, <2>4
<1>4. rows' = [o \in Occurrences |-> rows'[o]]
  BY <1>1
<1> QED
  BY <1>3, <1>4

LEMMA PullKeeps ==
  ASSUME SeriesOK, Pull, trouble' = trouble
  PROVE  SeriesOK'
<1>1. /\ UNCHANGED <<google, jobs, history>> /\ cycle' = [at |-> "open", token |-> google.clock]
      /\ \A m \in OpIds : ~Busy(m)
      /\ ops' \in Seq(Op) /\ Len(ops') = Len(ops) /\ Positions' = Positions
      /\ \A o : Of(o)' = Of(o)
  BY PullFacts
<1>2. \A k \in Positions :
        /\ Occ(k)' = Occ(k) /\ Kind(k)' = Kind(k) /\ Lead(k)' = Lead(k) /\ ops'[k].scope = ops[k].scope
        /\ State(k)' # State(k) =>
             /\ State(k)' = "conflict" /\ State(k) \in ActiveStates /\ Listed(Occ(k))
             /\ \A j \in Of(Occ(k)) : State(j) \in ActiveStates => State(j)' = "conflict"
        /\ Listed(Occ(k)) /\ ~Alive(Occ(k)) /\ State(k) \in ActiveStates => State(k)' = "conflict"
  BY PullFacts
<1>3. /\ rows' \in [Occurrences -> EventRow]
      /\ \A o \in Occurrences :
           /\ ~Listed(o) => rows'[o] = rows[o]
           /\ Listed(o) /\ Alive(o) /\ rows'[o].here => rows'[o] = Remote(o)
           /\ Listed(o) /\ ~Alive(o) /\ rows'[o].here =>
                rows[o].here /\ \E n \in Of(o) : State(n) \in ActiveStates
           /\ rows'[o].here /\ Listed(o) /\ Alive(o) =>
                \A n \in Of(o) : Kind(n) = "delete" => State(n) \notin ActiveStates
  BY PullRows
<1>4. /\ Positions \subseteq OpIds /\ Positions \subseteq Nat /\ \A o : Of(o) \subseteq Positions
      /\ \A k \in Positions : /\ Occ(k) \in Occurrences /\ State(k) \in ActiveStates \cup {"succeeded"}
                              /\ k \in Of(Occ(k))
      /\ \A o : \A k \in Of(o) : Occ(k) = o
      /\ "succeeded" \notin ActiveStates
  BY SeriesOpsTyped DEF SeriesOK, ActiveStates
<1>5. /\ google.clock \in Nat /\ cycle.token \in Nat
      /\ \A o \in Occurrences : EtagOf(o) \in Nat /\ EtagOf(o) <= google.clock
      /\ \A o \in Occurrences : Master(o).there /\ ~Listed(o) => EtagOf(o) <= cycle.token
  <2>1. google.clock \in Nat /\ cycle.token \in Nat
    BY GoogleTyped, RestTyped DEF SeriesOK
  <2>2. ASSUME NEW o \in Occurrences PROVE EtagOf(o) \in Nat /\ EtagOf(o) <= google.clock
    BY GoogleTyped DEF SeriesOK, StampsOK, EtagOf
  <2>3. \A o \in Occurrences : Master(o).there /\ ~Listed(o) => EtagOf(o) <= cycle.token
    BY <2>1, <2>2 DEF Listed
  <2> QED
    BY <2>1, <2>2, <2>3
<1>6. ASSUME NEW k \in Positions
      PROVE  /\ (State(k)' = "succeeded" <=> State(k) = "succeeded") /\ (Lost(k) => Lost(k)')
             /\ (State(k)' \in ActiveStates <=> State(k) \in ActiveStates)
             /\ State(k)' = "pending" => State(k) = "pending"
             /\ Doubtful(k)' => /\ Doubtful(k)
                               /\ \A j \in Of(Occ(k)) : State(j)' = State(j)
  <2>1. /\ (State(k)' = "succeeded" <=> State(k) = "succeeded") /\ (Lost(k) => Lost(k)')
        /\ (State(k)' \in ActiveStates <=> State(k) \in ActiveStates)
        /\ State(k)' = "pending" => State(k) = "pending"
        /\ Doubtful(k)' => Doubtful(k)
    BY <1>2, <1>4 DEF Lost, Doubtful, ActiveStates
  <2>2. ASSUME Doubtful(k)', NEW j \in Of(Occ(k)), State(j)' # State(j) PROVE FALSE
    <3>1. j \in Positions /\ Occ(j) = Occ(k)
      BY <1>4
    <3>2. State(k) \in ActiveStates
      BY <2>1, <2>2 DEF Doubtful, ActiveStates
    <3>3. State(k)' = "conflict"
      BY <1>2, <1>4, <2>2, <3>1, <3>2
    <3> QED
      BY <2>2, <3>3 DEF Doubtful
  <2> QED
    BY <2>1, <2>2
<1>7. \A o : (Alive(o)' <=> Alive(o)) /\ EtagOf(o)' = EtagOf(o) /\ ValueOf(o)' = ValueOf(o)
             /\ Master(o)' = Master(o)
  BY <1>1 DEF Alive, EtagOf, ValueOf, Master
<1>8. SeriesTypeOK'
  BY <1>1, <1>3, <1>5 DEF SeriesOK, SeriesTypeOK
<1>9. \A o \in Occurrences : rows'[o].here => Master(o).there
  BY <1>3 DEF SeriesOK, QueueOK, Listed
<1>10. QueueOK'
  <2>1. google'.series[0].there /\ \A r \in SeriesIds : google'.series[r].there /\ r # 0 => r \in Positions
    BY <1>1 DEF SeriesOK, QueueOK
  <2>2. (\A n \in Positions : Occ(n)[1] < n /\ google.series[Occ(n)[1]].there)'
    BY <1>1, <1>2 DEF SeriesOK, QueueOK
  <2>3. (\A o \in Occurrences : rows[o].here => Master(o).there)'
    BY <1>7, <1>9
  <2>4. ASSUME NEW n \in Positions, Kind(n) = "delete", State(n)' \in ActiveStates
        PROVE  ~rows'[Occ(n)].here /\ \A k \in Of(Occ(n)) : k <= n
    <3>1. State(n) \in ActiveStates
      BY <1>6, <2>4
    <3>2. ~rows[Occ(n)].here /\ \A k \in Of(Occ(n)) : k <= n
      BY <2>4, <3>1 DEF SeriesOK, QueueOK
    <3>3. ~rows'[Occ(n)].here
      BY <1>3, <1>4, <2>4, <3>1, <3>2
    <3> QED
      BY <3>2, <3>3
  <2>5. (\A n \in Positions : Kind(n) = "delete" /\ State(n) \in ActiveStates =>
           ~rows[Occ(n)].here /\ \A k \in Of(Occ(n)) : k <= n)'
    BY <1>1, <1>2, <2>4
  <2>6. ASSUME NEW n \in Positions, Lost(n)', NEW k \in Of(Occ(n)), k < n
        PROVE  State(k)' = "succeeded" \/ Lost(k)'
    <3>1. k \in Positions
      BY <1>4
    <3>2. CASE State(n)' = State(n)
      <4>1. State(k) = "succeeded" \/ Lost(k)
        BY <2>6, <3>2 DEF SeriesOK, QueueOK, Lost
      <4> QED
        BY <1>6, <3>1, <4>1
    <3>3. CASE State(n)' # State(n)
      <4>1. State(k) \in ActiveStates => State(k)' = "conflict"
        BY <1>2, <2>6, <3>3
      <4> QED
        BY <1>4, <1>6, <3>1, <4>1 DEF Lost
    <3> QED
      BY <3>2, <3>3
  <2>7. (\A n \in Positions : Lost(n) => \A k \in Of(Occ(n)) : k < n => State(k) = "succeeded" \/ Lost(k))'
    BY <1>1, <1>2, <2>6
  <2> QED
    BY <1>1, <2>1, <2>2, <2>3, <2>5, <2>7 DEF QueueOK
<1>11. StampsOK'
  BY <1>1, <1>5 DEF SeriesOK, StampsOK
<1>12. GroupsOK'
  <2> SUFFICES ASSUME NEW k \in Positions, Doubtful(k)'
               PROVE  /\ Lead(k)' \in Of(Occ(k)) /\ Lead(k)' <= k
                      /\ k # Lead(k)' => Kind(k) = "update"
                      /\ \A j \in Of(Occ(k)) : j < k =>
                           IF j < Lead(k)' THEN State(j)' = "succeeded"
                           ELSE State(j)' = State(k)' /\ Lead(j)' = Lead(k)'
    BY <1>1, <1>2 DEF GroupsOK
  <2>1. Doubtful(k) /\ State(k)' = State(k) /\ Lead(k)' = Lead(k)
        /\ \A j \in Of(Occ(k)) : State(j)' = State(j) /\ Lead(j)' = Lead(j)
    BY <1>2, <1>4, <1>6
  <2>2. /\ Lead(k) \in Of(Occ(k)) /\ Lead(k) <= k
        /\ k # Lead(k) => Kind(k) = "update"
        /\ \A j \in Of(Occ(k)) : j < k =>
             IF j < Lead(k) THEN State(j) = "succeeded" ELSE State(j) = State(k) /\ Lead(j) = Lead(k)
    BY <2>1 DEF SeriesOK, GroupsOK
  <2> QED
    BY <2>1, <2>2
<1>13. JobsOK' /\ StepsOK'
  <2>1. \A m \in OpIds : ~Busy(m)'
    BY <1>1 DEF Busy
  <2>2. ASSUME NEW k \in Positions, NEW m \in OpIds, State(k)' = "syncing", Lead(k)' = m PROVE FALSE
    <3>1. State(k) = "syncing" /\ Lead(k) = m
      BY <1>2, <2>2
    <3> QED
      BY <1>1, <3>1 DEF SeriesOK, JobsOK
  <2> QED
    BY <1>1, <2>1, <2>2 DEF JobsOK, StepsOK
<1>14. WritesOK'
  <2>1. (\A n \in OpIds : n \notin Positions \/ State(n) = "pending" => Did(n) = {})'
    BY <1>1, <1>6 DEF SeriesOK, WritesOK, Did
  <2>2. (\A n \in Positions : Doubtful(n) => Did(n) = Did(Lead(n)))'
    BY <1>1, <1>2, <1>6 DEF SeriesOK, WritesOK, Did
  <2>3. ASSUME NEW n \in Positions, Doubtful(n)', Lead(n)' = n
        PROVE  Doubtful(n) /\ Lead(n) = n /\ Group(n)' = Group(n) /\ Last(Group(n)) \in Positions
    <3>1. Doubtful(n) /\ Lead(n) = n /\ \A j \in Of(Occ(n)) : State(j)' = State(j)
      BY <1>2, <1>6, <2>3
    <3>2. ASSUME NEW k \in Positions PROVE (Doubtful(k)' /\ Lead(k)' = n) <=> (Doubtful(k) /\ Lead(k) = n)
      <4>1. Doubtful(k)' => Doubtful(k)
        BY <1>6
      <4>2. ASSUME Doubtful(k), Lead(k) = n PROVE Doubtful(k)'
        <5>1. n \in Of(Occ(k))
          BY <4>2 DEF SeriesOK, GroupsOK
        <5>2. k \in Of(Occ(n))
          BY <1>4, <5>1
        <5> QED
          BY <3>1, <4>2, <5>2 DEF Doubtful
      <4> QED
        BY <1>2, <4>1, <4>2
    <3>3. Group(n)' = Group(n)
      BY <1>1, <3>2 DEF Group
    <3>4. Last(Group(n)) \in Group(n)
      <4>1. n \in Group(n) /\ Group(n) \subseteq 0 .. Len(ops) /\ Len(ops) \in Nat
        BY <3>1, SeriesOpsTyped DEF SeriesOK, Group
      <4> QED
        BY <4>1, LastIsLast
    <3> QED
      BY <3>1, <3>3, <3>4 DEF Group
  <2>4. (\A n \in Positions : "trim" \in Did(n) =>
           /\ Kind(n) = "update"
           /\ \A s \in Master(Occ(n)).slots : s < Occ(n)[2]
           /\ Doubtful(n) /\ Lead(n) = n => ops[Last(Group(n))].scope = "thisAndFollowing")'
    <3>1. \A n \in Positions : Master(Occ(n))' = Master(Occ(n)) /\ Did(n)' = Did(n)
      BY <1>1, <1>2 DEF Master, Did
    <3> QED
      BY <1>1, <1>2, <2>3, <3>1 DEF SeriesOK, WritesOK
  <2>5. (\A n \in OpIds : google.series[n].there =>
          {"trim", "tail"} \subseteq Did(n) /\ \A s \in google.series[n].slots : s >= Occ(n)[2])'
    BY <1>1, <1>2, BoundsTyped DEF SeriesOK, WritesOK, QueueOK, Did
  <2> QED
    BY <2>1, <2>2, <2>4, <2>5 DEF WritesOK
<1>15. ValuesOK'
  BY <1>1, <1>2 DEF SeriesOK, ValuesOK, Did
<1>16. CoverOK'
  <2>1. \A r, s : \A m \in Positions : Took(m, r, s) => Took(m, r, s)'
    BY <1>1, <1>2, <1>6 DEF Took, Did
  <2>2. ASSUME NEW r \in SeriesIds, NEW s \in Slots, google'.series[r].there, r = 0 \/ s >= Occ(r)'[2]
        PROVE  s \in google'.series[r].slots \/ \E m \in Positions : Took(m, r, s)'
    <3>1. r = 0 \/ s >= Occ(r)[2]
      BY <1>1, <1>2, <2>2 DEF SeriesOK, QueueOK
    <3>2. s \in google.series[r].slots \/ \E m \in Positions : Took(m, r, s)
      BY <1>1, <2>2, <3>1 DEF SeriesOK, CoverOK
    <3> QED
      BY <1>1, <2>1, <3>2
  <2> QED
    BY <1>1, <2>2 DEF CoverOK
<1>17. OutcomesOK'
  <2> SUFFICES ASSUME NEW k \in Positions, State(k)' = "succeeded" PROVE DoneOK(k)'
    BY <1>1 DEF OutcomesOK
  <2>1. DoneOK(k) /\ Occ(k)' = Occ(k) /\ Kind(k)' = Kind(k)
    BY <1>2, <1>6 DEF SeriesOK, OutcomesOK
  <2> QED
    BY <1>1, <2>1 DEF DoneOK, Touched, Alive, Master
<1>18. RowsOK'
  <2>1. ASSUME NEW o \in Occurrences, rows'[o].here, Alive(o), rows'[o].etag # 0
        PROVE  rows'[o].val = ValueOf(o) /\ rows'[o].etag = EtagOf(o)
    <3>1. CASE Listed(o)
      <4>1. rows'[o] = Remote(o)
        BY <1>3, <2>1, <3>1
      <4> QED
        BY <4>1 DEF Remote
    <3>2. CASE ~Listed(o)
      <4>1. rows'[o] = rows[o] /\ EtagOf(o) <= cycle.token
        BY <1>3, <1>5, <2>1, <3>2 DEF Alive
      <4>2. SeenOK(o, rows[o])
        BY <2>1, <4>1 DEF SeriesOK, RowsOK
      <4> QED
        BY <2>1, <4>1, <4>2 DEF SeenOK
    <3> QED
      BY <3>1, <3>2
  <2>2. ASSUME NEW o \in Occurrences, ~Alive(o)
        PROVE  /\ rows'[o].here => Stuck(o)'
               /\ \A n \in Of(o) : State(n)' \in ActiveStates => Stuck(o)'
    <3>1. CASE Listed(o)
      <4>1. ASSUME NEW n \in Of(o), State(n) \in ActiveStates PROVE Stuck(o)'
        <5>1. State(n)' = "conflict"
          BY <1>2, <1>4, <2>2, <3>1, <4>1
        <5> QED
          BY <1>1, <5>1 DEF Stuck, Lost
      <4> QED
        BY <1>3, <1>4, <1>6, <2>2, <3>1, <4>1
    <3>2. CASE ~Listed(o)
      <4>1. ASSUME Master(o).there
            PROVE  /\ rows[o].here => Stuck(o)
                   /\ \A n \in Of(o) : State(n) \in ActiveStates => Stuck(o)
        BY <1>5, <2>2, <3>2, <4>1 DEF SeriesOK, RowsOK
      <4>2. rows'[o] = rows[o] /\ (rows[o].here => Master(o).there)
        BY <1>3, <3>2 DEF SeriesOK, QueueOK
      <4>3. \A n \in Of(o) : Master(o).there
        BY <1>4 DEF SeriesOK, QueueOK, Master
      <4>4. Stuck(o) => Stuck(o)'
        BY <1>1, <1>4, <1>6 DEF Stuck
      <4> QED
        BY <1>4, <1>6, <4>1, <4>2, <4>3, <4>4
    <3> QED
      BY <3>1, <3>2
  <2>3. (\A o \in Occurrences : rows[o].here => SeenOK(o, rows[o]))'
    BY <1>7, <2>1 DEF SeenOK
  <2> QED
    BY <1>1, <1>7, <2>2, <2>3 DEF RowsOK
<1> QED
  BY <1>8, <1>10, <1>11, <1>12, <1>13, <1>14, <1>15, <1>16, <1>17, <1>18 DEF SeriesOK

-----------------------------------------------------------------------------
(* The invariant holds at first, and every step keeps it.                  *)

LEMMA SeriesStarts ==
  ASSUME SeriesInit
  PROVE  SeriesOK
<1>1. /\ google = [series |-> [r \in SeriesIds |->
                                 [there |-> r = 0, slots |-> IF r = 0 THEN Slots ELSE {},
                                  val |-> 0, stamp |-> IF r = 0 THEN 1 ELSE 0]],
                   own |-> [o \in Occurrences |-> [val |-> 0, stamp |-> 0, cut |-> FALSE]],
                   clock |-> 1]
      /\ rows = [o \in Occurrences |-> IF o[1] = 0 THEN Remote(o) ELSE NoEventRow]
      /\ ops = <<>> /\ jobs = [n \in OpIds |-> NoJob]
      /\ cycle = [at |-> "idle", token |-> 1]
      /\ history = [wrote |-> [n \in OpIds |-> {}], foreign |-> 0]
      /\ trouble = 0
  BY DEF SeriesInit
<1>2. /\ \A r \in SeriesIds : /\ google.series[r].there <=> r = 0
                              /\ r = 0 => google.series[r].slots = Slots /\ google.series[r].stamp = 1
                              /\ r # 0 => google.series[r].slots = {} /\ google.series[r].stamp = 0
                              /\ google.series[r].val = 0
      /\ \A o \in Occurrences : /\ google.own[o].val = 0 /\ google.own[o].stamp = 0
                                /\ ~google.own[o].cut
      /\ google.clock = 1
  BY <1>1
<1>3. \A o \in Occurrences :
        /\ o[1] \in SeriesIds /\ o[2] \in Slots /\ Master(o) = google.series[o[1]]
        /\ o[1] = 0 => Alive(o) /\ EtagOf(o) = 1 /\ ValueOf(o) = 0
                       /\ Remote(o) = [here |-> TRUE, val |-> 0, etag |-> 1, member |-> TRUE]
  <2>1. \A o \in Occurrences : o[1] \in SeriesIds /\ o[2] \in Slots /\ Master(o) = google.series[o[1]]
    BY BoundsTyped DEF Master
  <2>2. ASSUME NEW o \in Occurrences, o[1] = 0
        PROVE  /\ Alive(o) /\ EtagOf(o) = 1 /\ ValueOf(o) = 0
               /\ Remote(o) = [here |-> TRUE, val |-> 0, etag |-> 1, member |-> TRUE]
    <3>1. /\ Master(o).there /\ Master(o).slots = Slots /\ Master(o).stamp = 1 /\ Master(o).val = 0
          /\ google.own[o].val = 0 /\ google.own[o].stamp = 0 /\ ~google.own[o].cut /\ o[2] \in Slots
      BY <1>2, <2>1, <2>2
    <3>2. Alive(o) /\ EtagOf(o) = 1 /\ ValueOf(o) = 0
      BY <3>1 DEF Alive, EtagOf, ValueOf
    <3> QED
      BY <3>2 DEF Remote
  <2> QED
    BY <2>1, <2>2
<1>4. \A o \in Occurrences :
        rows[o] = IF o[1] = 0 THEN [here |-> TRUE, val |-> 0, etag |-> 1, member |-> TRUE] ELSE NoEventRow
  BY <1>1, <1>3
<1>5. /\ NoEventRow \in EventRow /\ ~NoEventRow.here /\ NoJob \in Job /\ NoJob.at = "none"
      /\ [here |-> TRUE, val |-> 0, etag |-> 1, member |-> TRUE] \in EventRow
  BY BoundsTyped DEF NoEventRow, EventRow, NoJob, Job
<1>6. ops \in Seq(Op) /\ Len(ops) = 0 /\ Positions = {} /\ \A o : Of(o) = {}
  BY <1>1 DEF Positions, Of
<1>7. \A m \in OpIds : ~Busy(m) /\ Did(m) = {}
  BY <1>1, <1>5 DEF Busy, Did
<1>8. SeriesTypeOK
  <2>1. rows \in [Occurrences -> EventRow]
    BY <1>1, <1>4, <1>5
  <2>2. google \in [series : [SeriesIds -> [there : BOOLEAN, slots : SUBSET Slots,
                                            val : Values, stamp : Nat]],
                    own : [Occurrences -> [val : Values, stamp : Nat, cut : BOOLEAN]],
                    clock : Nat]
    BY <1>1, BoundsTyped
  <2>3. /\ jobs \in [OpIds -> Job] /\ cycle \in [at : {"idle", "open"}, token : Nat]
        /\ history \in [wrote : [OpIds -> SUBSET {"occurrence", "series", "trim", "tail"}],
                        foreign : 0 .. MaxForeign]
        /\ trouble \in 0 .. MaxTrouble
    BY <1>1, <1>5, BoundsTyped
  <2> QED
    BY <1>6, <2>1, <2>2, <2>3, BoundsTyped DEF SeriesTypeOK
<1>9. QueueOK
  BY <1>2, <1>3, <1>4, <1>5, <1>6, BoundsTyped DEF QueueOK
<1>10. StampsOK
  BY <1>1, <1>2 DEF StampsOK
<1>11. GroupsOK /\ JobsOK /\ StepsOK /\ OutcomesOK
  BY <1>6, <1>7 DEF GroupsOK, JobsOK, StepsOK, OutcomesOK
<1>12. WritesOK
  BY <1>2, <1>6, <1>7, BoundsTyped DEF WritesOK
<1>13. ValuesOK
  BY <1>2, BoundsTyped DEF ValuesOK
<1>14. CoverOK
  BY <1>2 DEF CoverOK
<1>15. RowsOK
  <2>1. \A o \in Occurrences : rows[o].here => SeenOK(o, rows[o])
    BY <1>3, <1>4, <1>5 DEF SeenOK
  <2>2. \A o \in Occurrences : ~Alive(o) => ~rows[o].here
    BY <1>3, <1>4, <1>5
  <2> QED
    BY <1>6, <2>1, <2>2 DEF RowsOK
<1> QED
  BY <1>8, <1>9, <1>10, <1>11, <1>12, <1>13, <1>14, <1>15 DEF SeriesOK

LEMMA OthersKeep ==
  ASSUME SeriesOK, Others, trouble' = trouble
  PROVE  SeriesOK'
<1>1. ASSUME NEW r \in SeriesIds, ForeignSeries(r) PROVE SeriesOK'
  BY <1>1, ForeignSeriesKeeps
<1>2. ASSUME NEW o \in SeriesIds \X ForeignSlots, ForeignOccurrence(o) \/ ForeignCut(o) PROVE SeriesOK'
  <2>1. o \in Occurrences
    BY BoundsAssumption DEF Occurrences
  <2> QED
    BY <1>2, <2>1, ForeignOccurrenceKeeps, ForeignCutKeeps
<1> QED
  BY <1>1, <1>2 DEF Others

LEMMA UploadKeeps ==
  ASSUME SeriesOK, NEW n \in OpIds, Upload(n), trouble' = trouble
  PROVE  SeriesOK'
<1>1. trouble' \in 0 .. MaxTrouble
  BY RestTyped DEF SeriesOK
<1>2. CASE Read(n) \/ WriteRefused(n)
  BY <1>1, <1>2, ReadKeeps, WriteRefusedKeeps
<1>3. CASE WriteTaken(n)
  BY <1>3, WriteTakenKeeps
<1>4. CASE Look(n) \/ Fetch(n)
  BY <1>4, LookKeeps, FetchKeeps
<1>5. CASE RecordSuccess(n)
  <2>1. Kind(n) \in {"update", "delete"}
    <3>1. Busy(n)
      BY <1>5 DEF RecordSuccess, Answered, At, Busy
    <3>2. n \in Positions
      BY <3>1, BusyFacts
    <3> QED
      BY <3>2, SeriesOpsTyped DEF SeriesOK
  <2> QED
    BY <1>5, <2>1, DeleteRecorded, UpdateRecorded
<1>6. CASE RecordConflict(n) \/ RecordFailure(n) \/ RecordRetry(n)
  BY <1>6, RecordConflictKeeps, RecordFailureKeeps, RecordRetryKeeps
<1> QED
  BY <1>2, <1>3, <1>4, <1>5, <1>6 DEF Upload

LEMMA TroubleKeeps ==
  ASSUME SeriesOK, Trouble
  PROVE  SeriesOK'
<1>1. CASE WorkerDies
  BY <1>1, WorkerDiesKeeps
<1>2. ASSUME NEW n \in OpIds, TurnedDown(n) \/ AnswerLost(n) \/ RequestLost(n) PROVE SeriesOK'
  BY <1>2, TurnedDownKeeps, AnswerLostKeeps, RequestLostKeeps
<1> QED
  BY <1>1, <1>2 DEF Trouble

LEMMA SeriesSteps ==
  ASSUME SeriesOK, [SeriesNext]_seriesVars
  PROVE  SeriesOK'
<1>1. CASE User /\ trouble' = trouble
  BY <1>1, UserKeeps
<1>2. CASE Others /\ trouble' = trouble
  BY <1>2, OthersKeep
<1>3. CASE Works /\ trouble' = trouble
  BY <1>3, PullKeeps, LeaseKeeps, UploadKeeps DEF Works
<1>4. CASE LeaseSome /\ trouble' = trouble
  BY <1>4, LeaseKeeps
<1>5. CASE Trouble
  BY <1>5, TroubleKeeps
<1>6. CASE UNCHANGED seriesVars
  <2>1. UNCHANGED <<rows, ops, jobs, cycle, trouble, google, history>>
    BY <1>6 DEF seriesVars
  <2>2. /\ Positions' = Positions
        /\ \A n : /\ Occ(n)' = Occ(n) /\ Kind(n)' = Kind(n) /\ State(n)' = State(n)
                  /\ Lead(n)' = Lead(n) /\ (Doubtful(n)' <=> Doubtful(n)) /\ (Lost(n)' <=> Lost(n))
                  /\ Group(n)' = Group(n)
        /\ \A o : Of(o)' = Of(o) /\ (Stuck(o)' <=> Stuck(o))
        /\ \A job : Aim(job)' = Aim(job)
    BY <2>1, SameQueue
  <2>3. /\ \A n : Did(n)' = Did(n) /\ (Busy(n)' <=> Busy(n))
        /\ \A o : Master(o)' = Master(o) /\ (Alive(o)' <=> Alive(o)) /\ EtagOf(o)' = EtagOf(o)
                  /\ ValueOf(o)' = ValueOf(o)
    BY <2>1 DEF Did, Busy, Master, Alive, EtagOf, ValueOf
  <2>4. SeriesTypeOK'
    BY <2>1 DEF SeriesOK, SeriesTypeOK
  <2>5. StampsOK'
    BY <2>1 DEF SeriesOK, StampsOK
  <2>6. QueueOK'
    BY <2>1 DEF SeriesOK, QueueOK, Positions, Occ, Kind, State, Lost, Of, Master
  <2>7. GroupsOK'
    BY <2>1, SameGroups DEF SeriesOK
  <2>8. JobsOK'
    BY <2>1, <2>3, SameJobs DEF SeriesOK
  <2>9. StepsOK'
    BY <2>1, <2>2, <2>3 DEF SeriesOK, StepsOK, JobOK, AimOK, AnswerOK, DoneOK, Touched, SeenOK,
       Aim, Occ,
       Kind, Did, Alive, Master, EtagOf, ValueOf, Busy
  <2>10. WritesOK'
    <3>1. (\A n \in Positions : Doubtful(n) => Did(n) = Did(Lead(n)))'
      BY <2>1, <2>2 DEF SeriesOK, WritesOK, Did
    <3>2. (\A n \in Positions : "trim" \in Did(n) =>
             /\ Kind(n) = "update"
             /\ \A s \in Master(Occ(n)).slots : s < Occ(n)[2]
             /\ Doubtful(n) /\ Lead(n) = n => ops[Last(Group(n))].scope = "thisAndFollowing")'
      BY <2>1, <2>2, <2>3 DEF SeriesOK, WritesOK, Master
    <3>3. (\A n \in OpIds : n \notin Positions \/ State(n) = "pending" => Did(n) = {})'
      BY <2>2, <2>3 DEF SeriesOK, WritesOK
    <3>4. (\A n \in OpIds : google.series[n].there =>
            {"trim", "tail"} \subseteq Did(n) /\ \A s \in google.series[n].slots : s >= Occ(n)[2])'
      BY <2>1, <2>2, <2>3 DEF SeriesOK, WritesOK
    <3> QED
      BY <3>1, <3>2, <3>3, <3>4 DEF WritesOK
  <2>11. ValuesOK'
    BY <2>1 DEF SeriesOK, ValuesOK, Positions, Occ, Did, Of
  <2>12. CoverOK'
    BY <2>1 DEF SeriesOK, CoverOK, Took, Positions, Occ, Kind, Did, State, Doubtful, Lead
  <2>13. OutcomesOK'
    BY <2>1 DEF SeriesOK, OutcomesOK, DoneOK, Touched, Alive, Master, Positions, State, Kind, Occ
  <2>14. RowsOK'
    BY <2>1 DEF SeriesOK, RowsOK, SeenOK, Alive, Master, EtagOf, ValueOf, Of, Positions, Occ,
       State, Stuck, Lost
  <2> QED
    BY <2>4, <2>5, <2>6, <2>7, <2>8, <2>9, <2>10, <2>11, <2>12, <2>13, <2>14 DEF SeriesOK
<1> QED
  BY <1>1, <1>2, <1>3, <1>4, <1>5, <1>6 DEF SeriesNext

\* Every reachable state of a recurring event's uploads satisfies the invariant.
THEOREM SeriesInvariant == SeriesSpec => []SeriesOK
  BY SeriesStarts, SeriesSteps, PTL DEF SeriesSpec

-----------------------------------------------------------------------------
(* What the invariant says of the properties.                              *)

LEMMA ReachedBy ==
  ASSUME SeriesOK, NEW n \in Updates, NEW o \in Occurrences, Alive(o), ValueOf(o) = n
  PROVE  o \in Reach(n)
<1>1. n \in Positions /\ n \in OpIds /\ n # 0 /\ o = <<o[1], o[2]>> /\ o[1] \in SeriesIds /\ o[2] \in Slots
  BY SeriesOpsTyped, BoundsTyped DEF SeriesOK, Updates
<1>2. CASE google.own[o].val = n
  <2>1. Occ(n) = o
    BY <1>1, <1>2 DEF SeriesOK, ValuesOK
  <2> QED
    BY <1>1, <2>1 DEF Reach
<1>3. CASE google.own[o].val # n
  <2>1. google.series[o[1]].val = n
    BY <1>3 DEF ValueOf, Master
  <2>2. \/ ops[n].scope = "allEvents" /\ Occ(n)[1] = o[1]
        \/ ops[n].scope = "thisAndFollowing" /\ o[1] \in Of(Occ(n))
    BY <1>1, <2>1 DEF SeriesOK, ValuesOK
  <2>3. CASE ops[n].scope = "allEvents" /\ Occ(n)[1] = o[1]
    BY <1>1, <2>3 DEF Reach
  <2>4. CASE ops[n].scope = "thisAndFollowing" /\ o[1] \in Of(Occ(n))
    <3>1. o[1] \in OpIds /\ Occ(o[1]) = Occ(n)
      BY <2>4, SeriesOpsTyped DEF SeriesOK
    <3>2. google.series[o[1]].there /\ o[2] \in google.series[o[1]].slots
      BY DEF Alive, Master
    <3>3. o[2] >= Occ(n)[2]
      BY <3>1, <3>2 DEF SeriesOK, WritesOK
    <3> QED
      BY <2>4, <3>3 DEF Reach
  <2> QED
    BY <2>2, <2>3, <2>4
<1> QED
  BY <1>2, <1>3

LEMMA ScopeFollows ==
  ASSUME SeriesOK
  PROVE  WithinScope
<1>1. ASSUME NEW n \in Positions, google.series[n].there
      PROVE  Master(Occ(n)).slots \cap google.series[n].slots = {}
  <2>1. /\ n \in OpIds /\ Occ(n)[2] \in Nat /\ Occ(n)[1] \in SeriesIds /\ Slots \subseteq Nat
        /\ Master(Occ(n)).slots \subseteq Slots
    BY SeriesOpsTyped, BoundsTyped, GoogleTyped DEF SeriesOK, Master
  <2>2. "trim" \in Did(n) /\ \A s \in google.series[n].slots : s >= Occ(n)[2]
    BY <1>1, <2>1 DEF SeriesOK, WritesOK
  <2>3. \A s \in Master(Occ(n)).slots : s < Occ(n)[2]
    BY <2>2 DEF SeriesOK, WritesOK
  <2>4. ASSUME NEW s \in Master(Occ(n)).slots, s \in google.series[n].slots PROVE FALSE
    <3>1. s < Occ(n)[2] /\ s >= Occ(n)[2] /\ s \in Nat
      BY <2>1, <2>2, <2>3, <2>4
    <3> QED
      BY <2>1, <3>1
  <2> QED
    BY <2>4
<1> QED
  BY <1>1, ReachedBy DEF WithinScope

LEMMA SlotsAreShown ==
  ASSUME SeriesOK, NEW s \in Slots
  PROVE  (\E r \in SeriesIds : Alive(<<r, s>>)) \/ CutByHand(s) \/ Unsettled(s)
<1> DEFINE R == {r \in SeriesIds : google.series[r].there /\ (r = 0 \/ s >= Occ(r)[2])}
<1>1. 0 \in R /\ R \subseteq 0 .. MaxOps /\ MaxOps \in Nat
  BY BoundsTyped DEF SeriesOK, QueueOK, SeriesIds
<1>2. \E r \in R : \A q \in R : q <= r
  <2> HIDE DEF R
  <2> QED
    BY <1>1, HasGreatest
<1>3. PICK r \in R : \A q \in R : q <= r
  BY <1>2
<1>4. s \in google.series[r].slots \/ \E m \in Positions : Took(m, r, s)
  BY DEF SeriesOK, CoverOK
<1>5. CASE s \in google.series[r].slots
  <2>1. google.own[<<r, s>>].cut \/ Alive(<<r, s>>)
    BY <1>5 DEF Alive, Master
  <2> QED
    BY <2>1 DEF CutByHand
<1>6. CASE \E m \in Positions : Took(m, r, s)
  <2>1. PICK m \in Positions : Took(m, r, s)
    BY <1>6
  <2>2. m \in SeriesIds /\ m \in Nat /\ Occ(m)[1] \in Nat /\ Occ(m)[2] \in Nat /\ s \in Nat
    BY SeriesOpsTyped, BoundsTyped DEF SeriesOK
  <2>3. Kind(m) = "update" /\ Occ(m)[1] = r /\ s >= Occ(m)[2]
        /\ (google.series[m].there \/ State(m) # "succeeded")
    BY <2>1, <2>2 DEF Took
  <2>4. ~google.series[m].there
    <3>1. r < m
      BY <2>3 DEF SeriesOK, QueueOK
    <3>2. google.series[m].there => m \in R
      BY <2>2, <2>3
    <3> QED
      BY <1>1, <1>3, <2>2, <3>1, <3>2
  <2> QED
    BY <2>3, <2>4 DEF Unsettled, Updates, State
<1> QED
  BY <1>4, <1>5, <1>6

LEMMA TruthFollows ==
  ASSUME SeriesOK
  PROVE  RecordedTruly
<1>1. \A n \in Positions : ops[n].state = "succeeded" =>
        Touched(n) \/ (Kind(n) = "delete" /\ ~Alive(Occ(n)))
  BY DEF SeriesOK, OutcomesOK, DoneOK, State
<1> QED
  BY <1>1, SlotsAreShown DEF RecordedTruly

LEMMA StepFollows ==
  ASSUME SeriesOK
  PROVE  RowsInStep
<1> SUFFICES ASSUME cycle.token = google.clock, NEW o \in Occurrences
             PROVE  /\ rows[o].here /\ rows[o].etag # 0 /\ Alive(o) =>
                         rows[o].val = ValueOf(o) /\ rows[o].etag = EtagOf(o)
                    /\ rows[o].here /\ ~Alive(o) => \E n \in Of(o) : ops[n].state \in ActiveStates
  BY DEF RowsInStep
<1>1. EtagOf(o) <= cycle.token
  BY GoogleTyped DEF SeriesOK, StampsOK, EtagOf
<1>2. rows[o].here /\ rows[o].etag # 0 /\ Alive(o) => rows[o].val = ValueOf(o) /\ rows[o].etag = EtagOf(o)
  BY <1>1 DEF SeriesOK, RowsOK, SeenOK
<1>3. ASSUME rows[o].here, ~Alive(o) PROVE \E n \in Of(o) : ops[n].state \in ActiveStates
  <2>1. Stuck(o)
    BY <1>1, <1>3 DEF SeriesOK, RowsOK
  <2> QED
    BY <2>1 DEF Stuck, Lost, State, ActiveStates
<1> QED
  BY <1>2, <1>3

\* Every variable keeps its type.
THEOREM SeriesTyped == SeriesSpec => []SeriesTypeOK
<1>1. SeriesOK => SeriesTypeOK
  BY DEF SeriesOK
<1> QED
  BY <1>1, SeriesInvariant, PTL

\* However uploads are compacted, split over two writes, lost and repeated, the value of an
\* edit (executeWrite, executeSeriesSplit) shows only on occurrences its scope reaches, and a
\* future series shares no slot with the series it was cut from.
THEOREM EditsKeepToTheirScope == SeriesSpec => []WithinScope
  BY ScopeFollows, SeriesInvariant, PTL

\* recordRemoteSuccess marks no edit as done that Google has not taken, and no slot of the
\* series is missing unless somebody cancelled it or its split is not settled.
THEOREM SeriesRecordedTruly == SeriesSpec => []RecordedTruly
  BY TruthFollows, SeriesInvariant, PTL

\* After a pull that saw the last change (applyRemotePage), the rows the user edits have
\* Google's value under Google's etag, and a row of what is gone belongs to a conflict.
THEOREM RowsFollowGoogle == SeriesSpec => []RowsInStep
  BY StepFollows, SeriesInvariant, PTL
==============================================================================
