------------------------------- MODULE EditLog -------------------------------
(***************************************************************************)
(* What the local queue promises the user about the edits of an account,   *)
(* with leases, retries, compaction and wall-clock time left out: edits of *)
(* an event are accepted in an order that never changes, and an edit is    *)
(* settled (acknowledged by Google, or cancelled out locally) only when    *)
(* every earlier edit of its event is settled too, or was lost to a change *)
(* made elsewhere.  Settled edits stay settled, lost ones stay lost.       *)
(***************************************************************************)
CONSTANTS Edits, Events, NoEvent

VARIABLES
  fate,   \* "none" until accepted, then "open", "settled", "failed" or "lost"
  event,  \* the event an accepted edit belongs to
  behind  \* <<x, o>>: o was accepted behind x, for the same event

logVars == <<fate, event, behind>>

LogInit ==
  /\ fate = [o \in Edits |-> "none"]
  /\ event = [o \in Edits |-> NoEvent]
  /\ behind = {}

Accept(o, e) ==
  /\ fate[o] = "none"
  /\ fate' = [fate EXCEPT ![o] = "open"]
  /\ event' = [event EXCEPT ![o] = e]
  /\ behind' = behind \cup {<<x, o>> : x \in {y \in Edits : event[y] = e}}

\* One report settles the edits A, fails those of F and loses those of L.
Report(A, F, L) ==
  /\ A \cap L = {} /\ F \cap (A \cup L) = {}
  /\ \A o \in A \cup F : fate[o] = "open"
  /\ \A o \in L : fate[o] \in {"open", "failed"}
  /\ fate' = [o \in Edits |-> IF o \in A THEN "settled"
                              ELSE IF o \in F THEN "failed"
                              ELSE IF o \in L THEN "lost" ELSE fate[o]]
  /\ \A o \in A, x \in Edits : <<x, o>> \in behind => fate'[x] \in {"settled", "lost"}
  /\ UNCHANGED <<event, behind>>

LogNext ==
  \/ \E o \in Edits, e \in Events : Accept(o, e)
  \/ \E A, F, L \in SUBSET Edits : Report(A, F, L)

LogSpec == LogInit /\ [][LogNext]_logVars
=============================================================================
