---------------------- MODULE CalendarQueueRefinement ----------------------
(***************************************************************************)
(* CalendarQueue implements EditLog: the states of a row map to fates, and *)
(* the createdAt order of the rows of an event to the order of acceptance. *)
(***************************************************************************)
EXTENDS CalendarQueue

FateOf(o) ==
  IF row[o].state = "absent" THEN "none"
  ELSE IF row[o].state \in Done THEN "settled"
  ELSE IF row[o].state = "conflict" THEN "lost"
  ELSE IF row[o].state = "failed" THEN "failed"
  ELSE "open"

Fates   == [o \in Ops |-> FateOf(o)]
EventOf == [o \in Ops |-> row[o].event]
Behind  == {p \in Ops \X Ops : Before(p[1], p[2])}

Log == INSTANCE EditLog
         WITH Edits   <- Ops,
              NoEvent <- None,
              fate    <- Fates,
              event   <- EventOf,
              behind  <- Behind

\* Every step of the queue is a step of the abstract log, or invisible in it:
\* no interleaving of edits, leases, crashes and pulls reorders an event's
\* edits, settles one past an open one, or takes a verdict back.
ImplementsEditLog == Log!LogSpec
=============================================================================
