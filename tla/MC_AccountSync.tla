---------------------------- MODULE MC_AccountSync ----------------------------
(* AccountSync on small instances.  Accounts, rows and flows are              *)
(* interchangeable.  Of the rows that earlier builds left there is at most    *)
(* one, or all are calendars.                                                 *)
EXTENDS AccountSync, TLC

MCStages == <<"calendars", "calendarOperations">>
MCInit ==
  /\ Init
  /\ \/ Cardinality({r \in Rows : row[r] # NoRow}) <= 1
     \/ \A r \in Rows : row[r].table = "calendars"
MCSpec == MCInit /\ [][Next]_vars
Symmetry == Permutations(Accounts) \cup Permutations(Rows) \cup Permutations(Flows)
=============================================================================
