----------------------------- MODULE MC_CodexHost -----------------------------
(* CodexHost on a small instance.  Which of the versions is installed first    *)
(* does not matter.                                                            *)
EXTENDS CodexHost

CONSTANT v1

MCInit == Init /\ machine.installed = v1
MCSpec == MCInit /\ [][Next]_vars
===============================================================================
