------------------------------ MODULE MCAppRun ------------------------------
(* One main thread, cycles that write one command each.                     *)
EXTENDS AppRun

CONSTANTS c1, c2, main_thread

MCCommand == {c1, c2}
MCClient  == {main_thread}
MCOwner   == [c \in MCCommand |-> main_thread]
=============================================================================
