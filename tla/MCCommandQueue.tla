--------------------------- MODULE MCCommandQueue ---------------------------
(* DeviceCommandQueue used by two threads, one making two calls.            *)
EXTENDS CommandQueue, TLC

CONSTANTS a1, a2, b1, ta, tb

MCCommand == {a1, a2, b1}
MCClient  == {ta, tb}
MCOwner   == (a1 :> ta) @@ (a2 :> ta) @@ (b1 :> tb)
=============================================================================
