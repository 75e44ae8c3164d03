------------------------------ MODULE MCV0Loop ------------------------------
(* A warehouse of two or three places, one or two productions per session.  *)
EXTENDS V0Loop

\* Readings are exact; everything else goes wrong.
Exact == {"player", "stale", "interrupt", "crash", "storefail"}

\* Readings are ambiguous or late, popups come up, productions are quick, Ctrl-C
\* is pressed and the store fails.
Harsh == Behaviour \ {"crash", "player"}

\* Only this: a frame on which the factory is not recognised.
Unrecognised == {"ambiguous"}
=============================================================================
