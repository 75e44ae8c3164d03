--------------------------- MODULE MCMetricsLease ---------------------------
(* Two processes on one device.                                             *)
EXTENDS MetricsLease

CONSTANTS p1, p2

MCProcess == {p1, p2}

Failing == {"storefail"}
=============================================================================
