----------------------------- MODULE MCRateGate -----------------------------
(* Two actions, a minute of two ticks and a retention of four.              *)
EXTENDS RateGate

CONSTANTS collect, produce

MCAction == {collect, produce}
=============================================================================
