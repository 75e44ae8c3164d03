---------------------------- MODULE SerialWriter ----------------------------
(***************************************************************************)
(* What DeviceCommandQueue promises the rest of the program: "Single ADB   *)
(* writer queue per device with bounded backlog and sequencing"            *)
(* (command_queue.py:39).  Commands are executed one at a time, in the     *)
(* order in which they were accepted, each at most once; one that was      *)
(* dropped or has ended is never executed afterwards.                      *)
(*                                                                         *)
(* CommandQueue, with its worker thread, its flags and its counters, is    *)
(* shown to implement this module.                                         *)
(***************************************************************************)
EXTENDS Naturals

CONSTANT Command      \* the calls of submit(), each with a future of its own

VARIABLES
  ticket,   \* grows from one accepted command to the next, 0 before
  phase     \* how far each command has come

serialVars == <<ticket, phase>>

Init ==
  /\ ticket = [c \in Command |-> 0]
  /\ phase = [c \in Command |-> "unsent"]

Accept(c) ==
  /\ phase[c] = "unsent"
  /\ phase' = [phase EXCEPT ![c] = "accepted"]
  /\ \A d \in Command : ticket[d] < ticket'[c]
  /\ ticket' = [ticket EXCEPT ![c] = ticket'[c]]

Refuse(c) ==
  /\ phase[c] = "unsent"
  /\ phase' = [phase EXCEPT ![c] = "ended"]
  /\ UNCHANGED ticket

\* c begins only when every command accepted before it has ended.
Begin(c) ==
  /\ phase[c] = "accepted"
  /\ \A d \in Command : 0 < ticket[d] /\ ticket[d] < ticket[c] => phase[d] = "ended"
  /\ phase' = [phase EXCEPT ![c] = "executing"]
  /\ UNCHANGED ticket

\* A command ends by running to its end or by being dropped before it ran.
End(c) ==
  /\ phase[c] \in {"accepted", "executing"}
  /\ phase' = [phase EXCEPT ![c] = "ended"]
  /\ UNCHANGED ticket

Next == \E c \in Command : Accept(c) \/ Refuse(c) \/ Begin(c) \/ End(c)

Spec == Init /\ [][Next]_serialVars
=============================================================================
