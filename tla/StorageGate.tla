----------------------------- MODULE StorageGate ----------------------------
(***************************************************************************)
(* ValidatedStorageReader (vision/storage_validation.py) between the OCR   *)
(* of the warehouse counter and the V0 loop: a changed reading is believed *)
(* only if a collect was announced (planner/v0.py:149-152), or if it falls *)
(* from a full baseline; any other is reported with confidence 0 and does  *)
(* not replace the baseline.                                               *)
(*                                                                         *)
(* The OCR reads what the game shows, with more or less confidence, or     *)
(* nothing, or a wrong count with a confidence that alone does not         *)
(* suffice; the collect may be missed and its result shown a frame late;   *)
(* the player collects, clears and enlarges the warehouse by hand.         *)
(***************************************************************************)
EXTENDS Integers

CONSTANTS
  Capacities,     \* the capacities the warehouse goes through
  Margin,         \* collect_safety_margin
  Enough,         \* min_ocr_confidence, in weak readings of the same value
  AllowIncrease,  \* allow_capacity_increase
  Misreadings,    \* the wrong counts the OCR may take for the one shown
  NoBaseline,
  Environment     \* what the surroundings may do, see Behaviour

Behaviour == {"none", "low", "weak", "lag", "missed", "adds", "clears", "expands"}

ASSUME GateAssumption ==
  /\ Capacities \subseteq Nat \ {0}
  /\ Margin \in Nat
  /\ Enough \in Nat \ {0}
  /\ AllowIncrease \in BOOLEAN
  /\ Misreadings \subseteq [used : Nat, capacity : Nat \ {0}]
  /\ Misreadings # {} => Enough > 1
  /\ NoBaseline \notin [used : Nat, capacity : Nat]
  /\ Environment \subseteq Behaviour

VARIABLES
  used, capacity,   \* the warehouse
  baseline,         \* _baseline, which is also the _stable_key
  fused,            \* the confidence in _stable_confidences, up to Enough
  expected,         \* _expected_delta is (1, 1)
  seen,             \* what read() returned last
  pc,               \* where the loop is
  hit,              \* history: a collect landed and no frame has been read since
  behind,           \* history: how many items the last frame does not show, the late
                    \* collect and what the player added since, counted up to one
                    \* more than the margin (bound)
  clean             \* history: nothing happened that the reader cannot explain

warehouse == <<used, capacity>>
reader    == <<baseline, fused, expected, seen>>
gateVars  == <<warehouse, reader, pc, hit, behind, clean>>

Count == [used : Nat, capacity : Nat]
Nothing == [read |-> FALSE]
Reading == [read : {TRUE}, used : Nat, capacity : Nat,
            verdict : {"trusted", "fusing", "low", "rejected"}]

Init ==
  /\ capacity \in Capacities
  /\ used \in 0 .. capacity
  /\ baseline = NoBaseline
  /\ fused = 0
  /\ expected = FALSE
  /\ seen = Nothing
  /\ pc = "observe"
  /\ hit = FALSE
  /\ behind = 0
  /\ clean = TRUE

Full(count) == count.used = count.capacity

-----------------------------------------------------------------------------
(* ValidatedStorageReader.read                                             *)

\* Mutant: a fall is believed from any baseline but a full one.
DeltaAccepted_NotFull(delta) ==
  delta = 0 \/ (expected /\ delta = 1) \/ (~ Full(baseline) /\ delta < 0)

\* allow_manual_rebase_once() has no caller.
DeltaAccepted(delta) ==
  delta = 0 \/ (expected /\ delta = 1) \/ (Full(baseline) /\ delta < 0)

Accepted(count) ==
  baseline # NoBaseline =>
    /\ count.capacity >= baseline.capacity
    /\ count.capacity > baseline.capacity => AllowIncrease
    /\ DeltaAccepted(count.used - baseline.used)

\* _accept: what was fused is kept while the same value is read.
Fused(count, weight) ==
  LET sum == IF baseline = count THEN fused + weight ELSE weight
  IN  IF sum > Enough THEN Enough ELSE sum

\* Mutant: a frame without a reading takes the expectation.
ReadNothing_Clears ==
  /\ seen' = Nothing
  /\ expected' = FALSE
  /\ UNCHANGED <<baseline, fused, hit, clean>>

\* A frame off the factory screen, or one the OCR makes nothing of: the
\* expectation stays.
ReadNothing ==
  /\ seen' = Nothing
  /\ UNCHANGED <<baseline, fused, expected, hit, clean>>

\* Below min_engine_confidence: the expectation is gone.
ReadLow(count) ==
  /\ seen' = [read |-> TRUE, used |-> count.used, capacity |-> count.capacity,
              verdict |-> "low"]
  /\ expected' = FALSE
  /\ hit' = FALSE
  /\ clean' = (clean /\ ~ hit)
  /\ UNCHANGED <<baseline, fused>>

ReadValue(count, weight) ==
  /\ expected' = FALSE
  /\ \/ /\ Accepted(count)
        /\ baseline' = count
        /\ fused' = Fused(count, weight)
        /\ seen' = [read |-> TRUE, used |-> count.used, capacity |-> count.capacity,
                    verdict |-> IF fused' >= Enough THEN "trusted" ELSE "fusing"]
     \/ /\ ~ Accepted(count)
        /\ seen' = [read |-> TRUE, used |-> count.used, capacity |-> count.capacity,
                    verdict |-> "rejected"]
        /\ UNCHANGED <<baseline, fused>>
  /\ hit' = FALSE

-----------------------------------------------------------------------------
(* The frames the loop takes, before the plan and after the tap.           *)

Shown == [used |-> used, capacity |-> capacity]

\* The frame shows the counter as it was before the collect.
ShownLate == [used |-> used - 1, capacity |-> capacity]

\* A reading whose confidence alone suffices.
ReadStrong == ReadValue(Shown, Enough) /\ UNCHANGED clean

ReadFrame ==
  \/ ReadStrong
  \/ "weak" \in Environment /\ ReadValue(Shown, 1) /\ UNCHANGED clean
  \/ "low" \in Environment /\ ReadLow(Shown)
  \/ "none" \in Environment /\ ReadNothing

ReadLate ==
  /\ "lag" \in Environment
  /\ hit /\ used > 0
  /\ ReadValue(ShownLate, Enough)
  /\ clean' = FALSE

\* Another count than the one shown.  A reader that had not lost track trusts it
\* only as the count before a collect; one that had may trust anything.
Misread(count) ==
  /\ count # Shown
  /\ ReadValue(count, 1)
  /\ behind' = IF ~ clean THEN Margin + 1 ELSE IF hit THEN 1 ELSE 0
  /\ clean' = FALSE

NextStage == IF pc = "observe" THEN "plan" ELSE "observe"

Observe ==
  /\ pc \in {"observe", "reobserve"}
  /\ \/ ReadFrame /\ behind' = 0
     \/ ReadLate /\ behind' = 1
     \/ \E count \in Misreadings : Misread(count)
  /\ pc' = NextStage
  /\ UNCHANGED warehouse

\* Of the frames, one that is read with confidence.
ObserveStrong ==
  /\ pc \in {"observe", "reobserve"}
  /\ ReadStrong
  /\ behind' = 0
  /\ pc' = NextStage
  /\ UNCHANGED warehouse

-----------------------------------------------------------------------------
(* The collect.                                                            *)

\* Mutant: the margin is not added.
CanCollectOne_NoMargin ==
  /\ seen.read
  /\ seen.verdict = "trusted"
  /\ seen.capacity - seen.used >= 1

\* can_collect_one
CanCollectOne ==
  /\ seen.read
  /\ seen.verdict = "trusted"
  /\ seen.capacity - seen.used >= 1 + Margin

\* execute(): expect_delta(1, 1), then the tap is submitted.
Collect ==
  /\ pc = "plan"
  /\ CanCollectOne
  /\ expected' = TRUE
  /\ pc' = "tapping"
  /\ UNCHANGED <<warehouse, baseline, fused, seen, hit, behind, clean>>

\* Nothing to collect, or the Keeper denies.
Skip ==
  /\ pc = "plan"
  /\ pc' = "observe"
  /\ UNCHANGED <<warehouse, reader, hit, behind, clean>>

\* The tap is made, or lost; after a timeout or an error no fresh frame is taken.
TapEnds ==
  /\ pc = "tapping"
  /\ \/ used < capacity /\ used' = used + 1 /\ hit' = TRUE
     \/ "missed" \in Environment /\ UNCHANGED <<used, hit>>
     \/ used = capacity /\ UNCHANGED <<used, hit>>
  /\ pc' \in {"reobserve", "observe"}
  /\ UNCHANGED <<capacity, reader, behind, clean>>

-----------------------------------------------------------------------------
(* The player.                                                             *)

PlayerAdds ==
  /\ "adds" \in Environment
  /\ used < capacity
  /\ used' = used + 1
  /\ behind' = IF behind > Margin THEN behind ELSE behind + 1
  /\ clean' = FALSE
  /\ UNCHANGED <<capacity, reader, pc, hit>>

\* A clear is explained when the reader's baseline is a full warehouse.
PlayerClears ==
  /\ "clears" \in Environment
  /\ used > 0
  /\ used' \in 0 .. used - 1
  /\ clean' = (clean /\ (baseline = NoBaseline \/ Full(baseline)))
  /\ UNCHANGED <<capacity, reader, pc, hit, behind>>

PlayerExpands ==
  /\ "expands" \in Environment
  /\ capacity' \in {c \in Capacities : c > capacity}
  /\ clean' = (clean /\ AllowIncrease)
  /\ UNCHANGED <<used, reader, pc, hit, behind>>

Next ==
  \/ Observe \/ Collect \/ Skip \/ TapEnds
  \/ PlayerAdds \/ PlayerClears \/ PlayerExpands

(***************************************************************************)
(* The loop runs, and of the frames it takes again and again some are read *)
(* with confidence.                                                        *)
(***************************************************************************)
Fairness ==
  /\ WF_gateVars(Observe) /\ WF_gateVars(Collect \/ Skip) /\ WF_gateVars(TapEnds)
  /\ SF_gateVars(ObserveStrong)

Spec == Init /\ [][Next]_gateVars /\ Fairness

-----------------------------------------------------------------------------
(* Properties                                                              *)

\* Each variable has its type, and the counter stays within the warehouse.
GateTypeOK ==
  /\ capacity \in Capacities
  /\ used \in 0 .. capacity
  /\ baseline \in Count \union {NoBaseline}
  /\ fused \in 0 .. Enough
  /\ expected \in BOOLEAN
  /\ seen \in Reading \union {Nothing}
  /\ pc \in {"observe", "plan", "tapping", "reobserve"}
  /\ hit \in BOOLEAN
  /\ behind \in 0 .. Margin + 1
  /\ clean \in BOOLEAN

\* The reader goes blind only for a cause: unless the player changed the counter
\* other than by clearing a warehouse known to be full, or the one frame that was
\* to show a collect was unreadable or late, a true reading is never rejected,
\* whatever was missed, covered or read with little confidence
\* (storage_validation.py:38-41, 85-133; README.md:203-205).
TrueReadingsAccepted ==
  clean => (seen.read => seen.verdict # "rejected")

\* The loop never taps collect at a full warehouse, as long as the frame it planned
\* on leaves no more items out than the margin is for, be they the late collect or
\* what the player adds before the tap lands; nor on a frame that is misread, if
\* the reader had not lost track before: one misreading is trusted only if it
\* repeats the count read before (v0_policy.py:14, 21; v0.py:132-133, 149-152;
\* storage_validation.py:156-165; README.md:196, 203).
CollectFits == pc = "tapping" /\ behind <= Margin => used < capacity

TrustedFree ==
  seen.read /\ seen.verdict = "trusted" /\ seen.used < seen.capacity

\* As long as nothing unexplained happens, trust comes back: after a clear of a
\* full warehouse, an enlargement, weak readings, covered frames and collects that
\* were missed, the loop gets trusted readings again (storage_validation.py:
\* 117-144, 156-165).
TrustReturns == []clean => []<>(seen.read /\ seen.verdict = "trusted")

\* After the warehouse was known to be full and has been cleared by hand, the loop
\* recovers: again and again it has a trusted reading with free space, unless the
\* warehouse is full again (README.md:205, 353; storage_validation.py:41).
ManualClearRecovers ==
  <>(baseline # NoBaseline /\ Full(baseline) /\ used < capacity)
    => []<>(TrustedFree \/ used = capacity)
=============================================================================
