-------------------------- MODULE StorageGate_proofs --------------------------
(***************************************************************************)
(* Proofs about StorageGate, for any capacities, margin, thresholds and    *)
(* environment: the types, that true readings are accepted, and that a     *)
(* collect never finds the warehouse full.                                 *)
(***************************************************************************)
EXTENDS StorageGate, TLAPS

SeenCount == [used |-> seen.used, capacity |-> seen.capacity]

\* A trusted reading is the baseline, and with the tap under way it still is.
TrustedIsBaseline ==
  /\ seen.read /\ seen.verdict = "trusted" => baseline = SeenCount
  /\ pc = "tapping" => expected /\ CanCollectOne
  /\ pc \in {"plan", "tapping"} /\ seen.read => ~ hit

\* Where the counter may be when nothing happened that the reader cannot
\* explain: where it was read, one higher after an announced collect, or below
\* a full baseline.
Explained ==
  clean /\ baseline # NoBaseline =>
    /\ capacity >= baseline.capacity
    /\ capacity > baseline.capacity => AllowIncrease
    /\ IF hit
       THEN expected /\ used = baseline.used + 1 /\ ~ Full(baseline)
       ELSE used = baseline.used \/ (Full(baseline) /\ used < baseline.used)

\* Before the first baseline nothing is collected.
NoEarlyHit == clean /\ baseline = NoBaseline => ~ hit

\* A reading to plan with is too low by no more than the items the frame left out,
\* unless these are more than the margin is for.
NearlyRight ==
  pc \in {"plan", "tapping"} /\ behind <= Margin /\ seen.read /\ seen.verdict = "trusted" =>
    used <= seen.used + behind /\ capacity >= seen.capacity

GateInv ==
  /\ GateTypeOK
  /\ TrustedIsBaseline
  /\ Explained
  /\ NoEarlyHit
  /\ NearlyRight
  /\ TrueReadingsAccepted

-----------------------------------------------------------------------------

\* The margin is a number of items (models.py:93).
LEMMA MarginIsNat == Margin \in Nat
  BY GateAssumption

\* The counter starts somewhere within the warehouse (storage_validation.py:55-73).
LEMMA InitGate == Init => GateInv
<1>. SUFFICES ASSUME Init PROVE GateInv
  OBVIOUS
<1>1. GateTypeOK
  <2>1. 0 \in 0 .. Enough /\ 0 \in 0 .. Margin + 1
    BY GateAssumption
  <2>. QED BY <2>1 DEF Init, GateTypeOK
<1>2. seen.read = FALSE
  BY DEF Init, Nothing
<1>3. TrustedIsBaseline /\ NearlyRight /\ TrueReadingsAccepted
  BY <1>2 DEF Init, TrustedIsBaseline, NearlyRight, TrueReadingsAccepted
<1>4. Explained /\ NoEarlyHit
  BY DEF Init, Explained, NoEarlyHit
<1>. QED BY <1>1, <1>3, <1>4 DEF GateInv

\* What the screen shows is a count (storage_validation.py:75).
LEMMA CountsShown ==
  ASSUME GateTypeOK
  PROVE  /\ Shown \in Count
         /\ used > 0 => ShownLate \in Count
         /\ used \in Nat /\ capacity \in Nat
<1>1. capacity \in Nat
  BY GateAssumption DEF GateTypeOK
<1>2. used \in Nat
  BY <1>1 DEF GateTypeOK
<1>3. used > 0 => used - 1 \in Nat
  BY <1>2
<1>. QED BY <1>1, <1>2, <1>3 DEF Shown, ShownLate, Count

\* A reading that is one has its numbers (storage_validation.py:85-144).
LEMMA SeenTypes ==
  ASSUME GateTypeOK, seen.read
  PROVE  seen.used \in Nat /\ seen.capacity \in Nat
<1>1. seen # Nothing
  BY DEF Nothing
<1>2. seen \in Reading
  BY <1>1 DEF GateTypeOK
<1>. QED BY <1>2 DEF Reading

\* A reading has the types, whatever it is compared with
\* (storage_validation.py:95-165).
LEMMA ReadValueTypes ==
  ASSUME GateTypeOK, NEW count \in Count, NEW weight \in Nat, ReadValue(count, weight)
  PROVE  /\ baseline' \in Count \union {NoBaseline}
         /\ fused' \in 0 .. Enough
         /\ expected' = FALSE
         /\ hit' = FALSE
         /\ seen' \in Reading
         /\ seen'.used = count.used /\ seen'.capacity = count.capacity
         /\ seen'.verdict = "trusted" =>
              baseline' = count /\ Accepted(count) /\ Fused(count, weight) >= Enough
         /\ Accepted(count) => baseline' = count /\ seen'.verdict # "rejected"
<1>1. Fused(count, weight) \in 0 .. Enough
  BY GateAssumption DEF GateTypeOK, Fused
<1>2. count.used \in Nat /\ count.capacity \in Nat
  BY DEF Count
<1>3. PICK verdict \in {"trusted", "fusing", "rejected"} :
        /\ seen' = [read |-> TRUE, used |-> count.used, capacity |-> count.capacity,
                    verdict |-> verdict]
        /\ IF Accepted(count)
           THEN /\ baseline' = count /\ fused' = Fused(count, weight)
                /\ verdict = IF fused' >= Enough THEN "trusted" ELSE "fusing"
           ELSE baseline' = baseline /\ fused' = fused /\ verdict = "rejected"
  <2>1. CASE Accepted(count) /\ fused' >= Enough
    BY <2>1 DEF ReadValue
  <2>2. CASE Accepted(count) /\ ~ (fused' >= Enough)
    BY <2>2 DEF ReadValue
  <2>3. CASE ~ Accepted(count)
    BY <2>3 DEF ReadValue
  <2>. QED BY <2>1, <2>2, <2>3
<1>4. seen' \in Reading /\ seen'.used = count.used /\ seen'.capacity = count.capacity
        /\ seen'.verdict = verdict
  BY <1>2, <1>3 DEF Reading
<1>5. baseline' \in Count \union {NoBaseline} /\ fused' \in 0 .. Enough
  BY <1>1, <1>3 DEF GateTypeOK
<1>6. expected' = FALSE /\ hit' = FALSE
  BY DEF ReadValue
<1>. QED BY <1>3, <1>4, <1>5, <1>6

\* What is explained is accepted (storage_validation.py:99-135).
LEMMA ExplainedIsAccepted ==
  ASSUME GateInv, clean
  PROVE  Accepted(Shown)
<1>. SUFFICES ASSUME baseline # NoBaseline PROVE Accepted(Shown)
  BY DEF Accepted
<1>1. baseline \in Count
  BY DEF GateInv, GateTypeOK
<1>2. baseline.used \in Nat /\ baseline.capacity \in Nat /\ used \in Nat /\ capacity \in Nat
  BY <1>1, CountsShown DEF GateInv, Count
<1>3. used = baseline.used \/ (expected /\ used = baseline.used + 1)
        \/ (Full(baseline) /\ used < baseline.used)
  BY DEF GateInv, Explained
<1>4. DeltaAccepted(used - baseline.used)
  BY <1>2, <1>3 DEF DeltaAccepted
<1>. QED BY <1>4 DEF GateInv, Explained, Accepted, Shown

\* A reading of what is there (observer.py:137-178).
LEMMA TrueReading ==
  ASSUME GateInv, NEW weight \in Nat, ReadValue(Shown, weight), UNCHANGED clean,
         pc \in {"observe", "reobserve"}, behind' = 0, pc' = NextStage, UNCHANGED warehouse
  PROVE  GateInv'
<1>1. GateTypeOK /\ Shown \in Count /\ used \in Nat /\ capacity \in Nat
  BY CountsShown DEF GateInv
<1>2. /\ baseline' \in Count \union {NoBaseline}
      /\ fused' \in 0 .. Enough
      /\ expected' = FALSE
      /\ hit' = FALSE
      /\ seen' \in Reading
      /\ seen'.used = used /\ seen'.capacity = capacity
      /\ seen'.verdict = "trusted" => baseline' = Shown
      /\ Accepted(Shown) => baseline' = Shown /\ seen'.verdict # "rejected"
  BY <1>1, ReadValueTypes DEF Shown
<1>3. pc' \in {"plan", "observe"}
  BY DEF NextStage
<1>4. GateTypeOK'
  <2>1. behind' \in 0 .. Margin + 1
    BY MarginIsNat
  <2>. QED BY <1>1, <1>2, <1>3, <2>1 DEF GateTypeOK, warehouse
<1>5. TrustedIsBaseline'
  BY <1>2, <1>3 DEF TrustedIsBaseline, SeenCount, Shown
<1>6. clean' => baseline' = Shown /\ seen'.verdict # "rejected"
  BY <1>2, ExplainedIsAccepted
<1>7. Explained'
  BY <1>1, <1>2, <1>6 DEF Explained, Shown, warehouse
<1>8. NoEarlyHit'
  BY <1>2 DEF NoEarlyHit
<1>9. NearlyRight'
  BY <1>1, <1>2 DEF NearlyRight, warehouse
<1>10. TrueReadingsAccepted'
  BY <1>6 DEF TrueReadingsAccepted
<1>. QED BY <1>4, <1>5, <1>7, <1>8, <1>9, <1>10 DEF GateInv

\* A reading of the counter as it was before the collect (observer.py:137-178).
LEMMA LateReading ==
  ASSUME GateInv, used > 0, ReadValue(ShownLate, Enough), clean' = FALSE,
         pc \in {"observe", "reobserve"}, behind' = 1, pc' = NextStage, UNCHANGED warehouse
  PROVE  GateInv'
<1>1. GateTypeOK /\ ShownLate \in Count /\ used \in Nat /\ capacity \in Nat /\ Enough \in Nat
  BY CountsShown, GateAssumption DEF GateInv
<1>2. /\ baseline' \in Count \union {NoBaseline}
      /\ fused' \in 0 .. Enough
      /\ expected' = FALSE
      /\ hit' = FALSE
      /\ seen' \in Reading
      /\ seen'.used = used - 1 /\ seen'.capacity = capacity
      /\ seen'.verdict = "trusted" => baseline' = ShownLate
  BY <1>1, ReadValueTypes DEF ShownLate
<1>3. pc' \in {"plan", "observe"}
  BY DEF NextStage
<1>4. GateTypeOK'
  <2>1. behind' \in 0 .. Margin + 1
    BY MarginIsNat
  <2>. QED BY <1>1, <1>2, <1>3, <2>1 DEF GateTypeOK, warehouse
<1>5. TrustedIsBaseline'
  BY <1>2, <1>3 DEF TrustedIsBaseline, SeenCount, ShownLate
<1>6. NearlyRight'
  BY <1>1, <1>2 DEF NearlyRight, warehouse
<1>. QED BY <1>4, <1>5, <1>6 DEF GateInv, Explained, NoEarlyHit, TrueReadingsAccepted

\* No reading, or one of low confidence (storage_validation.py:76-93).
LEMMA NoReading ==
  ASSUME GateInv, ReadNothing \/ ReadLow(Shown),
         pc \in {"observe", "reobserve"}, behind' = 0, pc' = NextStage, UNCHANGED warehouse
  PROVE  GateInv'
<1>1. GateTypeOK /\ used \in Nat /\ capacity \in Nat
  BY CountsShown DEF GateInv
<1>2. pc' \in {"plan", "observe"}
  BY DEF NextStage
<1>3. CASE ReadNothing
  <2>1. GateTypeOK'
    BY <1>1, <1>2, <1>3, MarginIsNat DEF GateTypeOK, warehouse, ReadNothing
  <2>. QED
    BY <1>2, <1>3, <2>1
    DEF GateInv, TrustedIsBaseline, Explained, NoEarlyHit, NearlyRight, TrueReadingsAccepted,
        ReadNothing, Nothing, warehouse
<1>4. CASE ReadLow(Shown)
  <2>1. seen' \in Reading /\ seen'.verdict = "low" /\ seen'.used = used /\ seen'.capacity = capacity
    BY <1>1, <1>4 DEF ReadLow, Shown, Reading
  <2>2. GateTypeOK'
    <3>1. behind' \in 0 .. Margin + 1
      BY MarginIsNat
    <3>. QED BY <1>1, <1>2, <1>4, <2>1, <3>1 DEF GateTypeOK, warehouse, ReadLow
  <2>3. clean' => clean /\ ~ hit
    BY <1>4 DEF ReadLow
  <2>4. Explained'
    BY <1>4, <2>3 DEF GateInv, Explained, ReadLow, warehouse
  <2>5. NearlyRight'
    BY <1>1, <2>1 DEF NearlyRight, warehouse
  <2>. QED
    BY <1>2, <1>4, <2>1, <2>2, <2>4, <2>5
    DEF GateInv, TrustedIsBaseline, NoEarlyHit, TrueReadingsAccepted, ReadLow
<1>. QED BY <1>3, <1>4

\* A misread count is trusted only if it is the baseline, and that is nearly right
\* unless the reader had lost track (storage_validation.py:95-165).
LEMMA MisreadingKeeps ==
  ASSUME GateInv, NEW count \in Misreadings, Misread(count),
         pc \in {"observe", "reobserve"}, pc' = NextStage, UNCHANGED warehouse
  PROVE  GateInv'
<1>1. /\ GateTypeOK /\ used \in Nat /\ capacity \in Nat
      /\ count \in Count /\ count.used \in Nat /\ count.capacity \in Nat
      /\ Enough \in Nat /\ Enough > 1
  BY CountsShown, GateAssumption DEF GateInv, Count
<1>2. /\ ReadValue(count, 1) /\ clean' = FALSE
      /\ behind' = IF ~ clean THEN Margin + 1 ELSE IF hit THEN 1 ELSE 0
  BY DEF Misread
<1>3. /\ baseline' \in Count \union {NoBaseline}
      /\ fused' \in 0 .. Enough
      /\ expected' = FALSE
      /\ hit' = FALSE
      /\ seen' \in Reading
      /\ seen'.used = count.used /\ seen'.capacity = count.capacity
      /\ seen'.verdict = "trusted" => baseline' = count /\ Fused(count, 1) >= Enough
  BY <1>1, <1>2, ReadValueTypes
<1>4. pc' \in {"plan", "observe"}
  BY DEF NextStage
<1>5. GateTypeOK'
  <2>1. behind' \in 0 .. Margin + 1
    BY <1>2, MarginIsNat
  <2>. QED BY <1>1, <1>2, <1>3, <1>4, <2>1 DEF GateTypeOK, warehouse
<1>6. TrustedIsBaseline'
  BY <1>1, <1>3, <1>4 DEF TrustedIsBaseline, SeenCount, Count
<1>7. NearlyRight'
  <2>. SUFFICES ASSUME behind' <= Margin, seen'.verdict = "trusted"
                PROVE  used' <= seen'.used + behind' /\ capacity' >= seen'.capacity
    BY DEF NearlyRight
  <2>1. baseline = count
    BY <1>1, <1>3 DEF Fused
  <2>2. clean /\ baseline # NoBaseline
    BY <1>1, <1>2, <2>1, GateAssumption DEF Count
  <2>3. capacity >= count.capacity /\ used <= count.used + (IF hit THEN 1 ELSE 0)
    BY <1>1, <2>1, <2>2 DEF GateInv, Explained
  <2>. QED BY <1>1, <1>2, <1>3, <2>2, <2>3 DEF warehouse
<1>. QED
  BY <1>2, <1>5, <1>6, <1>7 DEF GateInv, Explained, NoEarlyHit, TrueReadingsAccepted

\* Whatever a frame shows, the invariant survives it (orchestrator.py:219-229).
LEMMA FrameKeeps ==
  ASSUME GateInv, Observe
  PROVE  GateInv'
<1>1. CASE ReadStrong /\ behind' = 0
  BY <1>1, TrueReading, GateAssumption DEF Observe, ReadStrong
<1>2. CASE ReadValue(Shown, 1) /\ UNCHANGED clean /\ behind' = 0
  BY <1>2, TrueReading DEF Observe
<1>3. CASE (ReadLow(Shown) \/ ReadNothing) /\ behind' = 0
  BY <1>3, NoReading DEF Observe
<1>4. CASE ReadLate /\ behind' = 1
  BY <1>4, LateReading DEF Observe, ReadLate
<1>5. CASE \E count \in Misreadings : Misread(count)
  BY <1>5, MisreadingKeeps DEF Observe
<1>6. CASE ReadFrame /\ behind' = 0
  BY <1>1, <1>2, <1>3, <1>6 DEF ReadFrame
<1>. QED BY <1>4, <1>5, <1>6 DEF Observe

\* A collect is planned on a trusted reading with space to spare
\* (v0.py:130-161, v0_policy.py:12-26).
LEMMA PlanKeeps ==
  ASSUME GateInv, Collect \/ Skip
  PROVE  GateInv'
<1>1. CASE Collect
  <2>1. GateTypeOK'
    BY <1>1 DEF Collect, GateInv, GateTypeOK, warehouse
  <2>2. TrustedIsBaseline'
    BY <1>1 DEF Collect, GateInv, TrustedIsBaseline, CanCollectOne, SeenCount
  <2>3. ~ hit
    BY <1>1 DEF Collect, CanCollectOne, GateInv, TrustedIsBaseline
  <2>4. Explained' /\ NoEarlyHit'
    BY <1>1, <2>3 DEF Collect, GateInv, Explained, NoEarlyHit, Full, warehouse
  <2>. QED
    BY <1>1, <2>1, <2>2, <2>4
    DEF Collect, GateInv, NearlyRight, TrueReadingsAccepted, warehouse
<1>2. CASE Skip
  BY <1>2
  DEF Skip, GateInv, GateTypeOK, TrustedIsBaseline, SeenCount, Explained, Full, NoEarlyHit,
      NearlyRight, TrueReadingsAccepted, warehouse, reader
<1>. QED BY <1>1, <1>2

\* What a reading to plan with says of the warehouse (v0_policy.py:12-26).
LEMMA Planning ==
  ASSUME GateInv, pc = "tapping"
  PROVE  /\ expected /\ ~ hit
         /\ baseline = SeenCount /\ baseline \in Count
         /\ seen.read /\ seen.verdict = "trusted"
         /\ seen.used \in Nat /\ seen.capacity \in Nat
         /\ seen.used + 1 + Margin <= seen.capacity
         /\ ~ Full(baseline)
<1>1. /\ expected /\ CanCollectOne /\ seen.read /\ seen.verdict = "trusted"
      /\ ~ hit /\ baseline = SeenCount
  BY DEF GateInv, TrustedIsBaseline, CanCollectOne
<1>2. seen.used \in Nat /\ seen.capacity \in Nat
  BY <1>1, SeenTypes DEF GateInv
<1>3. seen.used + 1 + Margin <= seen.capacity
  BY <1>1, <1>2, GateAssumption DEF CanCollectOne
<1>4. baseline \in Count /\ ~ Full(baseline)
  BY <1>1, <1>2, <1>3, GateAssumption DEF SeenCount, Count, Full
<1>. QED BY <1>1, <1>2, <1>3, <1>4

\* The tap lands, or does not (orchestrator.py:287-335).
LEMMA TapKeeps ==
  ASSUME GateInv, TapEnds
  PROVE  GateInv'
<1>1. /\ expected /\ ~ hit /\ baseline = SeenCount /\ baseline \in Count /\ ~ Full(baseline)
      /\ baseline # NoBaseline
  BY Planning, GateAssumption DEF TapEnds, Count
<1>2. used \in Nat /\ capacity \in Nat /\ baseline.used \in Nat
  BY <1>1, CountsShown DEF GateInv, Count
<1>3. UNCHANGED <<capacity, baseline, fused, expected, seen, behind, clean>>
        /\ pc' \in {"reobserve", "observe"}
  BY DEF TapEnds, reader
<1>4. clean => used = baseline.used
  BY <1>1 DEF GateInv, Explained
<1>5. CASE used < capacity /\ used' = used + 1 /\ hit' = TRUE
  <2>1. GateTypeOK'
    BY <1>2, <1>3, <1>5 DEF GateInv, GateTypeOK
  <2>2. Explained' /\ NoEarlyHit'
    BY <1>1, <1>2, <1>3, <1>4, <1>5 DEF GateInv, Explained, NoEarlyHit, Full
  <2>3. TrustedIsBaseline' /\ NearlyRight' /\ TrueReadingsAccepted'
    BY <1>3 DEF GateInv, TrustedIsBaseline, SeenCount, NearlyRight, TrueReadingsAccepted
  <2>. QED BY <2>1, <2>2, <2>3 DEF GateInv
<1>6. CASE UNCHANGED <<used, hit>>
  <2>1. GateTypeOK'
    BY <1>3, <1>6 DEF GateInv, GateTypeOK
  <2>2. Explained' /\ NoEarlyHit'
    BY <1>1, <1>3, <1>6 DEF GateInv, Explained, NoEarlyHit, Full
  <2>3. TrustedIsBaseline' /\ NearlyRight' /\ TrueReadingsAccepted'
    BY <1>3 DEF GateInv, TrustedIsBaseline, SeenCount, NearlyRight, TrueReadingsAccepted
  <2>. QED BY <2>1, <2>2, <2>3 DEF GateInv
<1>. QED BY <1>5, <1>6 DEF TapEnds

\* What the player does is explained, or is noted as not
\* (storage_validation.py:38-41).
LEMMA PlayerKeeps ==
  ASSUME GateInv, PlayerAdds \/ PlayerClears \/ PlayerExpands
  PROVE  GateInv'
<1>1. UNCHANGED <<reader, pc, hit>>
  BY DEF PlayerAdds, PlayerClears, PlayerExpands
<1>2. TrustedIsBaseline'
  BY <1>1 DEF GateInv, TrustedIsBaseline, SeenCount, CanCollectOne, reader
<1>3. used \in Nat /\ capacity \in Nat /\ GateTypeOK
  BY CountsShown DEF GateInv
<1>4. baseline # NoBaseline => baseline.used \in Nat /\ baseline.capacity \in Nat
  BY <1>3 DEF GateTypeOK, Count
<1>5. seen.read => seen.used \in Nat /\ seen.capacity \in Nat
  BY <1>3, SeenTypes
<1>6. CASE PlayerAdds
  <2>1. /\ used' = used + 1 /\ used' \in 0 .. capacity /\ UNCHANGED capacity
        /\ behind' = (IF behind > Margin THEN behind ELSE behind + 1)
        /\ clean' = FALSE
    BY <1>3, <1>6 DEF PlayerAdds, GateTypeOK
  <2>2. GateTypeOK'
    <3>1. behind' \in 0 .. Margin + 1
      BY <1>3, <2>1, MarginIsNat DEF GateTypeOK
    <3>. QED BY <1>1, <1>3, <2>1, <3>1 DEF GateTypeOK, reader
  <2>3. NearlyRight'
    BY <1>1, <1>3, <1>5, <2>1, MarginIsNat DEF GateInv, GateTypeOK, NearlyRight, reader
  <2>. QED
    BY <1>2, <2>1, <2>2, <2>3 DEF GateInv, Explained, NoEarlyHit, TrueReadingsAccepted
<1>7. CASE PlayerClears
  <2>1. used' \in Nat /\ used' < used /\ used' <= capacity
    BY <1>3, <1>7 DEF GateTypeOK, PlayerClears
  <2>2. GateTypeOK'
    BY <1>3, <1>7, <2>1 DEF GateTypeOK, PlayerClears, reader
  <2>3. clean' => clean /\ (baseline = NoBaseline \/ (Full(baseline) /\ ~ hit))
    BY <1>7 DEF GateInv, Explained, PlayerClears
  <2>4. Explained' /\ NoEarlyHit'
    BY <1>3, <1>4, <1>7, <2>1, <2>3 DEF GateInv, Explained, NoEarlyHit, Full, PlayerClears, reader
  <2>5. NearlyRight'
    BY <1>1, <1>3, <1>5, <1>7, <2>1, MarginIsNat
    DEF GateInv, GateTypeOK, NearlyRight, PlayerClears, reader
  <2>6. TrueReadingsAccepted'
    BY <1>1, <2>3 DEF GateInv, TrueReadingsAccepted, reader
  <2>. QED BY <1>2, <2>2, <2>4, <2>5, <2>6 DEF GateInv
<1>8. CASE PlayerExpands
  <2>1. capacity' \in Capacities /\ capacity' \in Nat /\ capacity' > capacity
    BY <1>8, GateAssumption DEF PlayerExpands
  <2>2. GateTypeOK'
    BY <1>3, <1>8, <2>1 DEF GateTypeOK, PlayerExpands, reader
  <2>3. clean' => clean /\ AllowIncrease
    BY <1>8 DEF PlayerExpands
  <2>4. Explained' /\ NoEarlyHit'
    BY <1>3, <1>4, <1>8, <2>1, <2>3 DEF GateInv, Explained, NoEarlyHit, Full, PlayerExpands, reader
  <2>5. NearlyRight'
    BY <1>3, <1>5, <1>8, <2>1 DEF GateInv, NearlyRight, PlayerExpands, reader
  <2>6. TrueReadingsAccepted'
    BY <1>1, <2>3 DEF GateInv, TrueReadingsAccepted, reader
  <2>. QED BY <1>2, <2>2, <2>4, <2>5, <2>6 DEF GateInv
<1>. QED BY <1>6, <1>7, <1>8

-----------------------------------------------------------------------------

\* The invariant holds throughout.
THEOREM GateInvariant == Spec => []GateInv
<1>1. GateInv /\ [Next]_gateVars => GateInv'
  <2>. SUFFICES ASSUME GateInv, [Next]_gateVars PROVE GateInv'
    OBVIOUS
  <2>1. CASE UNCHANGED gateVars
    BY <2>1
    DEF gateVars, warehouse, reader, GateInv, GateTypeOK, TrustedIsBaseline, SeenCount,
        CanCollectOne, Explained, Full, NoEarlyHit, NearlyRight, TrueReadingsAccepted
  <2>. QED BY <2>1, FrameKeeps, PlanKeeps, TapKeeps, PlayerKeeps DEF Next
<1>. QED BY InitGate, <1>1, PTL DEF Spec

\* The types, and that the counter stays within the warehouse.
THEOREM GateTypes == Spec => []GateTypeOK
<1>1. GateInv => GateTypeOK
  BY DEF GateInv
<1>. QED BY GateInvariant, <1>1, PTL

\* A true reading is rejected only after something the reader cannot explain
\* (storage_validation.py:38-41, 85-133; README.md:203-205).
THEOREM NeverBlindWithoutCause == Spec => []TrueReadingsAccepted
<1>1. GateInv => TrueReadingsAccepted
  BY DEF GateInv
<1>. QED BY GateInvariant, <1>1, PTL

\* The safety margin covers what the frame leaves out, a late collect or what the
\* player adds in the meantime, up to so many items, and a misreading is trusted only if it repeats the count read before
\* (v0_policy.py:14, 21; README.md:203).
THEOREM CollectAlwaysFits == Spec => []CollectFits
<1>1. GateInv => CollectFits
  <2>. SUFFICES ASSUME GateInv, pc = "tapping", behind <= Margin PROVE used < capacity
    BY DEF CollectFits
  <2>1. /\ seen.read /\ seen.verdict = "trusted"
        /\ seen.used \in Nat /\ seen.capacity \in Nat /\ seen.used + 1 + Margin <= seen.capacity
    BY Planning
  <2>2. used \in Nat /\ capacity \in Nat /\ behind \in Nat /\ Margin \in Nat
    BY CountsShown, GateAssumption DEF GateInv, GateTypeOK
  <2>3. used <= seen.used + behind /\ capacity >= seen.capacity
    BY <2>1 DEF GateInv, NearlyRight
  <2>. QED BY <2>1, <2>2, <2>3
<1>. QED BY GateInvariant, <1>1, PTL
=============================================================================
