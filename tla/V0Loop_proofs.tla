---------------------------- MODULE V0Loop_proofs ---------------------------
(***************************************************************************)
(* V0Loop for every warehouse, reserve, margin, cap and error limit,       *)
(* whatever is misread, times out, fails, is interrupted or crashes: its   *)
(* types, the stop, the earned evidence, and what can be collected.  The   *)
(* session cap needs exact readings, the samples a store that is sound.    *)
(***************************************************************************)
EXTENDS V0Loop, TLAPS

USE LoopAssumption DEF LoopAssumption

-----------------------------------------------------------------------------

\* The loop starts with an empty session and nothing under way.
LEMMA InitInv == Init => LoopInv
  <1> SUFFICES ASSUME Init PROVE LoopInv
    OBVIOUS
  <1>1. GameTypes /\ CycleTypes /\ FrameTypes /\ CounterTypes
    BY DEF Init, GameTypes, CycleTypes, FrameTypes, CounterTypes
  <1>2. FlagTypes
    BY DEF Init, FlagTypes
  <1>3. TrackTypes
    <2>1. 0 \in 0 .. Enough /\ {} \in SUBSET Transition /\ FALSE \in BOOLEAN
      OBVIOUS
    <2> QED
      BY <2>1 DEF Init, TrackTypes, Tracker
  <1>4. Phases /\ Plans
    BY DEF Init, Phases, Plans, BeforeTheWrite
  <1> QED
    BY <1>1, <1>2, <1>3, <1>4 DEF LoopInv, LoopTypeOK

-----------------------------------------------------------------------------
(* Types.                                                                  *)

\* The game stays within its types: only the tap and the surroundings change it.
LEMMA GameStep ==
  ASSUME LoopInv, Next
  PROVE  GameTypes'
  <1> USE DEF LoopInv, LoopTypeOK, GameTypes, gameVars
  <1>1. CASE UNCHANGED gameVars
    BY <1>1
  <1>2. CASE Hit
    BY <1>2 DEF Hit
  <1>3. CASE Finishes \/ PlayerClears \/ ScreenChanges
    BY <1>3 DEF Finishes, PlayerClears, ScreenChanges
  <1> QED
    BY <1>1, <1>2, <1>3
       DEF Next, MainStep, WriterStep, loopVars, Missed,
           BeginCycle, Observe, PhaseFails, TickRaises, NoAction, NeedsHuman, Approve,
           CheckAgain, Execute, ExecuteFails, Result, WriteFailed, Reobserve,
           ReobserveFails, NotFresh, VerifyFails, VerifyRaises, VerifyPasses, Accept,
           LoopError, LoopEscapes, InterruptDrained, TapBegins, TapEnds, Timeout, Interrupt, Crash,
           Restart, Latch, DeadlinePasses, Finishes, PlayerClears, ScreenChanges,
           Terminated

\* So does the place of the loop.
LEMMA CycleStep ==
  ASSUME LoopInv, Next
  PROVE  CycleTypes'
  <1> USE DEF LoopInv, LoopTypeOK, CycleTypes, gameVars, historyVars, cycleVars,
              trackVars, stopVars
  <1>1. CASE BeginCycle
    BY <1>1 DEF BeginCycle, Goes, Stops, CycleRaises, LeaveRunOnce
  <1>2. CASE Observe
    BY <1>2 DEF Observe
  <1>3. CASE PhaseFails
    BY <1>3 DEF PhaseFails, CycleEnds, CycleReturns, CycleRaises, LeaveRunOnce
  <1>4. CASE NoAction
    BY <1>4 DEF NoAction, CycleEnds, CycleReturns, CycleRaises, LeaveRunOnce
  <1>5. CASE NeedsHuman
    BY <1>5 DEF NeedsHuman
  <1>6. CASE Approve
    BY <1>6 DEF Approve, Planned
  <1>7. CASE CheckAgain
    BY <1>7 DEF CheckAgain, Goes, Stops, CycleRaises, LeaveRunOnce
  <1>8. CASE Execute
    BY <1>8 DEF Execute
  <1>9. CASE ExecuteFails
    BY <1>9 DEF ExecuteFails, CycleEnds, CycleReturns, CycleRaises, LeaveRunOnce
  <1>10. CASE Result
    BY <1>10 DEF Result
  <1>11. CASE WriteFailed
    BY <1>11 DEF WriteFailed, CycleEnds, CycleReturns, CycleRaises, LeaveRunOnce
  <1>12. CASE Reobserve
    BY <1>12 DEF Reobserve
  <1>13. CASE ReobserveFails
    BY <1>13 DEF ReobserveFails, CycleEnds, CycleReturns, CycleRaises, LeaveRunOnce
  <1>14. CASE NotFresh
    BY <1>14 DEF NotFresh, CycleEnds, CycleReturns, CycleRaises, LeaveRunOnce
  <1>15. CASE VerifyFails
    BY <1>15 DEF VerifyFails, CycleEnds, CycleReturns, CycleRaises, LeaveRunOnce
  <1>16. CASE VerifyRaises
    BY <1>16 DEF VerifyRaises, CycleRaises, LeaveRunOnce
  <1>17. CASE VerifyPasses
    BY <1>17 DEF VerifyPasses
  <1>18. CASE Accept
    BY <1>18 DEF Accept, CycleEnds, CycleReturns, CycleRaises, LeaveRunOnce
  <1>19. CASE LoopError
    BY <1>19 DEF LoopError
  <1>20. CASE InterruptDrained
    BY <1>20 DEF InterruptDrained
  <1>21. CASE TapBegins
    BY <1>21 DEF TapBegins
  <1>22. CASE TapEnds
    BY <1>22 DEF TapEnds, Hit, Missed
  <1>23. CASE Timeout
    BY <1>23 DEF Timeout
  <1>24. CASE Interrupt
    BY <1>24 DEF Interrupt
  <1>25. CASE Crash
    BY <1>25 DEF Crash, Hit, Missed
  <1>26. CASE Restart
    BY <1>26 DEF Restart
  <1>27. CASE Latch
    BY <1>27 DEF Latch
  <1>28. CASE DeadlinePasses
    BY <1>28 DEF DeadlinePasses
  <1>29. CASE Finishes
    BY <1>29 DEF Finishes
  <1>30. CASE PlayerClears
    BY <1>30 DEF PlayerClears
  <1>31. CASE ScreenChanges
    BY <1>31 DEF ScreenChanges
  <1>32. CASE Terminated
    BY <1>32 DEF Terminated, loopVars
  <1>33. CASE TickRaises
    BY <1>33 DEF TickRaises, CycleRaises, LeaveRunOnce
  <1>34. CASE LoopEscapes
    BY <1>34 DEF LoopEscapes
  <1> QED
    BY <1>1, <1>2, <1>3, <1>4, <1>5, <1>6, <1>7, <1>8, <1>9, <1>10, <1>11,
       <1>12, <1>13, <1>14, <1>15, <1>16, <1>17, <1>18, <1>19, <1>20, <1>21,
       <1>22, <1>23, <1>24, <1>25, <1>26, <1>27, <1>28, <1>29, <1>30, <1>31,
       <1>32, <1>33, <1>34
       DEF Next, MainStep, WriterStep

\* The frames are what the observer built, or have been dropped.
LEMMA FrameStep ==
  ASSUME LoopInv, Next
  PROVE  FrameTypes'
  <1> USE DEF LoopInv, LoopTypeOK, FrameTypes
  <1>1. before' \in {before, NoFrame} \union Frame
    BY DEF Next, MainStep, WriterStep, loopVars, cycleVars,
           CycleEnds, CycleReturns, CycleRaises, LeaveRunOnce, Goes, Stops,
           BeginCycle, Observe, PhaseFails, TickRaises, NoAction, NeedsHuman, Approve,
           CheckAgain, Execute, ExecuteFails, Result, WriteFailed, Reobserve,
           ReobserveFails, NotFresh, VerifyFails, VerifyRaises, VerifyPasses, Accept,
           LoopError, LoopEscapes, InterruptDrained, TapBegins, TapEnds, Timeout, Interrupt, Crash,
           Restart, Latch, DeadlinePasses, Finishes, PlayerClears, ScreenChanges,
           Terminated
  <1>2. after' \in {after, NoFrame} \union Frame
    BY DEF Next, MainStep, WriterStep, loopVars, cycleVars,
           CycleEnds, CycleReturns, CycleRaises, LeaveRunOnce, Goes, Stops,
           BeginCycle, Observe, PhaseFails, TickRaises, NoAction, NeedsHuman, Approve,
           CheckAgain, Execute, ExecuteFails, Result, WriteFailed, Reobserve,
           ReobserveFails, NotFresh, VerifyFails, VerifyRaises, VerifyPasses, Accept,
           LoopError, LoopEscapes, InterruptDrained, TapBegins, TapEnds, Timeout, Interrupt, Crash,
           Restart, Latch, DeadlinePasses, Finishes, PlayerClears, ScreenChanges,
           Terminated
  <1> QED
    BY <1>1, <1>2

\* The flags stay flags.
LEMMA FlagStep ==
  ASSUME LoopInv, Next
  PROVE  FlagTypes'
  <1> USE DEF LoopInv, LoopTypeOK, FlagTypes
  <1>1. latched' \in {latched, TRUE, FALSE} /\ expired' \in {expired, TRUE, FALSE}
    BY DEF Next, MainStep, WriterStep, loopVars, stopVars,
           BeginCycle, Observe, PhaseFails, TickRaises, NoAction, NeedsHuman, Approve,
           CheckAgain, Execute, ExecuteFails, Result, WriteFailed, Reobserve,
           ReobserveFails, NotFresh, VerifyFails, VerifyRaises, VerifyPasses, Accept,
           LoopError, LoopEscapes, InterruptDrained, TapBegins, TapEnds, Timeout, Interrupt, Crash,
           Restart, Latch, DeadlinePasses, Finishes, PlayerClears, ScreenChanges,
           Terminated
  <1>2. ours' \in {ours, TRUE, FALSE}
    BY DEF Next, MainStep, WriterStep, loopVars, historyVars, Hit, Missed,
           BeginCycle, Observe, PhaseFails, TickRaises, NoAction, NeedsHuman, Approve,
           CheckAgain, Execute, ExecuteFails, Result, WriteFailed, Reobserve,
           ReobserveFails, NotFresh, VerifyFails, VerifyRaises, VerifyPasses, Accept,
           LoopError, LoopEscapes, InterruptDrained, TapBegins, TapEnds, Timeout, Interrupt, Crash,
           Restart, Latch, DeadlinePasses, Finishes, PlayerClears, ScreenChanges,
           Terminated
  <1>3. owed' \in {owed, TRUE, FALSE}
    BY DEF Next, MainStep, WriterStep, loopVars, RecordAction,
           BeginCycle, Observe, PhaseFails, TickRaises, NoAction, NeedsHuman, Approve,
           CheckAgain, Execute, ExecuteFails, Result, WriteFailed, Reobserve,
           ReobserveFails, NotFresh, VerifyFails, VerifyRaises, VerifyPasses, Accept,
           LoopError, LoopEscapes, InterruptDrained, TapBegins, TapEnds, Timeout, Interrupt, Crash,
           Restart, Latch, DeadlinePasses, Finishes, PlayerClears, ScreenChanges,
           Terminated
  <1> QED
    BY <1>1, <1>2, <1>3

\* The counters stay within their bounds: the quota because a production is
\* planned only below the cap, and released only when it was charged.
LEMMA CounterStep ==
  ASSUME LoopInv, Next
  PROVE  CounterTypes'
  <1> USE DEF LoopInv, LoopTypeOK, CounterTypes
  <1>1. reserved' \in 0 .. Cap
    <2>1. CASE UNCHANGED reserved
      BY <2>1
    <2>2. CASE pc = "execute" /\ Charge
      BY <2>2 DEF Charge, Plans
    <2>3. CASE VerifyFails
      BY <2>3 DEF VerifyFails
    <2> QED
      BY <2>1, <2>2, <2>3
         DEF Next, MainStep, WriterStep, loopVars,
             BeginCycle, Observe, PhaseFails, TickRaises, NoAction, NeedsHuman, Approve,
             CheckAgain, Execute, ExecuteFails, Result, WriteFailed, Reobserve,
             ReobserveFails, NotFresh, VerifyFails, VerifyRaises, VerifyPasses, Accept,
             LoopError, LoopEscapes, InterruptDrained, TapBegins, TapEnds, Timeout, Interrupt, Crash,
             Restart, Latch, DeadlinePasses, Finishes, PlayerClears, ScreenChanges,
             Terminated
  <1>2. started' \in 0 .. Cap + 1
    BY DEF Next, MainStep, WriterStep, loopVars, historyVars, Hit, Missed, Upto,
           BeginCycle, Observe, PhaseFails, TickRaises, NoAction, NeedsHuman, Approve,
           CheckAgain, Execute, ExecuteFails, Result, WriteFailed, Reobserve,
           ReobserveFails, NotFresh, VerifyFails, VerifyRaises, VerifyPasses, Accept,
           LoopError, LoopEscapes, InterruptDrained, TapBegins, TapEnds, Timeout, Interrupt, Crash,
           Restart, Latch, DeadlinePasses, Finishes, PlayerClears, ScreenChanges,
           Terminated
  <1>3. loopErrors' \in 0 .. MaxLoopErrors
    <2>1. CASE loopErrors' \in {0, loopErrors}
      BY <2>1
    <2>2. CASE LoopError
      BY <2>2 DEF LoopError, Phases
    <2> QED
      BY <2>1, <2>2
         DEF Next, MainStep, WriterStep, loopVars,
             CycleEnds, CycleReturns, CycleRaises, LeaveRunOnce, Goes, Stops,
             BeginCycle, Observe, PhaseFails, TickRaises, NoAction, NeedsHuman, Approve,
             CheckAgain, Execute, ExecuteFails, Result, WriteFailed, Reobserve,
             ReobserveFails, NotFresh, VerifyFails, VerifyRaises, VerifyPasses, Accept,
             LoopError, LoopEscapes, InterruptDrained, TapBegins, TapEnds, Timeout, Interrupt, Crash,
             Restart, Latch, DeadlinePasses, Finishes, PlayerClears, ScreenChanges,
             Terminated
  <1>4. tapsAfterLatch' \in 0 .. 2
    BY DEF Next, MainStep, WriterStep, loopVars, Upto,
           BeginCycle, Observe, PhaseFails, TickRaises, NoAction, NeedsHuman, Approve,
           CheckAgain, Execute, ExecuteFails, Result, WriteFailed, Reobserve,
           ReobserveFails, NotFresh, VerifyFails, VerifyRaises, VerifyPasses, Accept,
           LoopError, LoopEscapes, InterruptDrained, TapBegins, TapEnds, Timeout, Interrupt, Crash,
           Restart, Latch, DeadlinePasses, Finishes, PlayerClears, ScreenChanges,
           Terminated
  <1> QED
    BY <1>1, <1>2, <1>3, <1>4

\* A mark keeps the evidence well formed.
LEMMA MarkTypes ==
  ASSUME TrackTypes, NEW f, MarkSpecialState(f)
  PROVE  tracker' \in Tracker
  <1>1. PICK b \in BOOLEAN, r \in BOOLEAN :
          tracker' = [tracker EXCEPT !.blocked = b, !.recovered = r]
    BY DEF MarkSpecialState, TrackTypes, Tracker
  <1> QED
    BY <1>1 DEF TrackTypes, Tracker

\* So do _record_acceptance_success and a crash.
LEMMA TrackStep ==
  ASSUME LoopInv, Next
  PROVE  TrackTypes'
  <1> USE DEF LoopInv, LoopTypeOK, trackVars
  <1>1. CASE UNCHANGED trackVars
    BY <1>1 DEF TrackTypes
  <1>2. CASE \E f : RecordSpecialState(f) \/ SpecialStateRaises(f)
    <2>1. PICK f : RecordSpecialState(f) \/ SpecialStateRaises(f)
      BY <1>2
    <2>2. tracker' \in Tracker
      BY <2>1, MarkTypes DEF RecordSpecialState, SpecialStateRaises
    <2>3. recoveryPending' \in BOOLEAN
      BY <2>1 DEF RecordSpecialState, SpecialStateRaises, TrackTypes
    <2> QED
      BY <2>2, <2>3 DEF TrackTypes
  <1>3. CASE Accept
    <2>1. before.factory \in FactoryReading /\ after.factory \in FactoryReading
      BY <1>3 DEF Accept, Phases, FrameTypes, Frame
    <2>2. <<before.factory, after.factory>> \in Transition
      BY <2>1 DEF Transition
    <2>3. tracker.transitions \union {<<before.factory, after.factory>>}
            \in SUBSET Transition
      BY <2>2 DEF TrackTypes, Tracker
    <2>4. CountSuccess(tracker) \in Tracker
      <3>1. \A n \in 0 .. Enough : Upto(n + 1, Enough) \in 0 .. Enough
        BY DEF Upto
      <3> QED
        BY <3>1 DEF CountSuccess, TrackTypes, Tracker
    <2>5. CountSuccess(tracker).transitions = tracker.transitions
      BY DEF CountSuccess, TrackTypes, Tracker
    <2>6. RecordTransition(CountSuccess(tracker)) \in Tracker
      BY <2>3, <2>4, <2>5 DEF RecordTransition, Tracker
    <2>7. tracker' \in Tracker /\ UNCHANGED recoveryPending
      BY <1>3, <2>4, <2>6 DEF Accept
    <2> QED
      BY <2>7 DEF TrackTypes
  <1>4. CASE Crash
    <2>1. PICK p \in 0 .. tracker.produce, c \in 0 .. tracker.collect,
               t \in SUBSET tracker.transitions, b \in BOOLEAN, r \in BOOLEAN :
            tracker' = [produce |-> p, collect |-> c, transitions |-> t,
                        blocked |-> b, recovered |-> r]
      BY <1>4 DEF Crash
    <2>2. p \in 0 .. Enough /\ c \in 0 .. Enough /\ t \in SUBSET Transition
      BY <2>1 DEF TrackTypes, Tracker
    <2>3. recoveryPending' \in BOOLEAN
      BY <1>4 DEF Crash
    <2> QED
      BY <2>1, <2>2, <2>3 DEF TrackTypes, Tracker
  <1> QED
    BY <1>1, <1>2, <1>3, <1>4
       DEF Next, MainStep, WriterStep, loopVars, FrameTypes,
           BeginCycle, Observe, PhaseFails, TickRaises, NoAction, NeedsHuman, Approve,
           CheckAgain, Execute, ExecuteFails, Result, WriteFailed, Reobserve,
           ReobserveFails, NotFresh, VerifyFails, VerifyRaises, VerifyPasses, Accept,
           LoopError, LoopEscapes, InterruptDrained, TapBegins, TapEnds, Timeout, Interrupt, Crash,
           Restart, Latch, DeadlinePasses, Finishes, PlayerClears, ScreenChanges,
           Terminated

-----------------------------------------------------------------------------
(* Where the loop is and what it holds there.                              *)

\* The cycle's frames, its tap and what the tap did are there when they are
\* needed and gone when the next cycle begins.
LEMMA PhaseStep ==
  ASSUME LoopInv, Next
  PROVE  Phases'
  <1> USE DEF LoopInv, LoopTypeOK, FrameTypes, CounterTypes, CycleTypes, Phases,
              BeforeTheWrite, gameVars, historyVars, cycleVars, trackVars, stopVars
  <1>1. CASE BeginCycle
    BY <1>1 DEF BeginCycle, Goes, Stops, CycleRaises, LeaveRunOnce
  <1>2. CASE Observe
    <2>1. \A f \in Frame : f # NoFrame
      BY DEF Frame, NoFrame
    <2> QED
      BY <1>2, <2>1 DEF Observe
  <1>3. CASE PhaseFails
    BY <1>3 DEF PhaseFails, CycleEnds, CycleReturns, CycleRaises, LeaveRunOnce
  <1>4. CASE NoAction
    BY <1>4 DEF NoAction, CycleEnds, CycleReturns, CycleRaises, LeaveRunOnce
  <1>5. CASE NeedsHuman
    BY <1>5 DEF NeedsHuman
  <1>6. CASE Approve
    BY <1>6 DEF Approve
  <1>7. CASE CheckAgain
    BY <1>7 DEF CheckAgain, Goes, Stops, CycleRaises, LeaveRunOnce
  <1>8. CASE Execute
    BY <1>8 DEF Execute
  <1>9. CASE ExecuteFails
    BY <1>9 DEF ExecuteFails, CycleEnds, CycleReturns, CycleRaises, LeaveRunOnce
  <1>10. CASE Result
    BY <1>10 DEF Result
  <1>11. CASE WriteFailed
    BY <1>11 DEF WriteFailed, CycleEnds, CycleReturns, CycleRaises, LeaveRunOnce
  <1>12. CASE Reobserve
    <2>1. \A f \in Frame : f # NoFrame
      BY DEF Frame, NoFrame
    <2> QED
      BY <1>12, <2>1 DEF Reobserve
  <1>13. CASE ReobserveFails
    BY <1>13 DEF ReobserveFails, CycleEnds, CycleReturns, CycleRaises, LeaveRunOnce
  <1>14. CASE NotFresh
    BY <1>14 DEF NotFresh, CycleEnds, CycleReturns, CycleRaises, LeaveRunOnce
  <1>15. CASE VerifyFails
    BY <1>15 DEF VerifyFails, CycleEnds, CycleReturns, CycleRaises, LeaveRunOnce
  <1>16. CASE VerifyRaises
    BY <1>16 DEF VerifyRaises, CycleRaises, LeaveRunOnce
  <1>17. CASE VerifyPasses
    BY <1>17 DEF VerifyPasses
  <1>18. CASE Accept
    BY <1>18 DEF Accept, CycleEnds, CycleReturns, CycleRaises, LeaveRunOnce
  <1>19. CASE LoopError
    BY <1>19 DEF LoopError
  <1>20. CASE InterruptDrained
    BY <1>20 DEF InterruptDrained
  <1>21. CASE TapBegins
    BY <1>21 DEF TapBegins
  <1>22. CASE TapEnds
    BY <1>22 DEF TapEnds, Hit, Missed
  <1>23. CASE Timeout
    BY <1>23 DEF Timeout
  <1>24. CASE Interrupt
    BY <1>24 DEF Interrupt, Running
  <1>25. CASE Crash
    BY <1>25 DEF Crash, Hit, Missed, Running
  <1>26. CASE Restart
    BY <1>26 DEF Restart
  <1>27. CASE Latch
    BY <1>27 DEF Latch
  <1>28. CASE DeadlinePasses
    BY <1>28 DEF DeadlinePasses
  <1>29. CASE Finishes
    BY <1>29 DEF Finishes
  <1>30. CASE PlayerClears
    BY <1>30 DEF PlayerClears
  <1>31. CASE ScreenChanges
    BY <1>31 DEF ScreenChanges
  <1>32. CASE Terminated
    BY <1>32 DEF Terminated, loopVars
  <1>33. CASE TickRaises
    BY <1>33 DEF TickRaises, CycleRaises, LeaveRunOnce
  <1>34. CASE LoopEscapes
    BY <1>34 DEF LoopEscapes
  <1> QED
    BY <1>1, <1>2, <1>3, <1>4, <1>5, <1>6, <1>7, <1>8, <1>9, <1>10, <1>11,
       <1>12, <1>13, <1>14, <1>15, <1>16, <1>17, <1>18, <1>19, <1>20, <1>21,
       <1>22, <1>23, <1>24, <1>25, <1>26, <1>27, <1>28, <1>29, <1>30, <1>31,
       <1>32, <1>33, <1>34
       DEF Next, MainStep, WriterStep

\* An action is planned on what its frame shows, a production below the cap.
LEMMA PlansStep ==
  ASSUME LoopInv, Next
  PROVE  Plans'
  <1> USE DEF LoopInv, LoopTypeOK, CounterTypes, CycleTypes, Phases, Plans
  <1>1. CASE Approve
    BY <1>1 DEF Approve, Planned, InFactory, CanStartProduction
  <1>2. CASE action' = "none"
    BY <1>2
  <1>3. CASE Observe
    BY <1>3 DEF Observe
  <1>4. CASE /\ UNCHANGED <<action, before, reserved>>
             /\ pc' \in {"approved", "execute"} => pc \in {"approved", "execute"}
    BY <1>4
  <1>5. CASE /\ UNCHANGED <<action, before>>
             /\ pc' \notin {"approved", "execute"}
    BY <1>5
  <1> QED
    BY <1>1, <1>2, <1>3, <1>4, <1>5
       DEF Next, MainStep, WriterStep, loopVars, gameVars, historyVars, cycleVars, Missed,
           CycleEnds, CycleReturns, CycleRaises, LeaveRunOnce, Goes, Stops,
           BeginCycle, Observe, PhaseFails, TickRaises, NoAction, NeedsHuman, Approve,
           CheckAgain, Execute, ExecuteFails, Result, WriteFailed, Reobserve,
           ReobserveFails, NotFresh, VerifyFails, VerifyRaises, VerifyPasses, Accept,
           LoopError, LoopEscapes, InterruptDrained, TapBegins, TapEnds, Timeout, Interrupt, Crash,
           Restart, Latch, DeadlinePasses, Finishes, PlayerClears, ScreenChanges,
           Terminated

\* The invariant of the loop, on any readings.
LEMMA LoopStep ==
  ASSUME LoopInv, [Next]_loopVars
  PROVE  LoopInv'
  <1>1. CASE Next
    <2>1. LoopTypeOK'
      BY <1>1, GameStep, CycleStep, FrameStep, CounterStep, FlagStep, TrackStep
         DEF LoopTypeOK
    <2> QED
      BY <1>1, <2>1, PhaseStep, PlansStep DEF LoopInv
  <1>2. CASE UNCHANGED loopVars
    BY <1>2
       DEF loopVars, gameVars, historyVars, cycleVars, trackVars, stopVars, LoopInv,
           LoopTypeOK, GameTypes, CycleTypes, FrameTypes, CounterTypes, FlagTypes,
           TrackTypes, Phases, Plans
  <1> QED
    BY <1>1, <1>2

\* Where the loop is, what it holds there, what it planned and every type: whatever
\* the readings, the taps, the store and the process do.
THEOREM LoopInvariant == Spec => []LoopInv
  BY InitInv, LoopStep, PTL DEF Spec

\* Every variable of the loop keeps its type.
THEOREM LoopTypes == Spec => []LoopTypeOK
  <1>1. LoopInv => LoopTypeOK
    BY DEF LoopInv
  <1> QED
    BY <1>1, LoopInvariant, PTL

-----------------------------------------------------------------------------
(* The quota.                                                              *)

\* The tap a cycle has under way or has made is not yet a production the quota
\* does not know of.
LEMMA TapIsCharged ==
  ASSUME QuotaInv, tap = "running", Hit
  PROVE  started' <= reserved
  <1> USE DEF QuotaInv, LoopInv, LoopTypeOK, CounterTypes, SessionCapHolds, Phases, Production
  <1>1. CASE UNCHANGED started
    BY <1>1
  <1>2. CASE action = "produce" /\ started' = Upto(started + 1, Cap + 1)
    <2>1. started < reserved
      BY <1>2
    <2> QED
      BY <1>2, <2>1 DEF Upto
  <1> QED
    BY <1>1, <1>2 DEF Hit, historyVars

\* With exact readings a production that started is seen, so what is released
\* was never used.
LEMMA ReleasesTheUnused ==
  ASSUME QuotaInv, VerifyFails, Releases
  PROVE  started < reserved
  <1> USE DEF QuotaInv, LoopInv, LoopTypeOK, CounterTypes, Phases, Production
  <1>1. pc = "verify" /\ action = "produce" /\ tap = "done"
    BY DEF VerifyFails, Releases
  <1>2. before.factory = "IDLE"
    BY <1>1 DEF Plans
  <1>3. effect # "started"
    <2> SUFFICES ASSUME effect = "started" PROVE FALSE
      OBVIOUS
    <2>1. after.factory = "PRODUCING"
      BY <1>1
    <2>2. Verdict = "PASS"
      BY <1>1, <1>2, <2>1 DEF Verdict
    <2> QED
      BY <2>2 DEF Releases
  <1> QED
    BY <1>1, <1>3

\* Every production the game starts stays counted.
LEMMA CapStep ==
  ASSUME QuotaInv, Next
  PROVE  SessionCapHolds'
  <1> USE DEF QuotaInv, LoopInv, LoopTypeOK, CounterTypes, SessionCapHolds
  <1>1. reserved' <= Cap
    BY CounterStep
  <1>2. started' <= reserved'
    <2>1. CASE UNCHANGED <<started, reserved>>
      BY <2>1
    <2>2. CASE UNCHANGED started /\ Charge
      BY <2>2 DEF Charge
    <2>3. CASE tap = "running" /\ Hit /\ UNCHANGED reserved
      BY <2>3, TapIsCharged
    <2>4. CASE VerifyFails
      <3>1. CASE Releases
        BY <2>4, <3>1, ReleasesTheUnused DEF VerifyFails
      <3>2. CASE ~ Releases
        BY <2>4, <3>2 DEF VerifyFails
      <3> QED
        BY <3>1, <3>2
    <2> QED
      BY <2>1, <2>2, <2>3, <2>4
         DEF Next, MainStep, WriterStep, loopVars, gameVars, historyVars, Missed,
             BeginCycle, Observe, PhaseFails, TickRaises, NoAction, NeedsHuman, Approve,
             CheckAgain, Execute, ExecuteFails, Result, WriteFailed, Reobserve,
             ReobserveFails, NotFresh, VerifyFails, VerifyRaises, VerifyPasses, Accept,
             LoopError, LoopEscapes, InterruptDrained, TapBegins, TapEnds, Timeout, Interrupt, Crash,
             Restart, Latch, DeadlinePasses, Finishes, PlayerClears, ScreenChanges,
             Terminated
  <1> QED
    BY <1>1, <1>2

\* Until the game has started it, a charged production keeps its reservation.
LEMMA ReservedStep ==
  ASSUME QuotaInv, Next
  PROVE  (action = "produce" /\ tap # "none" /\ effect # "started"
            => started < reserved)'
  <1> USE DEF QuotaInv, LoopInv, LoopTypeOK, CounterTypes, CycleTypes, SessionCapHolds, Phases,
              Production, BeforeTheWrite
  <1>1. CASE tap' = "none"
    BY <1>1
  <1>2. CASE Execute
    BY <1>2 DEF Execute, Charge, historyVars, cycleVars
  <1>3. CASE tap = "running" /\ Hit /\ UNCHANGED <<action, reserved>>
    BY <1>3 DEF Hit, historyVars
  <1>4. CASE tap # "none" /\ UNCHANGED <<action, effect, started, reserved>>
    BY <1>4
  <1> QED
    BY <1>1, <1>2, <1>3, <1>4
       DEF Next, MainStep, WriterStep, loopVars, gameVars, historyVars, cycleVars, Missed,
           CycleEnds, CycleReturns, CycleRaises, LeaveRunOnce, Goes, Stops,
           BeginCycle, Observe, PhaseFails, TickRaises, NoAction, NeedsHuman, Approve,
           CheckAgain, Execute, ExecuteFails, Result, WriteFailed, Reobserve,
           ReobserveFails, NotFresh, VerifyFails, VerifyRaises, VerifyPasses, Accept,
           LoopError, LoopEscapes, InterruptDrained, TapBegins, TapEnds, Timeout, Interrupt, Crash,
           Restart, Latch, DeadlinePasses, Finishes, PlayerClears, ScreenChanges,
           Terminated

\* Nothing but the tap of this cycle changes the factory between a production and
\* its verification.
LEMMA StartedStep ==
  ASSUME QuotaInv, Next, ExactReadings
  PROVE  (effect = "started" =>
            action = "produce" /\ screen = "FACTORY" /\ factory = "PRODUCING")'
  <1> USE DEF QuotaInv, LoopInv, LoopTypeOK, CycleTypes, Phases, Production, ExactReadings
  <1>1. CASE effect' = "none"
    BY <1>1
  <1>2. CASE Hit /\ UNCHANGED action
    BY <1>2 DEF Hit, historyVars
  <1>3. CASE UNCHANGED <<effect, action, screen, factory>>
    BY <1>3
  <1>4. CASE Approve
    BY <1>4 DEF Approve, BeforeTheWrite, historyVars
  <1>5. CASE Finishes
    BY <1>5 DEF Finishes, historyVars
  <1>6. CASE ScreenChanges
    BY <1>6 DEF ScreenChanges
  <1> QED
    BY <1>1, <1>2, <1>3, <1>4, <1>5, <1>6
       DEF Next, MainStep, WriterStep, loopVars, gameVars, historyVars, cycleVars, Missed,
           CycleEnds, CycleReturns, CycleRaises, LeaveRunOnce, Goes, Stops,
           BeginCycle, Observe, PhaseFails, TickRaises, NoAction, NeedsHuman, Approve,
           CheckAgain, Execute, ExecuteFails, Result, WriteFailed, Reobserve,
           ReobserveFails, NotFresh, VerifyFails, VerifyRaises, VerifyPasses, Accept,
           LoopError, LoopEscapes, InterruptDrained, TapBegins, TapEnds, Timeout, Interrupt, Crash,
           Restart, Latch, DeadlinePasses, Finishes, PlayerClears, ScreenChanges,
           Terminated

\* The fresh frame of a cycle that started a production shows it.
LEMMA SeenStep ==
  ASSUME QuotaInv, Next, ExactReadings
  PROVE  (effect = "started" /\ pc = "verify" => after.factory = "PRODUCING")'
  <1> USE DEF QuotaInv, LoopInv, LoopTypeOK, CycleTypes, Phases, Production, ExactReadings
  <1>1. CASE Reobserve
    <2> SUFFICES ASSUME effect' = "started" PROVE after'.factory = "PRODUCING"
      OBVIOUS
    <2>1. effect = "started" /\ screen = "FACTORY" /\ factory = "PRODUCING"
      BY <1>1 DEF Reobserve, historyVars
    <2>2. PICK f \in Frame : Observed(f) /\ after' = f
      BY <1>1 DEF Reobserve
    <2>3. "ambiguous" \notin Environment /\ "lag" \notin Environment
      OBVIOUS
    <2>4. FactoryShown = "PRODUCING"
      BY <2>1 DEF FactoryShown
    <2>5. f.factory = "PRODUCING"
      BY <2>1, <2>2, <2>3, <2>4 DEF Observed, ScreenReadings, FactoryReadings
    <2> QED
      BY <2>2, <2>5
  <1>2. CASE pc' # "verify"
    BY <1>2
  <1>3. CASE pc = "verify" /\ UNCHANGED <<effect, after>>
    BY <1>3
  <1>4. CASE tap = "running" /\ UNCHANGED pc
    BY <1>4
  <1> QED
    BY <1>1, <1>2, <1>3, <1>4
       DEF Next, MainStep, WriterStep, loopVars, gameVars, historyVars, cycleVars, Missed,
           CycleEnds, CycleReturns, CycleRaises, LeaveRunOnce, Goes, Stops,
           BeginCycle, Observe, PhaseFails, TickRaises, NoAction, NeedsHuman, Approve,
           CheckAgain, Execute, ExecuteFails, Result, WriteFailed, Reobserve,
           ReobserveFails, NotFresh, VerifyFails, VerifyRaises, VerifyPasses, Accept,
           LoopError, LoopEscapes, InterruptDrained, TapBegins, TapEnds, Timeout, Interrupt, Crash,
           Restart, Latch, DeadlinePasses, Finishes, PlayerClears, ScreenChanges,
           Terminated

-----------------------------------------------------------------------------
(* The session cap.                                                        *)

\* With exact readings the quota's invariant holds of every run.
THEOREM QuotaInvariant ==
  ASSUME ExactReadings
  PROVE  Spec => []QuotaInv
  <1>1. Init => QuotaInv
    BY InitInv DEF Init, QuotaInv, SessionCapHolds, Production
  <1>2. QuotaInv /\ [Next]_loopVars => QuotaInv'
    <2> SUFFICES ASSUME QuotaInv, [Next]_loopVars PROVE QuotaInv'
      OBVIOUS
    <2>1. LoopInv'
      BY LoopStep DEF QuotaInv
    <2>2. CASE Next
      <3>1. Production'
        BY <2>2, ReservedStep, StartedStep, SeenStep DEF Production
      <3> QED
        BY <2>1, <2>2, <3>1, CapStep DEF QuotaInv
    <2>3. CASE UNCHANGED loopVars
      BY <2>1, <2>3
         DEF loopVars, gameVars, historyVars, cycleVars, QuotaInv, SessionCapHolds,
             Production
    <2> QED
      BY <2>2, <2>3
  <1> QED
    BY <1>1, <1>2, PTL DEF Spec

\* The session cap holds: no timeout, missed tap, failed call, interrupt or crash
\* lets the game start more than the quota counts (v0.py:179-197).
THEOREM SessionCap ==
  ASSUME ExactReadings
  PROVE  Spec => []SessionCapHolds
  <1>1. QuotaInv => SessionCapHolds
    BY DEF QuotaInv
  <1> QED
    BY <1>1, QuotaInvariant, PTL

-----------------------------------------------------------------------------
(* The stop and the samples, for every environment.                        *)

\* After the latch at most one more write begins, for every environment: the
\* check before the write lets nothing else through (orchestrator.py:283-285).
THEOREM StopsAfterOneWrite == Spec => []OneWriteAfterLatch
  <1>1. Init => LatchInv
    BY DEF Init, LatchInv, BeforeTheWrite
  <1>2. LatchInv /\ [Next]_loopVars => LatchInv'
    <2> SUFFICES ASSUME LatchInv, [Next]_loopVars PROVE LatchInv'
      OBVIOUS
    <2> USE DEF LatchInv, BeforeTheWrite
    <2>1. (pc \in BeforeTheWrite \union {"erring", "down"} => tap = "none")'
      <3>1. CASE tap' = "none"
        BY <3>1
      <3>2. CASE pc' \notin BeforeTheWrite \union {"erring", "down"}
        BY <3>2
      <3>3. CASE UNCHANGED tap /\ pc \in BeforeTheWrite \union {"erring", "down"}
        BY <3>3
      <3>4. CASE UNCHANGED pc /\ tap # "none"
        BY <3>4
      <3> QED
        BY <3>1, <3>2, <3>3, <3>4
         DEF Next, MainStep, WriterStep, loopVars,
             CycleEnds, CycleReturns, CycleRaises, LeaveRunOnce, Goes, Stops, stopVars, cycleVars,
             StopRequested,
             BeginCycle, Observe, PhaseFails, TickRaises, NoAction, NeedsHuman, Approve,
             CheckAgain, Execute, ExecuteFails, Result, WriteFailed, Reobserve,
             ReobserveFails, NotFresh, VerifyFails, VerifyRaises, VerifyPasses, Accept,
             LoopError, LoopEscapes, InterruptDrained, TapBegins, TapEnds, Timeout, Interrupt, Crash,
             Restart, Latch, DeadlinePasses, Finishes, PlayerClears, ScreenChanges,
             Terminated
    <2>2. CASE TapBegins
      <3>1. tapsAfterLatch = 0 /\ pc # "execute"
        BY <2>2 DEF TapBegins
      <3>2. CASE latched
        BY <2>1, <2>2, <3>1, <3>2 DEF TapBegins, Upto, stopVars
      <3>3. CASE ~ latched
        <4>1. (IF latched THEN tapsAfterLatch + 1 ELSE tapsAfterLatch) = tapsAfterLatch
          BY <3>3, Zenon
        <4>2. tapsAfterLatch' = Upto(tapsAfterLatch, 2)
          BY <2>2, <4>1, Zenon DEF TapBegins
        <4>3. tapsAfterLatch' = 0
          BY <3>1, <4>2 DEF Upto
        <4> QED
          BY <2>1, <4>3
      <3> QED
        BY <3>2, <3>3
    <2>3. CASE UNCHANGED tapsAfterLatch /\ tapsAfterLatch = 0
      BY <2>1, <2>3
    <2>4. CASE UNCHANGED tapsAfterLatch /\ tapsAfterLatch = 1
      <3>1. latched' \in {latched, TRUE}
        <4>1. latched' \in {latched, TRUE} \/ Restart
          <5> HIDE DEF LatchInv
          <5> QED
            BY DEF Next, MainStep, WriterStep, loopVars, stopVars,
                   BeginCycle, Observe, PhaseFails, TickRaises, NoAction, NeedsHuman, Approve,
                   CheckAgain, Execute, ExecuteFails, Result, WriteFailed, Reobserve,
                   ReobserveFails, NotFresh, VerifyFails, VerifyRaises, VerifyPasses,
                   Accept, LoopError, LoopEscapes, InterruptDrained, TapBegins, TapEnds, Timeout,
                   Interrupt, Crash, Latch, DeadlinePasses, Finishes, PlayerClears,
                   ScreenChanges, Terminated
        <4>2. ~ Restart
          BY <2>4 DEF Restart
        <4> QED
          BY <4>1, <4>2
      <3>2. pc' # "execute"
        BY <2>4
           DEF Next, MainStep, WriterStep, loopVars,
               CycleEnds, CycleReturns, CycleRaises, LeaveRunOnce, Goes, Stops, stopVars, cycleVars,
               StopRequested,
               BeginCycle, Observe, PhaseFails, TickRaises, NoAction, NeedsHuman, Approve,
               CheckAgain, Execute, ExecuteFails, Result, WriteFailed, Reobserve,
               ReobserveFails, NotFresh, VerifyFails, VerifyRaises, VerifyPasses, Accept,
               LoopError, LoopEscapes, InterruptDrained, TapBegins, TapEnds, Timeout, Interrupt, Crash,
               Restart, Latch, DeadlinePasses, Finishes, PlayerClears, ScreenChanges,
               Terminated
      <3>3. tap' # "queued"
        BY <2>4
           DEF Next, MainStep, WriterStep, loopVars,
               CycleEnds, CycleReturns, CycleRaises, LeaveRunOnce, Goes, Stops, stopVars, cycleVars,
               StopRequested,
               BeginCycle, Observe, PhaseFails, TickRaises, NoAction, NeedsHuman, Approve,
               CheckAgain, Execute, ExecuteFails, Result, WriteFailed, Reobserve,
               ReobserveFails, NotFresh, VerifyFails, VerifyRaises, VerifyPasses, Accept,
               LoopError, LoopEscapes, InterruptDrained, TapBegins, TapEnds, Timeout, Interrupt, Crash,
               Restart, Latch, DeadlinePasses, Finishes, PlayerClears, ScreenChanges,
               Terminated
      <3>4. latched'
        <4>1. CASE latched' = TRUE
          BY <4>1
        <4>2. CASE latched' = latched
          BY <2>4, <4>2
        <4> QED
          BY <3>1, <4>1, <4>2
      <3> QED
        BY <2>1, <2>4, <3>2, <3>3, <3>4
    <2>5. CASE Restart
      BY <2>1, <2>5 DEF Restart
    <2> QED
      BY <2>2, <2>3, <2>4, <2>5
         DEF Next, MainStep, WriterStep, loopVars,
             CycleEnds, CycleReturns, CycleRaises, LeaveRunOnce, Goes, Stops, stopVars, cycleVars,
             StopRequested,
             BeginCycle, Observe, PhaseFails, TickRaises, NoAction, NeedsHuman, Approve,
             CheckAgain, Execute, ExecuteFails, Result, WriteFailed, Reobserve,
             ReobserveFails, NotFresh, VerifyFails, VerifyRaises, VerifyPasses, Accept,
             LoopError, LoopEscapes, InterruptDrained, TapBegins, TapEnds, Timeout, Interrupt, Crash,
             Restart, Latch, DeadlinePasses, Finishes, PlayerClears, ScreenChanges,
             Terminated
  <1>3. LatchInv => OneWriteAfterLatch
    BY DEF LatchInv, OneWriteAfterLatch
  <1> QED
    BY <1>1, <1>2, <1>3, PTL DEF Spec

\* A production under verification has its reservation, so that release_output
\* raises only with the store, which excuses the sample.
LEMMA OnlyTheStoreRaises ==
  ASSUME RecordInv, VerifyRaises
  PROVE  owed' = FALSE
  <1>1. StoreFails
    BY DEF RecordInv, VerifyRaises, SpecialStateRaises, Releases
  <1>2. owed' = (owed /\ ~ StoreFails)
    BY DEF VerifyRaises
  <1> QED
    BY <1>1, <1>2, Zenon

\* The reservations of the samples' invariant.
LEMMA ReservationStep ==
  ASSUME RecordInv, Next
  PROVE  /\ reserved' \in Nat
         /\ (action = "produce" /\ pc \in {"await", "reobserve", "verify"}
              => reserved > 0)'
  <1> USE DEF RecordInv
  <1>1. CASE Execute
    BY <1>1 DEF Execute, Charge, cycleVars
  <1>2. CASE ExecuteFails
    BY <1>2 DEF ExecuteFails, Charge, CycleEnds, CycleReturns, CycleRaises, LeaveRunOnce
  <1>3. CASE VerifyFails
    BY <1>3 DEF VerifyFails, CycleEnds, CycleReturns, CycleRaises, LeaveRunOnce
  <1>4. CASE UNCHANGED reserved /\ pc' \notin {"await", "reobserve", "verify"}
    BY <1>4
  <1>5. CASE UNCHANGED <<reserved, action>> /\ pc \in {"await", "reobserve", "verify"}
    BY <1>5
  <1>6. CASE UNCHANGED <<reserved, action, pc>>
    BY <1>6
  <1> QED
    BY <1>1, <1>2, <1>3, <1>4, <1>5, <1>6
       DEF Next, MainStep, WriterStep, loopVars, cycleVars,
           CycleEnds, CycleReturns, CycleRaises, LeaveRunOnce, Goes, Stops, RecordAction,
           BeforeTheWrite, BeginCycle, Observe, PhaseFails, NoAction, NeedsHuman, Approve,
           CheckAgain, Execute, ExecuteFails, Result, WriteFailed, Reobserve,
           ReobserveFails, NotFresh, VerifyFails, VerifyRaises, VerifyPasses, Accept, TickRaises,
           LoopError, LoopEscapes, InterruptDrained, TapBegins, TapEnds, Timeout, Interrupt, Crash,
           Restart, Latch, DeadlinePasses, Finishes, PlayerClears, ScreenChanges,
           Terminated

\* Every write has its sample before the next cycle starts, on every error path
\* of run_once, whatever the readings are, unless the store itself failed on the way
\* (orchestrator.py:300-305, 323-328, 348-353, 363-368, 381-386).
THEOREM EveryWriteIsRecorded == Spec => []WritesAreRecorded
  <1>1. Init => RecordInv
    BY DEF Init, RecordInv
  <1>2. RecordInv /\ [Next]_loopVars => RecordInv'
    <2> SUFFICES ASSUME RecordInv, [Next]_loopVars PROVE RecordInv'
      OBVIOUS
    <2> USE DEF RecordInv
    <2>1. CASE Next
      <3>1. (pc \in BeforeTheWrite \union {"accept", "erring"} => owed = FALSE)'
        <4>1. CASE owed' = FALSE
          BY <4>1
        <4>2. CASE pc' \notin BeforeTheWrite \union {"accept", "erring"}
          BY <4>2
        <4>3. CASE UNCHANGED owed /\ pc \in BeforeTheWrite \union {"accept", "erring"}
          BY <4>3
        <4>4. CASE UNCHANGED <<owed, pc>>
          BY <4>4
        <4> QED
          BY <2>1, <4>1, <4>2, <4>3, <4>4, OnlyTheStoreRaises
             DEF Next, MainStep, WriterStep, loopVars, cycleVars,
                 CycleEnds, CycleReturns, CycleRaises, LeaveRunOnce, Goes, Stops, RecordAction,
                 BeforeTheWrite, BeginCycle, Observe, PhaseFails, NoAction, NeedsHuman, Approve,
                 CheckAgain, Execute, ExecuteFails, Result, WriteFailed, Reobserve,
                 ReobserveFails, NotFresh, VerifyFails, VerifyRaises, VerifyPasses, Accept, TickRaises,
                 LoopError, LoopEscapes, InterruptDrained, TapBegins, TapEnds, Timeout, Interrupt, Crash,
                 Restart, Latch, DeadlinePasses, Finishes, PlayerClears, ScreenChanges,
                 Terminated
      <3> QED
        BY <2>1, <3>1, ReservationStep
    <2>2. CASE UNCHANGED loopVars
      BY <2>2 DEF loopVars, cycleVars
    <2> QED
      BY <2>1, <2>2
  <1>3. RecordInv => WritesAreRecorded
    BY DEF RecordInv, WritesAreRecorded, BeforeTheWrite
  <1> QED
    BY <1>1, <1>2, <1>3, PTL DEF Spec

-----------------------------------------------------------------------------
(* The evidence and what can be collected, for every environment.          *)

\* A storage that is read has a count.
LEMMA ReadCount ==
  ASSUME NEW r, NEW S, NEW T,
         r \in {NoStorage} \union [read : {TRUE}, used : S, trusted : T], r.read
  PROVE  r.used \in S
  <1>1. CASE r = NoStorage
    <2>1. NoStorage.read = FALSE
      BY DEF NoStorage
    <2> QED
      BY <1>1, <2>1, Zenon
  <1>2. CASE r \in [read : {TRUE}, used : S, trusted : T]
    BY <1>2
  <1> QED
    BY <1>1, <1>2

LEMMA FrameCount ==
  ASSUME NEW f \in Frame
  PROVE  f.storage.read => f.storage.used \in 0 .. Capacity
  <1>1. f.storage \in {NoStorage} \union
                       [read : {TRUE}, used : 0 .. Capacity, trusted : BOOLEAN]
    BY DEF Frame
  <1> QED
    BY <1>1, ReadCount, Zenon

\* What a frame tells of the game it was taken from, whatever it misreads.
LEMMA FrameTells ==
  ASSUME GameTypes, NEW f \in Frame, Observed(f)
  PROVE  /\ f.screen = "CITY" => f.factory = "UNKNOWN"
         /\ f.storage.read => f.storage.used = used
         /\ f.factory = "IDLE" => factory = "IDLE" \/ effect = "started"
         /\ f.factory = "PRODUCING" => factory = "PRODUCING"
  <1>1. f.factory \in FactoryReadings(f.screen) /\ f.storage \in StorageReadings(f.screen)
    BY DEF Observed
  <1>2. f.storage.read => f.storage.used = used
    <2> SUFFICES ASSUME f.storage.read PROVE f.storage.used = used
      OBVIOUS
    <2>1. f.storage \in {NoStorage} \union [read : {TRUE}, used : {used}, trusted : BOOLEAN]
      BY <1>1 DEF StorageReadings
    <2>2. f.storage.used \in {used}
      BY <2>1, ReadCount, Zenon
    <2> QED
      BY <2>2
  <1>3. FactoryShown = "IDLE" => factory = "IDLE"
    BY DEF FactoryShown
  <1>4. FactoryShown = "PRODUCING" => factory = "PRODUCING"
    BY DEF FactoryShown
  <1> QED
    BY <1>1, <1>2, <1>3, <1>4 DEF FactoryReadings

\* Only the cycle's own tap fills the warehouse or leaves the idle state behind.
LEMMA StillTrueStep ==
  ASSUME EarnedInv, Next
  PROVE  StillTrue'
  <1> USE DEF EarnedInv, LoopInv, LoopTypeOK
  <1>1. CASE before' = NoFrame
    BY <1>1 DEF StillTrue
  <1>2. CASE Observe
    <2>1. PICK f \in Frame : Observed(f) /\ before' = f
      BY <1>2 DEF Observe
    <2>2. effect = "none"
      BY <1>2 DEF Observe, Phases, BeforeTheWrite
    <2>3. UNCHANGED <<used, factory, effect>>
      BY <1>2 DEF Observe, gameVars, historyVars
    <2> QED
      BY <2>1, <2>2, <2>3, FrameTells DEF StillTrue, GameTypes
  <1>3. CASE UNCHANGED before /\ before # NoFrame
    <2>1. before.storage.read /\ effect' # "collected" => used' <= before.storage.used
      <3>1. CASE UNCHANGED <<used, effect>>
        BY <1>3, <3>1 DEF StillTrue
      <3>2. CASE tap = "running" /\ Hit
        <4>1. CASE effect' = "collected"
          BY <4>1
        <4>2. CASE effect' # "collected"
          <5>1. UNCHANGED used /\ effect # "collected"
            BY <3>2, <4>2 DEF Hit, gameVars, historyVars, Phases
          <5> QED
            BY <1>3, <5>1 DEF StillTrue
        <4> QED
          BY <4>1, <4>2
      <3>3. CASE PlayerClears
        <4>1. UNCHANGED effect /\ used' < used
          BY <3>3 DEF PlayerClears, GameTypes, historyVars
        <4>2. before.storage.read => before.storage.used \in 0 .. Capacity
          BY <1>3, FrameCount DEF FrameTypes
        <4> QED
          BY <1>3, <3>3, <4>1, <4>2 DEF StillTrue, GameTypes, PlayerClears
      <3> QED
        BY <1>3, <3>1, <3>2, <3>3
           DEF Next, MainStep, WriterStep, loopVars, gameVars, historyVars, cycleVars, Missed,
           CycleEnds, CycleReturns, CycleRaises, LeaveRunOnce, Goes, Stops,
           BeginCycle, Observe, PhaseFails, TickRaises, NoAction, NeedsHuman, Approve,
           CheckAgain, Execute, ExecuteFails, Result, WriteFailed, Reobserve,
           ReobserveFails, NotFresh, VerifyFails, VerifyRaises, VerifyPasses, Accept,
           LoopError, LoopEscapes, InterruptDrained, TapBegins, TapEnds, Timeout, Interrupt, Crash,
           Restart, Latch, DeadlinePasses, Finishes, PlayerClears, ScreenChanges,
           Terminated
    <2>2. before.factory = "IDLE" /\ effect' # "started" => factory' = "IDLE"
      <3>1. CASE UNCHANGED <<factory, effect>>
        BY <1>3, <3>1 DEF StillTrue
      <3>2. CASE tap = "running" /\ Hit
        BY <1>3, <3>2 DEF StillTrue, Hit, historyVars
      <3>3. CASE Finishes
        BY <1>3, <3>3 DEF StillTrue, Finishes, historyVars
      <3> QED
        BY <1>3, <3>1, <3>2, <3>3
           DEF Next, MainStep, WriterStep, loopVars, gameVars, historyVars, cycleVars, Missed,
           CycleEnds, CycleReturns, CycleRaises, LeaveRunOnce, Goes, Stops,
           BeginCycle, Observe, PhaseFails, TickRaises, NoAction, NeedsHuman, Approve,
           CheckAgain, Execute, ExecuteFails, Result, WriteFailed, Reobserve,
           ReobserveFails, NotFresh, VerifyFails, VerifyRaises, VerifyPasses, Accept,
           LoopError, LoopEscapes, InterruptDrained, TapBegins, TapEnds, Timeout, Interrupt, Crash,
           Restart, Latch, DeadlinePasses, Finishes, PlayerClears, ScreenChanges,
           Terminated
    <2>3. before.screen = "CITY" => before.factory = "UNKNOWN"
      BY <1>3 DEF StillTrue
    <2> QED
      BY <1>3, <2>1, <2>2, <2>3 DEF StillTrue
  <1>4. before' = NoFrame \/ Observe \/ UNCHANGED before
    BY DEF Next, MainStep, WriterStep, loopVars, gameVars, historyVars, cycleVars, Missed,
           CycleEnds, CycleReturns, CycleRaises, LeaveRunOnce, Goes, Stops,
           BeginCycle, Observe, PhaseFails, TickRaises, NoAction, NeedsHuman, Approve,
           CheckAgain, Execute, ExecuteFails, Result, WriteFailed, Reobserve,
           ReobserveFails, NotFresh, VerifyFails, VerifyRaises, VerifyPasses, Accept,
           LoopError, LoopEscapes, InterruptDrained, TapBegins, TapEnds, Timeout, Interrupt, Crash,
           Restart, Latch, DeadlinePasses, Finishes, PlayerClears, ScreenChanges,
           Terminated
  <1> QED
    BY <1>1, <1>2, <1>3, <1>4

\* The fresh frame tells what the tap did, and a cycle is accepted on its verdict.
LEMMA ProvesStep ==
  ASSUME EarnedInv, Next
  PROVE  Proves'
  <1> USE DEF EarnedInv, LoopInv, LoopTypeOK
  <1>1. CASE pc' \notin {"verify", "accept"}
    BY <1>1 DEF Proves
  <1>2. CASE Reobserve
    <2>1. PICK f \in Frame : Observed(f) /\ after' = f
      BY <1>2 DEF Reobserve
    <2>2. UNCHANGED <<used, factory, effect, before>> /\ pc' = "verify"
      BY <1>2 DEF Reobserve, gameVars, historyVars
    <2>3. before # NoFrame
      BY <1>2 DEF Reobserve, Phases
    <2>4. f.storage.read => f.storage.used = used
      BY <2>1, FrameTells
    <2>5. f.factory = "PRODUCING" => factory = "PRODUCING"
      BY <2>1, FrameTells
    <2>6. f.storage.read => used <= f.storage.used
      BY <2>4 DEF GameTypes
    <2>7. before.factory = "IDLE" /\ f.factory = "PRODUCING" => effect = "started"
      BY <2>3, <2>5 DEF StillTrue
    <2>8. before.storage.read /\ f.storage.read /\ effect # "collected"
            => f.storage.used <= before.storage.used
      BY <2>3, <2>4 DEF StillTrue
    <2> QED
      BY <2>1, <2>2, <2>6, <2>7, <2>8 DEF Proves
  <1>3. CASE VerifyPasses
    BY <1>3 DEF VerifyPasses, Proves, Verdict, gameVars, historyVars, cycleVars
  <1>5. pc \in {"verify", "accept"} => tap = "done"
    BY DEF Phases
  <1>4. CASE /\ pc \in {"verify", "accept"}
             /\ UNCHANGED <<pc, before, after, action, effect>>
    <2>1. Verdict' = Verdict
      BY <1>4 DEF Verdict
    <2>2. after.storage.read => after.storage.used \in Int
      BY <1>4, FrameCount DEF FrameTypes, Phases
    <2>3. used' <= used /\ used' \in Int /\ used \in Int
      <3>1. tap = "done"
        BY <1>4 DEF Phases
      <3>2. UNCHANGED used \/ PlayerClears
        BY <1>4, <3>1 DEF Next, MainStep, WriterStep, loopVars, gameVars, historyVars, cycleVars, Missed,
           CycleEnds, CycleReturns, CycleRaises, LeaveRunOnce, Goes, Stops,
           BeginCycle, Observe, PhaseFails, TickRaises, NoAction, NeedsHuman, Approve,
           CheckAgain, Execute, ExecuteFails, Result, WriteFailed, Reobserve,
           ReobserveFails, NotFresh, VerifyFails, VerifyRaises, VerifyPasses, Accept,
           LoopError, LoopEscapes, InterruptDrained, TapBegins, TapEnds, Timeout, Interrupt, Crash,
           Restart, Latch, DeadlinePasses, Finishes, PlayerClears, ScreenChanges,
           Terminated
      <3> QED
        BY <3>2 DEF GameTypes, PlayerClears
    <2> QED
      BY <1>4, <2>1, <2>2, <2>3 DEF Proves
  <1> QED
    BY <1>1, <1>2, <1>3, <1>4, <1>5
       DEF Next, MainStep, WriterStep, loopVars, gameVars, historyVars, cycleVars, Missed,
           CycleEnds, CycleReturns, CycleRaises, LeaveRunOnce, Goes, Stops,
           BeginCycle, Observe, PhaseFails, TickRaises, NoAction, NeedsHuman, Approve,
           CheckAgain, Execute, ExecuteFails, Result, WriteFailed, Reobserve,
           ReobserveFails, NotFresh, VerifyFails, VerifyRaises, VerifyPasses, Accept,
           LoopError, LoopEscapes, InterruptDrained, TapBegins, TapEnds, Timeout, Interrupt, Crash,
           Restart, Latch, DeadlinePasses, Finishes, PlayerClears, ScreenChanges,
           Terminated

\* What _record_special_state changes of the evidence.
LEMMA MarkFields ==
  ASSUME TrackTypes, NEW f, MarkSpecialState(f)
  PROVE  /\ tracker'.produce = tracker.produce
         /\ tracker'.collect = tracker.collect
         /\ tracker'.transitions = tracker.transitions
         /\ tracker.blocked \/ BlockedStorage(f) => tracker'.blocked
         /\ tracker'.recovered => tracker.recovered \/ Recovers(f)
  BY DEF MarkSpecialState, TrackTypes, Tracker

\* Recording the special state marks it, and leaves pending only what is marked.
LEMMA RecordMarks ==
  ASSUME NEW f, RecordSpecialState(f) \/ SpecialStateRaises(f)
  PROVE  /\ MarkSpecialState(f)
         /\ recoveryPending' => recoveryPending \/ BlockedStorage(f)
  <1>1. CASE RecordSpecialState(f)
    <2>1. MarkSpecialState(f)
      BY <1>1, Zenon DEF RecordSpecialState
    <2>2. recoveryPending' = (BlockedStorage(f) \/ (recoveryPending /\ ~ Recovers(f)))
      BY <1>1, Zenon DEF RecordSpecialState
    <2>3. CASE recoveryPending' = TRUE
      BY <2>1, <2>2, <2>3
    <2> QED
      BY <2>1, <2>2, <2>3
  <1>2. CASE SpecialStateRaises(f)
    BY <1>2, Zenon DEF SpecialStateRaises
  <1> QED
    BY <1>1, <1>2, Zenon

\* A recovery is credited only after the block, on a frame that shows free space.
LEMMA RecoveryTells ==
  ASSUME NEW f \in Frame, GameTypes, Recovers(f), f.storage.read => used <= f.storage.used
  PROVE  recoveryPending /\ used < Capacity
  <1>1. recoveryPending /\ TrustedFreeStorage(f)
    BY Zenon DEF Recovers
  <1>2. f.storage.read /\ f.storage.used < Capacity
    BY <1>1, Zenon DEF TrustedFreeStorage
  <1>3. f.storage.used \in 0 .. Capacity /\ used <= f.storage.used
    BY <1>2, FrameCount, Zenon
  <1>4. used < Capacity
    BY <1>2, <1>3 DEF GameTypes
  <1> QED
    BY <1>1, <1>4

\* The evidence changes when a frame is classified, on an acceptance or in a crash.
\* A frame that shows free space was taken since, so there is space.
LEMMA TrackerMoves ==
  ASSUME EarnedInv, Next
  PROVE  \/ UNCHANGED trackVars
         \/ \E f \in Frame : /\ RecordSpecialState(f) \/ SpecialStateRaises(f)
                             /\ f.storage.read => used <= f.storage.used
         \/ Accept
         \/ Crash
  <1> USE DEF EarnedInv, LoopInv, LoopTypeOK
  <1>1. ASSUME NEW f \in Frame, Observed(f)
        PROVE  f.storage.read => used <= f.storage.used
    BY <1>1, FrameTells DEF GameTypes
  <1>2. pc = "verify" => after \in Frame /\ (after.storage.read => used <= after.storage.used)
    BY DEF Phases, FrameTypes, Proves
  <1>3. CASE Observe
    BY <1>1, <1>3 DEF Observe
  <1>4. CASE PhaseFails
    BY <1>1, <1>4 DEF PhaseFails
  <1>5. CASE VerifyFails \/ VerifyPasses
    BY <1>2, <1>5 DEF VerifyFails, VerifyPasses
  <1>6. CASE VerifyRaises
    BY <1>2, <1>6 DEF VerifyRaises
  <1>7. UNCHANGED trackVars \/ Observe \/ PhaseFails \/ VerifyFails \/ VerifyPasses
          \/ VerifyRaises \/ Accept \/ Crash
    <2> HIDE DEF EarnedInv
    <2> QED
      BY DEF Next, MainStep, WriterStep, loopVars, gameVars, historyVars, cycleVars, Missed,
           CycleEnds, CycleReturns, CycleRaises, LeaveRunOnce, Goes, Stops,
           BeginCycle, Observe, PhaseFails, TickRaises, NoAction, NeedsHuman, Approve,
           CheckAgain, Execute, ExecuteFails, Result, WriteFailed, Reobserve,
           ReobserveFails, NotFresh, VerifyFails, VerifyRaises, VerifyPasses, Accept,
           LoopError, LoopEscapes, InterruptDrained, TapBegins, TapEnds, Timeout, Interrupt, Crash,
           Restart, Latch, DeadlinePasses, Finishes, PlayerClears, ScreenChanges,
           Terminated
  <1> QED
    BY <1>3, <1>4, <1>5, <1>6, <1>7

\* A cycle that is accepted did what it is credited with.
LEMMA AcceptIsEarned ==
  ASSUME EarnedInv, Accept
  PROVE  /\ action \in {"produce", "collect", "enter_factory"}
         /\ action = "produce" => effect = "started"
         /\ action = "collect" => effect = "collected"
         /\ action = "enter_factory" => before.factory = "UNKNOWN"
         /\ action = "collect" => before.factory = "COMPLETED_COLLECTABLE"
         /\ action = "produce" => before.factory = "IDLE"
  <1> USE DEF EarnedInv, LoopInv, LoopTypeOK
  <1>1. pc = "accept" /\ Verdict = "PASS" /\ before # NoFrame
    BY DEF Accept, Proves, Phases
  <1>2. action = "produce" => after.factory = "PRODUCING" /\ before.factory = "IDLE"
    BY <1>1 DEF Verdict
  <1>3. action = "collect" => /\ after.storage.read
                              /\ after.storage.used - before.storage.used = 1
    BY <1>1 DEF Verdict
  <1>4. action \in {"produce", "collect", "enter_factory"}
    BY <1>1 DEF Verdict, CycleTypes
  <1>5. action = "collect" => effect = "collected"
    <2> SUFFICES ASSUME action = "collect", effect # "collected" PROVE FALSE
      OBVIOUS
    <2>1. before.storage.read /\ after.storage.read
      BY <1>3 DEF Plans
    <2>2. after.storage.used <= before.storage.used
      BY <1>1, <2>1 DEF Proves
    <2>3. after.storage.used \in 0 .. Capacity /\ before.storage.used \in 0 .. Capacity
      BY <1>1, <2>1, FrameCount DEF FrameTypes, Phases
    <2> QED
      BY <1>3, <2>2, <2>3
  <1> QED
    BY <1>1, <1>2, <1>4, <1>5 DEF Proves, Plans, StillTrue

\* What _record_acceptance_success changes of the evidence.
LEMMA AcceptFields ==
  ASSUME TrackTypes, Accept
  PROVE  /\ action # "produce" => tracker'.produce = tracker.produce
         /\ action # "collect" => tracker'.collect = tracker.collect
         /\ tracker'.blocked = tracker.blocked
         /\ tracker'.recovered = tracker.recovered
         /\ \/ tracker'.transitions = tracker.transitions
            \/ /\ before.factory # "UNKNOWN"
               /\ tracker'.transitions =
                    tracker.transitions \union {<<before.factory, after.factory>>}
  <1> DEFINE t == CountSuccess(tracker)
  <1>1. /\ action # "produce" => t.produce = tracker.produce
        /\ action # "collect" => t.collect = tracker.collect
        /\ t.blocked = tracker.blocked /\ t.recovered = tracker.recovered
        /\ t.transitions = tracker.transitions
    BY DEF CountSuccess, TrackTypes, Tracker
  <1>2. CASE tracker' = t
    BY <1>1, <1>2
  <1>3. CASE /\ before.factory # "UNKNOWN"
             /\ tracker' = [t EXCEPT !.transitions = @ \union {<<before.factory, after.factory>>}]
    <2>1. t \in [produce : {t.produce}, collect : {t.collect}, transitions : {t.transitions},
                 blocked : {t.blocked}, recovered : {t.recovered}]
      BY DEF CountSuccess, TrackTypes, Tracker
    <2> HIDE DEF t
    <2> QED
      BY <1>1, <1>3, <2>1
  <1> QED
    BY <1>2, <1>3 DEF Accept, RecordTransition

\* A recovery is credited after its block, and what is pending has been marked.
LEMMA RecordedIsEarned ==
  ASSUME GameTypes, TrackTypes, recoveryPending => tracker.blocked,
         NEW f \in Frame, RecordSpecialState(f) \/ SpecialStateRaises(f),
         f.storage.read => used <= f.storage.used
  PROVE  /\ tracker'.recovered /\ ~ tracker.recovered => tracker.blocked /\ used < Capacity
         /\ recoveryPending' => tracker'.blocked
  <1>1. tracker'.recovered => tracker.recovered \/ Recovers(f)
    BY RecordMarks, MarkFields, Zenon
  <1>2. tracker.blocked \/ BlockedStorage(f) => tracker'.blocked
    BY RecordMarks, MarkFields, Zenon
  <1>3. recoveryPending' => recoveryPending \/ BlockedStorage(f)
    BY RecordMarks, Zenon
  <1>4. Recovers(f) => recoveryPending /\ used < Capacity
    BY RecoveryTells, Zenon
  <1> QED
    BY <1>1, <1>2, <1>3, <1>4, Zenon

\* Every change of the evidence is earned.
LEMMA EarnedStep ==
  ASSUME EarnedInv, Next
  PROVE  /\ tracker'.produce > tracker.produce => effect = "started"
         /\ tracker'.collect > tracker.collect => effect = "collected"
         /\ <<"IDLE", "PRODUCING">> \in tracker'.transitions \ tracker.transitions
              => effect = "started"
         /\ tracker'.recovered /\ ~ tracker.recovered => tracker.blocked /\ used < Capacity
         /\ recoveryPending' => tracker'.blocked
         /\ OnlyTapTransitions'
  <1> USE DEF EarnedInv, LoopInv, LoopTypeOK
  <1>0. GameTypes /\ TrackTypes /\ OnlyTapTransitions /\ (recoveryPending => tracker.blocked)
    BY Zenon
  <1>1. tracker.produce \in Nat /\ tracker.collect \in Nat
    BY DEF TrackTypes, Tracker
  <1>2. CASE UNCHANGED trackVars
    BY <1>1, <1>2 DEF trackVars, OnlyTapTransitions
  <1>3. CASE \E f \in Frame : /\ RecordSpecialState(f) \/ SpecialStateRaises(f)
                              /\ f.storage.read => used <= f.storage.used
    <2> HIDE DEF EarnedInv, LoopInv, LoopTypeOK
    <2>1. PICK f \in Frame : /\ RecordSpecialState(f) \/ SpecialStateRaises(f)
                             /\ f.storage.read => used <= f.storage.used
      BY <1>3
    <2>2. MarkSpecialState(f)
      BY <2>1, RecordMarks, Zenon
    <2>3. /\ tracker'.produce = tracker.produce
          /\ tracker'.collect = tracker.collect
          /\ tracker'.transitions = tracker.transitions
      BY <1>0, <2>2, MarkFields, Zenon
    <2>4. tracker'.recovered /\ ~ tracker.recovered => tracker.blocked /\ used < Capacity
      BY <1>0, <2>1, RecordedIsEarned, Zenon
    <2>5. recoveryPending' => tracker'.blocked
      BY <1>0, <2>1, RecordedIsEarned, Zenon
    <2> QED
      BY <1>0, <1>1, <2>3, <2>4, <2>5 DEF OnlyTapTransitions
  <1>4. CASE Accept
    <2>1. recoveryPending' => tracker'.blocked
      BY <1>4, AcceptFields, Zenon DEF Accept
    <2>2. ~ (tracker'.recovered /\ ~ tracker.recovered)
      BY <1>4, AcceptFields, Zenon
    <2>3. tracker'.produce > tracker.produce => effect = "started"
      BY <1>1, <1>4, AcceptFields, AcceptIsEarned
    <2>4. tracker'.collect > tracker.collect => effect = "collected"
      BY <1>1, <1>4, AcceptFields, AcceptIsEarned
    <2>5. \A p \in tracker'.transitions \ tracker.transitions :
            /\ p = <<before.factory, after.factory>>
            /\ action # "enter_factory"
      BY <1>4, AcceptFields, AcceptIsEarned
    <2>6. before.factory \in {"IDLE", "COMPLETED_COLLECTABLE"} \/ action = "enter_factory"
      BY <1>4, AcceptIsEarned
    <2>7. OnlyTapTransitions'
      BY <2>5, <2>6 DEF OnlyTapTransitions
    <2>8. before.factory = "IDLE" /\ action # "enter_factory" => effect = "started"
      BY <1>4, AcceptIsEarned
    <2>9. <<"IDLE", "PRODUCING">> \in tracker'.transitions \ tracker.transitions
            => effect = "started"
      BY <2>5, <2>8
    <2> QED
      BY <2>1, <2>2, <2>3, <2>4, <2>7, <2>9
  <1>5. CASE Crash
    <2>1. PICK p \in 0 .. tracker.produce, c \in 0 .. tracker.collect,
               t \in SUBSET tracker.transitions, b \in BOOLEAN, r \in BOOLEAN :
            /\ r => tracker.recovered /\ b
            /\ tracker' = [produce |-> p, collect |-> c, transitions |-> t,
                           blocked |-> b, recovered |-> r]
      BY <1>5 DEF Crash
    <2>2. tracker'.produce = p /\ tracker'.collect = c /\ tracker'.transitions = t
            /\ (tracker'.recovered => tracker.recovered)
      BY <2>1
    <2>3. recoveryPending' = FALSE
      BY <1>5 DEF Crash
    <2>4. p <= tracker.produce /\ c <= tracker.collect
      BY <1>1, <2>1
    <2> QED
      BY <1>1, <2>1, <2>2, <2>3, <2>4 DEF OnlyTapTransitions
  <1> QED
    BY <1>2, <1>3, <1>4, <1>5, TrackerMoves

LEMMA MoreRoom ==
  ASSUME NEW m \in Int, NEW n \in Int, n < m, Capacity - m >= 1 + Margin
  PROVE  Capacity - n >= 1 + Margin
  OBVIOUS

\* A warehouse the player clears has more room.
LEMMA CollectsWithLess ==
  ASSUME CollectsWhatItStarts, used' < used, used \in Int, used' \in Int, UNCHANGED ours
  PROVE  CollectsWhatItStarts'
  <1> SUFFICES ASSUME Margin <= Reserve, ours' PROVE Capacity - used' >= 1 + Margin
    BY DEF CollectsWhatItStarts
  <1>1. ours
    BY Zenon
  <1>2. Capacity - used >= 1 + Margin
    BY <1>1, Zenon DEF CollectsWhatItStarts
  <1> QED
    BY <1>2, MoreRoom, Zenon

\* A production is started on a warehouse that has its reserve, and nothing fills
\* it before the loop collects.
LEMMA CollectsStep ==
  ASSUME EarnedInv, Next
  PROVE  CollectsWhatItStarts'
  <1> USE DEF EarnedInv, LoopInv, LoopTypeOK
  <1>1. CASE tap = "running" /\ Hit
    <2>1. CASE ours' = FALSE
      BY <2>1 DEF CollectsWhatItStarts
    <2>2. CASE UNCHANGED <<used, ours>>
      BY <2>2 DEF CollectsWhatItStarts
    <2>3. CASE action = "produce" /\ UNCHANGED used
      <3>1. before # NoFrame /\ before.storage.read /\ Capacity - before.storage.used > Reserve
        BY <2>3 DEF Plans
      <3>2. used <= before.storage.used
        BY <1>1, <3>1 DEF StillTrue, Phases
      <3>3. before.storage.used \in 0 .. Capacity
        BY <3>1, FrameCount DEF FrameTypes
      <3>4. Margin <= Reserve => Capacity - used >= 1 + Margin
        BY <3>1, <3>2, <3>3 DEF GameTypes
      <3> QED
        BY <2>3, <3>4 DEF CollectsWhatItStarts
    <2> QED
      BY <1>1, <2>1, <2>2, <2>3 DEF Hit, historyVars
  <1>2. CASE UNCHANGED <<used, ours>>
    BY <1>2 DEF CollectsWhatItStarts
  <1>3. CASE PlayerClears
    <2>1. used' < used /\ used \in Int /\ used' \in Int /\ UNCHANGED ours
      BY <1>3 DEF PlayerClears, GameTypes, historyVars
    <2> QED
      BY <2>1, CollectsWithLess
  <1> QED
    BY <1>1, <1>2, <1>3
       DEF Next, MainStep, WriterStep, loopVars, gameVars, historyVars, cycleVars, Missed,
           CycleEnds, CycleReturns, CycleRaises, LeaveRunOnce, Goes, Stops,
           BeginCycle, Observe, PhaseFails, TickRaises, NoAction, NeedsHuman, Approve,
           CheckAgain, Execute, ExecuteFails, Result, WriteFailed, Reobserve,
           ReobserveFails, NotFresh, VerifyFails, VerifyRaises, VerifyPasses, Accept,
           LoopError, LoopEscapes, InterruptDrained, TapBegins, TapEnds, Timeout, Interrupt, Crash,
           Restart, Latch, DeadlinePasses, Finishes, PlayerClears, ScreenChanges,
           Terminated

\* The evidence and what can be collected, whatever the surroundings do.
THEOREM EarnedInvariant == Spec => []EarnedInv
  <1>1. Init => EarnedInv
    <2> SUFFICES ASSUME Init PROVE EarnedInv
      OBVIOUS
    <2>1. StillTrue /\ Proves /\ OnlyTapTransitions
      BY DEF Init, StillTrue, Proves, OnlyTapTransitions
    <2>2. CollectsWhatItStarts
      BY DEF Init, CollectsWhatItStarts
    <2>3. recoveryPending = FALSE
      BY DEF Init
    <2> QED
      BY <2>1, <2>2, <2>3, InitInv DEF EarnedInv
  <1>2. EarnedInv /\ [Next]_loopVars => EarnedInv'
    <2> SUFFICES ASSUME EarnedInv, [Next]_loopVars PROVE EarnedInv'
      OBVIOUS
    <2>1. LoopInv'
      BY LoopStep DEF EarnedInv
    <2>2. CASE Next
      BY <2>1, <2>2, StillTrueStep, ProvesStep, EarnedStep, CollectsStep DEF EarnedInv
    <2>3. CASE UNCHANGED loopVars
      <3>1. UNCHANGED <<gameVars, historyVars, cycleVars, trackVars, pc>>
        BY <2>3 DEF loopVars
      <3>2. StillTrue' /\ Proves'
        BY <3>1 DEF gameVars, historyVars, cycleVars, EarnedInv, StillTrue, Proves, Verdict
      <3>3. OnlyTapTransitions' /\ (recoveryPending' => tracker'.blocked)
        BY <3>1, Zenon DEF trackVars, EarnedInv, OnlyTapTransitions
      <3>4. CollectsWhatItStarts'
        BY <3>1, Zenon DEF gameVars, historyVars, EarnedInv, CollectsWhatItStarts
      <3> QED
        BY <2>1, <3>2, <3>3, <3>4 DEF EarnedInv
    <2> QED
      BY <2>2, <2>3
  <1> QED
    BY <1>1, <1>2, PTL DEF Spec

\* A production is started only while its item can be collected when it is finished,
\* on any readings (v0_policy.py:14, 58-64).
THEOREM LoopDoesNotBlockItself == Spec => []CollectsWhatItStarts
  <1>1. EarnedInv => CollectsWhatItStarts
    BY DEF EarnedInv
  <1> QED
    BY <1>1, EarnedInvariant, PTL

\* No transition is ever recorded that a verified tap did not make, on any readings
\* (orchestrator.py:635-640).
THEOREM TransitionsOfTaps == Spec => []OnlyTapTransitions
  <1>1. EarnedInv => OnlyTapTransitions
    BY DEF EarnedInv
  <1> QED
    BY <1>1, EarnedInvariant, PTL

\* No success, transition or recovery is credited that the game did not show, on any
\* readings, errors and crashes (orchestrator.py:378-398, 604-640).
THEOREM EvidenceEarned == Spec => EvidenceIsEarned
  <1> DEFINE Earned ==
        /\ tracker'.produce > tracker.produce => effect = "started"
        /\ tracker'.collect > tracker.collect => effect = "collected"
        /\ <<"IDLE", "PRODUCING">> \in tracker'.transitions \ tracker.transitions
             => effect = "started"
        /\ tracker'.recovered /\ ~ tracker.recovered => tracker.blocked /\ used < Capacity
  <1>1. EarnedInv /\ [Next]_loopVars => [Earned]_loopVars
    BY EarnedStep
  <1> QED
    BY <1>1, EarnedInvariant, PTL DEF Spec, EvidenceIsEarned
=============================================================================
