------------------------------- MODULE V0Loop -------------------------------
(***************************************************************************)
(* The V0 automation loop: runtime/orchestrator.py (run and run_once) with *)
(* the planner and verifier of planner/v0.py, the persistent output quota  *)
(* of storage/quota_store.py, the emergency stop and the game it drives.   *)
(*                                                                         *)
(* A cycle observes the screen, plans at most one tap, asks the Keeper,    *)
(* checks the emergency stop again, taps, observes a fresh frame, verifies *)
(* and records.  Around it the game goes on, the tap may be missed or end  *)
(* late, the process may be interrupted or crash, and the stop may be      *)
(* requested.  Keeper's rate rules are RateGate's subject, the writer      *)
(* queue is CommandQueue's: here the Keeper may deny, and the queue runs   *)
(* one tap, drops it if it is cancelled in time, or fails it.              *)
(***************************************************************************)
EXTENDS Integers

CONSTANTS
  Capacity,       \* the warehouse of the game
  Reserve,        \* V0Policy.reserve_free(Capacity)
  Margin,         \* V0Policy.collect_safety_margin
  Cap,            \* the smaller of the two session output caps
  MaxLoopErrors,  \* max_consecutive_loop_errors
  Enough,         \* acceptance counters are counted up to here (bound)
  Environment     \* what the surroundings may do, see Behaviour

Behaviour == {"ambiguous", "lag", "fastfinish", "popup", "player", "stale",
              "interrupt", "crash", "storefail"}

ASSUME LoopAssumption ==
  /\ Capacity \in Nat \ {0}
  /\ Reserve \in Nat
  /\ Margin \in Nat
  /\ Cap \in Nat \ {0}
  /\ MaxLoopErrors \in Nat \ {0}
  /\ Enough \in Nat \ {0}
  /\ Environment \subseteq Behaviour

VARIABLES
  screen, factory, used,      \* the game
  pc,                         \* where run() or run_once() is
  before, after,              \* the cycle's two observations
  action,                     \* the planned action
  tap,                        \* its future
  reserved,                   \* persistent output count of the active session
  tracker,                    \* the acceptance evidence
  recoveryPending,            \* _blocked_storage_recovery_pending
  loopErrors,                 \* consecutive_loop_errors
  latched,                    \* EmergencyStop._event
  expired,                    \* the deadline of run_for has passed
  started,                    \* history: productions this session really started
  ours,                       \* history: the item in the factory is one of them
  effect,                     \* history: what this cycle's tap did to the game
  owed,                       \* history: its sample is not recorded yet, and the store
                              \* has not failed on the way there
  tapsAfterLatch              \* history: writes begun since the latch

gameVars    == <<screen, factory, used>>
historyVars == <<started, ours, effect>>
cycleVars   == <<before, after, action>>
trackVars   == <<tracker, recoveryPending>>
stopVars    == <<latched, expired>>
loopVars == <<gameVars, pc, cycleVars, tap, reserved, trackVars, loopErrors, stopVars,
              historyVars, owed, tapsAfterLatch>>

NoFrame == [screen |-> "none"]
NoStorage == [read |-> FALSE]
FactoryReading == {"IDLE", "PRODUCING", "COMPLETED_COLLECTABLE",
                   "COMPLETED_STORAGE_BLOCKED", "COLLECTED", "UNKNOWN"}
Frame == [screen : {"CITY", "FACTORY", "OTHER"},
          factory : FactoryReading,
          storage : {NoStorage} \union
                    [read : {TRUE}, used : 0 .. Capacity, trusted : BOOLEAN],
          fresh : BOOLEAN]
Transition == FactoryReading \X FactoryReading
Tracker == [produce : 0 .. Enough, collect : 0 .. Enough,
            transitions : SUBSET Transition, blocked : BOOLEAN, recovered : BOOLEAN]

Upto(n, limit) == IF n > limit THEN limit ELSE n

Init ==
  /\ screen \in {"CITY", "FACTORY"}
  /\ factory \in {"IDLE", "COMPLETED"}
  /\ used \in 0 .. Capacity
  /\ pc = "ready"
  /\ before = NoFrame
  /\ after = NoFrame
  /\ action = "none"
  /\ tap = "none"
  /\ reserved = 0
  /\ tracker = [produce |-> 0, collect |-> 0, transitions |-> {},
                blocked |-> FALSE, recovered |-> FALSE]
  /\ recoveryPending = FALSE
  /\ loopErrors = 0
  /\ latched = FALSE
  /\ expired = FALSE
  /\ started = 0
  /\ ours = FALSE
  /\ effect = "none"
  /\ owed = FALSE
  /\ tapsAfterLatch = 0

-----------------------------------------------------------------------------
(* Ways a cycle ends.                                                      *)

\* The locals of run_once() are gone.
LeaveRunOnce ==
  /\ before' = NoFrame
  /\ after' = NoFrame
  /\ action' = "none"
  /\ tap' = "none"
  /\ effect' = "none"

\* run_once() returned and run() goes round again.
CycleReturns == LeaveRunOnce /\ pc' = "ready" /\ loopErrors' = 0

\* An exception left run_once(): run() counts it.
CycleRaises == LeaveRunOnce /\ pc' = "erring" /\ UNCHANGED loopErrors

StoreFails == "storefail" \in Environment

\* Every return is preceded by metrics.tick(), which may have to save and raise.
CycleEnds == CycleReturns \/ (StoreFails /\ CycleRaises)

\* metrics.record_action(): the cycle's tap has its sample.
RecordAction == owed' = FALSE

-----------------------------------------------------------------------------
(* The start of a cycle.                                                   *)

\* Mutant: the latch is never looked at.
StopRequested_Never == FALSE

\* _check_emergency_stop
StopRequested == latched

\* Nothing but the program counter moves on.
Goes(next) ==
  /\ pc' = next
  /\ UNCHANGED <<cycleVars, tap, effect, loopErrors>>

\* run() ends on the status of the stop, unless its tick() raises: then run()
\* counts an error and, the latch being set, comes back here.
Stops == Goes("stopped") \/ (StoreFails /\ CycleRaises)

\* The loop's test of the deadline, then the first check of the stop.
BeginCycle ==
  /\ pc = "ready"
  /\ IF expired THEN Goes("stopped")
     ELSE IF StopRequested THEN Stops ELSE Goes("observe")
  /\ UNCHANGED <<gameVars, reserved, trackVars, stopVars, started, ours, owed,
                 tapsAfterLatch>>

\* What the classifier and the readers make of the game.  A rule for the collected
\* item may match an idle factory.  They may fail to recognise what they see, a
\* frame may show the factory as it was before the tap, and off the factory screen
\* neither the factory nor the storage is read.
ScreenReadings == {screen} \union (IF "ambiguous" \in Environment THEN {"OTHER"} ELSE {})

FactoryShown ==
  IF factory # "COMPLETED" THEN factory
  ELSE IF used < Capacity THEN "COMPLETED_COLLECTABLE" ELSE "COMPLETED_STORAGE_BLOCKED"

FactoryReadings(s) ==
  IF s # "FACTORY" THEN {"UNKNOWN"}
  ELSE {FactoryShown}
         \union (IF factory = "IDLE" THEN {"COLLECTED"} ELSE {})
         \union (IF "ambiguous" \in Environment THEN {"UNKNOWN"} ELSE {})
         \union (IF "lag" \in Environment /\ effect = "started" THEN {"IDLE"} ELSE {})

StorageReadings(s) ==
  IF s # "FACTORY" THEN {NoStorage}
  ELSE {NoStorage} \union [read : {TRUE}, used : {used}, trusted : BOOLEAN]

\* AdbScreenshotObserver.observe()
Observed(f) ==
  /\ f.screen \in ScreenReadings
  /\ f.factory \in FactoryReadings(f.screen)
  /\ f.storage \in StorageReadings(f.screen)
  /\ f.fresh \in {TRUE} \union (IF "stale" \in Environment THEN {FALSE} ELSE {})

\* ConservativeAutomationStateResolver.resolve() = BLOCKED_STORAGE: an unknown
\* screen or a storage that is not read or not trusted comes first.
BlockedStorage(f) ==
  /\ f.screen # "OTHER"
  /\ f.screen = "FACTORY" => f.storage.read
  /\ f.storage.read => f.storage.trusted
  /\ f.factory = "COMPLETED_STORAGE_BLOCKED"

TrustedFreeStorage(f) ==
  f.storage.read /\ f.storage.trusted /\ f.storage.used < Capacity

\* Mutant: a recovery needs no block before it.
Recovers_Unblocked(f) == ~ BlockedStorage(f) /\ TrustedFreeStorage(f)

\* mark_blocked_storage_detected and mark_manual_clear_recovered.
Recovers(f) == ~ BlockedStorage(f) /\ recoveryPending /\ TrustedFreeStorage(f)
MarkSpecialState(f) ==
  tracker' = [tracker EXCEPT !.blocked = @ \/ BlockedStorage(f),
                             !.recovered = @ \/ Recovers(f)]

\* _record_special_state
RecordSpecialState(f) ==
  /\ MarkSpecialState(f)
  /\ recoveryPending' = (BlockedStorage(f) \/ (recoveryPending /\ ~ Recovers(f)))

\* The mark is in memory, saving it raised: the pending flag is as it was.
SpecialStateRaises(f) ==
  /\ StoreFails
  /\ BlockedStorage(f) \/ Recovers(f)
  /\ MarkSpecialState(f)
  /\ UNCHANGED recoveryPending

Observe ==
  /\ pc = "observe"
  /\ \E f \in Frame :
       /\ Observed(f)
       /\ f.fresh
       /\ before' = f
       /\ RecordSpecialState(f)
  /\ pc' = "plan"
  /\ UNCHANGED <<gameVars, after, action, tap, reserved, loopErrors, stopVars,
                 historyVars, owed, tapsAfterLatch>>

\* observe(), _record_special_state() or plan() raises: _phase_failure.
PhaseFails ==
  /\ pc \in {"observe", "plan"}
  /\ \/ UNCHANGED trackVars
     \/ /\ pc = "observe"
        /\ \E f \in Frame : Observed(f) /\ SpecialStateRaises(f)
  /\ CycleEnds
  /\ UNCHANGED <<gameVars, reserved, stopVars, started, ours, owed, tapsAfterLatch>>

\* metrics.tick(), outside run_once's try blocks, raises: before the observation,
\* the plan, the write or, with the write made, the fresh observation.
TickRaises ==
  /\ StoreFails
  /\ pc \in {"observe", "plan", "execute", "reobserve"}
  /\ CycleRaises
  /\ owed' = FALSE
  /\ UNCHANGED <<gameVars, reserved, trackVars, stopVars, started, ours, tapsAfterLatch>>

-----------------------------------------------------------------------------
(* Planning: V0Planner.plan and the guards of core/v0_policy.py.           *)

CanCollectOne(s) == s.trusted /\ Capacity - s.used >= 1 + Margin

\* Mutant: the reserve is not looked at.
CanStartProduction_NoReserve(s) == s.trusted /\ reserved < Cap

\* Mutant: the session cap is off by one.
CanStartProduction_CapOffByOne(s) ==
  s.trusted /\ reserved <= Cap /\ Capacity - s.used > Reserve

CanStartProduction(s) ==
  /\ s.trusted
  /\ reserved < Cap
  /\ Capacity - s.used > Reserve

InFactory(f) == f.screen = "FACTORY" /\ f.storage.read

Planned(f) ==
  CASE f.screen = "CITY" -> "enter_factory"
    [] InFactory(f) /\ f.factory = "COMPLETED_COLLECTABLE" /\ CanCollectOne(f.storage)
         -> "collect"
    [] InFactory(f) /\ f.factory = "IDLE" /\ CanStartProduction(f.storage) -> "produce"
    [] OTHER -> "none"

\* No action, or one the Keeper denies.
NoAction ==
  /\ pc = "plan"
  /\ CycleEnds
  /\ UNCHANGED <<gameVars, reserved, trackVars, stopVars, started, ours, owed,
                 tapsAfterLatch>>

\* The Keeper asks for a human: run() stops.
NeedsHuman ==
  /\ pc = "plan"
  /\ Planned(before) # "none"
  /\ pc' = "stopped"
  /\ UNCHANGED <<gameVars, cycleVars, tap, reserved, trackVars, loopErrors, stopVars,
                 historyVars, owed, tapsAfterLatch>>

Approve ==
  /\ pc = "plan"
  /\ Planned(before) # "none"
  /\ action' = Planned(before)
  /\ pc' = "approved"
  /\ UNCHANGED <<gameVars, before, after, tap, reserved, trackVars, loopErrors, stopVars,
                 historyVars, owed, tapsAfterLatch>>

\* The second check, just before the write.
CheckAgain ==
  /\ pc = "approved"
  /\ IF StopRequested THEN Stops ELSE Goes("execute")
  /\ UNCHANGED <<gameVars, reserved, trackVars, stopVars, started, ours, owed,
                 tapsAfterLatch>>

-----------------------------------------------------------------------------
(* The write: action.execute(writer), then future.result(timeout).         *)

\* record_output: one item in the active session, before the tap.
Charge == reserved' = IF action = "produce" THEN reserved + 1 ELSE reserved

Execute ==
  /\ pc = "execute"
  /\ Charge
  /\ tap' = "queued"
  /\ owed' = TRUE
  /\ pc' = "await"
  /\ UNCHANGED <<gameVars, cycleVars, trackVars, loopErrors, stopVars, historyVars,
                 tapsAfterLatch>>

\* The store or submit() raises, before or after the charge.
ExecuteFails ==
  /\ pc = "execute"
  /\ Charge \/ UNCHANGED reserved
  /\ CycleEnds
  /\ RecordAction
  /\ UNCHANGED <<gameVars, trackVars, stopVars, started, ours, tapsAfterLatch>>

\* The writer thread takes the tap: from here it may reach the game.
TapBegins ==
  /\ tap = "queued"
  /\ tap' = "running"
  /\ tapsAfterLatch' = Upto(IF latched THEN tapsAfterLatch + 1 ELSE tapsAfterLatch, 2)
  /\ UNCHANGED <<gameVars, pc, cycleVars, reserved, trackVars, loopErrors, stopVars,
                 historyVars, owed>>

\* What the game does with the tap, if it registers it.
Hit ==
  \/ /\ action = "enter_factory" /\ screen = "CITY"
     /\ screen' = "FACTORY"
     /\ UNCHANGED <<factory, used, historyVars>>
  \/ /\ action = "collect" /\ screen = "FACTORY" /\ factory = "COMPLETED" /\ used < Capacity
     /\ factory' = "IDLE"
     /\ used' = used + 1
     /\ ours' = FALSE
     /\ effect' = "collected"
     /\ UNCHANGED <<screen, started>>
  \/ /\ action = "produce" /\ screen = "FACTORY" /\ factory = "IDLE"
     /\ factory' = "PRODUCING"
     /\ started' = Upto(started + 1, Cap + 1)
     /\ ours' = TRUE
     /\ effect' = "started"
     /\ UNCHANGED <<screen, used>>

Missed == UNCHANGED <<gameVars, historyVars>>

\* The adb call returns, or raises although the tap may have been made.
TapEnds ==
  /\ tap = "running"
  /\ tap' \in {"done", "failed"}
  /\ Hit \/ Missed
  /\ UNCHANGED <<pc, cycleVars, reserved, trackVars, loopErrors, stopVars, owed,
                 tapsAfterLatch>>

Result ==
  /\ pc = "await"
  /\ tap = "done"
  /\ pc' = "reobserve"
  /\ UNCHANGED <<gameVars, cycleVars, tap, reserved, trackVars, loopErrors, stopVars,
                 historyVars, owed, tapsAfterLatch>>

\* The timeout path: the tap is cancelled if it has not begun, else awaited.
Timeout ==
  /\ pc = "await"
  /\ tap \in {"queued", "running"}
  /\ tap' = IF tap = "queued" THEN "cancelled" ELSE tap
  /\ pc' = "draining"
  /\ UNCHANGED <<gameVars, cycleVars, reserved, trackVars, loopErrors, stopVars,
                 historyVars, owed, tapsAfterLatch>>

\* Mutant: a write that timed out is not counted as an action.
WriteFailed_Unrecorded ==
  /\ \/ pc = "await" /\ tap = "failed"
     \/ pc = "draining" /\ tap \notin {"queued", "running"}
  /\ CycleEnds
  /\ IF pc = "draining" THEN UNCHANGED owed ELSE RecordAction
  /\ UNCHANGED <<gameVars, reserved, trackVars, stopVars, started, ours, tapsAfterLatch>>

\* The write raised, or drain() returned after the timeout: EXECUTION_FAILED.
WriteFailed ==
  /\ \/ pc = "await" /\ tap = "failed"
     \/ pc = "draining" /\ tap \notin {"queued", "running"}
  /\ CycleEnds
  /\ RecordAction
  /\ UNCHANGED <<gameVars, reserved, trackVars, stopVars, started, ours, tapsAfterLatch>>

-----------------------------------------------------------------------------
(* The fresh observation and its verification.                             *)

Reobserve ==
  /\ pc = "reobserve"
  /\ \E f \in Frame : Observed(f) /\ after' = f
  /\ pc' = "verify"
  /\ UNCHANGED <<gameVars, before, action, tap, reserved, trackVars, loopErrors, stopVars,
                 historyVars, owed, tapsAfterLatch>>

ReobserveFails ==
  /\ pc = "reobserve"
  /\ CycleEnds
  /\ RecordAction
  /\ UNCHANGED <<gameVars, reserved, trackVars, stopVars, started, ours, tapsAfterLatch>>

\* Mutant: a frame that is not fresh gives the reservation back as well.
NotFresh_Releases ==
  /\ pc = "verify"
  /\ ~ after.fresh
  /\ CycleEnds
  /\ RecordAction
  /\ reserved' = IF action = "produce" /\ reserved > 0 THEN reserved - 1 ELSE reserved
  /\ UNCHANGED <<gameVars, trackVars, stopVars, started, ours, tapsAfterLatch>>

\* _verify_freshness: neither the special state nor the quota is touched.
NotFresh ==
  /\ pc = "verify"
  /\ ~ after.fresh
  /\ CycleEnds
  /\ RecordAction
  /\ UNCHANGED <<gameVars, reserved, trackVars, stopVars, started, ours, tapsAfterLatch>>

\* Mutant: the fresh frame need not show more than before.
Verdict_Loose ==
  CASE action = "collect" /\ ~ after.storage.read -> "UNKNOWN"
    [] action = "collect" /\ after.storage.read /\ after.storage.used >= before.storage.used
         -> "PASS"
    [] action = "produce" /\ after.factory # "UNKNOWN" -> "PASS"
    [] action = "enter_factory" -> "PASS"
    [] OTHER -> "FAIL"

\* state_transition("screen"), storage_delta(1, 1), state_transition("factory_state")
Verdict ==
  CASE action = "collect" /\ ~ after.storage.read -> "UNKNOWN"
    [] action = "collect" /\ after.storage.read
         /\ after.storage.used - before.storage.used = 1 -> "PASS"
    [] action = "enter_factory" /\ after.screen = "FACTORY" -> "PASS"
    [] action = "produce" /\ before.factory = "IDLE" /\ after.factory = "PRODUCING" -> "PASS"
    [] OTHER -> "FAIL"

\* The production's verify() gives the reservation back on FAIL.
Releases == action = "produce" /\ Verdict = "FAIL"

VerifyFails ==
  /\ pc = "verify"
  /\ after.fresh
  /\ Verdict # "PASS"
  /\ RecordSpecialState(after)
  /\ Releases => reserved > 0
  /\ reserved' = IF Releases THEN reserved - 1 ELSE reserved
  /\ CycleEnds
  /\ RecordAction
  /\ UNCHANGED <<gameVars, stopVars, started, ours, tapsAfterLatch>>

\* The special state cannot be saved, or release_output() raises: run_once is left
\* before record_action.
VerifyRaises ==
  /\ pc = "verify"
  /\ after.fresh
  /\ \/ SpecialStateRaises(after)
     \/ /\ Releases
        /\ reserved = 0 \/ StoreFails
        /\ RecordSpecialState(after)
  /\ CycleRaises
  /\ owed' = (owed /\ ~ StoreFails)
  /\ UNCHANGED <<gameVars, reserved, stopVars, started, ours, tapsAfterLatch>>

\* _record_acceptance_success: the success is counted, then the transition.
CountSuccess(t) ==
  [t EXCEPT
    !.produce = IF action = "produce" THEN Upto(@ + 1, Enough) ELSE @,
    !.collect = IF action = "collect" THEN Upto(@ + 1, Enough) ELSE @]

\* Mutant: the transition is recorded the wrong way round.
RecordTransition_Reversed(t) ==
  [t EXCEPT !.transitions = @ \union {<<after.factory, before.factory>>}]

RecordTransition(t) ==
  IF "UNKNOWN" \notin {before.factory, after.factory} /\ before.factory # after.factory
  THEN [t EXCEPT !.transitions = @ \union {<<before.factory, after.factory>>}]
  ELSE t

\* The special state of the fresh frame is recorded first, the sample next and
\* the acceptance last.
VerifyPasses ==
  /\ pc = "verify"
  /\ after.fresh
  /\ Verdict = "PASS"
  /\ RecordSpecialState(after)
  /\ pc' = "accept"
  /\ RecordAction
  /\ UNCHANGED <<gameVars, cycleVars, tap, reserved, loopErrors, stopVars, historyVars,
                 tapsAfterLatch>>

Accept ==
  /\ pc = "accept"
  /\ \/ /\ tracker' = RecordTransition(CountSuccess(tracker))
        /\ CycleEnds
     \/ /\ StoreFails
        /\ tracker' = CountSuccess(tracker)
        /\ CycleRaises
  /\ UNCHANGED <<gameVars, reserved, recoveryPending, stopVars, started, ours, owed,
                 tapsAfterLatch>>

-----------------------------------------------------------------------------
(* Errors, interrupts and crashes.                                         *)

\* Mutant: the errors in a row are not counted.
LoopError_Uncounted ==
  /\ pc = "erring"
  /\ pc' = "ready"
  /\ UNCHANGED <<gameVars, cycleVars, tap, effect, reserved, trackVars, loopErrors, stopVars,
                 started, ours, owed, tapsAfterLatch>>

\* run()'s except clause: below the limit the loop goes on, at the limit it stops.
\* It records no sample: the write of the cycle that raised never gets one.
LoopError ==
  /\ pc = "erring"
  /\ loopErrors' = loopErrors + 1
  /\ pc' = IF loopErrors + 1 >= MaxLoopErrors THEN "stopped" ELSE "ready"
  /\ UNCHANGED <<gameVars, cycleVars, tap, effect, reserved, trackVars, stopVars, started,
                 ours, owed, tapsAfterLatch>>

\* The tick() of the except clause raises in its turn: run() is left.
LoopEscapes ==
  /\ pc = "erring"
  /\ StoreFails
  /\ pc' = "stopped"
  /\ UNCHANGED <<gameVars, cycleVars, tap, effect, reserved, trackVars, loopErrors, stopVars,
                 started, ours, owed, tapsAfterLatch>>

Running == pc \notin {"stopped", "down"}

\* Ctrl-C at any point: the writer is cancelled, a queued tap is dropped.
Interrupt ==
  /\ "interrupt" \in Environment
  /\ Running /\ pc # "interrupted"
  /\ pc' = "interrupted"
  /\ tap' = IF tap = "queued" THEN "cancelled" ELSE tap
  /\ UNCHANGED <<gameVars, cycleVars, reserved, trackVars, loopErrors, stopVars,
                 historyVars, owed, tapsAfterLatch>>

\* drain() returned: run() leaves its loop.
InterruptDrained ==
  /\ pc = "interrupted"
  /\ tap # "running"
  /\ pc' = "stopped"
  /\ UNCHANGED <<gameVars, cycleVars, tap, reserved, trackVars, loopErrors, stopVars,
                 historyVars, owed, tapsAfterLatch>>

\* The process dies: what was in memory is gone, and of the evidence what was
\* not saved; the store keeps the quota; a tap under way may still land.
Crash ==
  /\ "crash" \in Environment
  /\ Running
  /\ pc' = "down"
  /\ IF tap = "running" THEN Hit \/ Missed ELSE Missed
  /\ tap' = "none"
  /\ \E p \in 0 .. tracker.produce, c \in 0 .. tracker.collect,
        t \in SUBSET tracker.transitions, b, r \in BOOLEAN :
       /\ b => tracker.blocked
       /\ r => tracker.recovered /\ b
       /\ tracker' = [produce |-> p, collect |-> c, transitions |-> t,
                      blocked |-> b, recovered |-> r]
  /\ recoveryPending' = FALSE
  /\ UNCHANGED <<cycleVars, reserved, loopErrors, stopVars, owed, tapsAfterLatch>>

\* A new process over the same store.
Restart ==
  /\ pc = "down"
  /\ pc' = "ready"
  /\ before' = NoFrame /\ after' = NoFrame /\ action' = "none" /\ effect' = "none"
  /\ loopErrors' = 0
  /\ latched' = FALSE /\ expired' = FALSE
  /\ owed' = FALSE
  /\ tapsAfterLatch' = 0
  /\ UNCHANGED <<gameVars, tap, reserved, trackVars, started, ours>>

-----------------------------------------------------------------------------
(* The surroundings.                                                       *)

\* trigger(): by the flag file, the hotkey or a caller.
Latch ==
  /\ Running
  /\ ~ latched
  /\ latched' = TRUE
  /\ UNCHANGED <<gameVars, pc, cycleVars, tap, reserved, trackVars, loopErrors, expired,
                 historyVars, owed, tapsAfterLatch>>

DeadlinePasses ==
  /\ Running
  /\ ~ expired
  /\ expired' = TRUE
  /\ UNCHANGED <<gameVars, pc, cycleVars, tap, reserved, trackVars, loopErrors, latched,
                 historyVars, owed, tapsAfterLatch>>

\* An item takes longer to produce than a cycle takes from its tap to its fresh
\* frame, unless "fastfinish".
Finishes ==
  /\ factory = "PRODUCING"
  /\ "fastfinish" \in Environment \/ effect # "started"
  /\ factory' = "COMPLETED"
  /\ UNCHANGED <<screen, used, pc, cycleVars, tap, reserved, trackVars, loopErrors,
                 stopVars, historyVars, owed, tapsAfterLatch>>

\* The player clears the warehouse by hand.
PlayerClears ==
  /\ "player" \in Environment
  /\ used > 0
  /\ used' \in 0 .. used - 1
  /\ UNCHANGED <<screen, factory, pc, cycleVars, tap, reserved, trackVars, loopErrors,
                 stopVars, historyVars, owed, tapsAfterLatch>>

\* A popup hides the screen, or the game goes back to the city or the factory.
ScreenChanges ==
  /\ "popup" \in Environment
  /\ screen' \in {"CITY", "FACTORY", "OTHER"} \ {screen}
  /\ UNCHANGED <<factory, used, pc, cycleVars, tap, reserved, trackVars, loopErrors,
                 stopVars, historyVars, owed, tapsAfterLatch>>

Terminated == pc = "stopped" /\ UNCHANGED loopVars

-----------------------------------------------------------------------------

MainStep ==
  \/ BeginCycle \/ Observe \/ PhaseFails \/ TickRaises \/ NoAction \/ NeedsHuman \/ Approve
  \/ CheckAgain \/ Execute \/ ExecuteFails \/ Result \/ WriteFailed
  \/ Reobserve \/ ReobserveFails \/ NotFresh \/ VerifyFails \/ VerifyRaises
  \/ VerifyPasses \/ Accept \/ LoopError \/ LoopEscapes \/ InterruptDrained

WriterStep == TapBegins \/ TapEnds

Next ==
  \/ MainStep
  \/ WriterStep
  \/ Timeout \/ Interrupt \/ Crash \/ Restart
  \/ Latch \/ DeadlinePasses \/ Finishes \/ PlayerClears \/ ScreenChanges
  \/ Terminated

Spec == Init /\ [][Next]_loopVars

\* The main thread is scheduled, and each adb call has a timeout of its own.
FairSpec == Spec /\ WF_loopVars(MainStep) /\ WF_loopVars(WriterStep)

-----------------------------------------------------------------------------
(* Properties                                                              *)

GameTypes ==
  /\ screen \in {"CITY", "FACTORY", "OTHER"}
  /\ factory \in {"IDLE", "PRODUCING", "COMPLETED"}
  /\ used \in 0 .. Capacity

CycleTypes ==
  /\ pc \in {"ready", "observe", "plan", "approved", "execute", "await", "draining",
             "reobserve", "verify", "accept", "erring", "interrupted", "stopped", "down"}
  /\ action \in {"none", "enter_factory", "collect", "produce"}
  /\ tap \in {"none", "queued", "running", "done", "failed", "cancelled"}
  /\ effect \in {"none", "collected", "started"}

FrameTypes ==
  /\ before \in Frame \union {NoFrame}
  /\ after \in Frame \union {NoFrame}

CounterTypes ==
  /\ reserved \in 0 .. Cap
  /\ started \in 0 .. Cap + 1
  /\ loopErrors \in 0 .. MaxLoopErrors
  /\ tapsAfterLatch \in 0 .. 2

FlagTypes ==
  /\ latched \in BOOLEAN
  /\ expired \in BOOLEAN
  /\ ours \in BOOLEAN
  /\ owed \in BOOLEAN

TrackTypes ==
  /\ tracker \in Tracker
  /\ recoveryPending \in BOOLEAN

\* Each variable has its type.
LoopTypeOK ==
  GameTypes /\ CycleTypes /\ FrameTypes /\ CounterTypes /\ FlagTypes /\ TrackTypes

\* The persistent quota never counts fewer items than the game really started in
\* this session, and so the session cap holds, whatever times out, is missed,
\* interrupted or lost in a crash ("crashes/ambiguous timeouts can never
\* under-count production and bypass persistent session caps", v0.py:180-181).
SessionCapHolds == started <= reserved /\ reserved <= Cap

\* After the latch is set at most one more write begins: the one the cycle had
\* already been cleared for (orchestrator.py:215-217, 283-285; README.md:335).
OneWriteAfterLatch == tapsAfterLatch <= 1

\* When the loop starts its next cycle, every write it submitted has its sample
\* in the rate windows: the Keeper cannot be blind to a write (orchestrator.py:
\* 300-305, 323-328, 348-353, 363-368, 381-386).  Only a failing store excuses
\* it: when a save or release_output raises after the write, run_once is left
\* before record_action, and run()'s except clause records nothing.
WritesAreRecorded == pc \in {"ready", "observe", "plan", "approved", "execute"} => ~ owed

\* The acceptance evidence is earned: a production or a collection is counted,
\* and its transition recorded, only in a cycle whose own tap really did it, and
\* recovery only after the block was seen and space was free (orchestrator.py:
\* 378-398, 604-640).
EvidenceIsEarned ==
  [][ /\ tracker'.produce > tracker.produce => effect = "started"
      /\ tracker'.collect > tracker.collect => effect = "collected"
      /\ <<"IDLE", "PRODUCING">> \in tracker'.transitions \ tracker.transitions
           => effect = "started"
      /\ tracker'.recovered /\ ~ tracker.recovered
           => tracker.blocked /\ used < Capacity ]_loopVars

\* The only transitions ever recorded are those a verified tap makes, so two of
\* the four that acceptance.py:7-12 requires, PRODUCING->COMPLETED_COLLECTABLE and
\* COLLECTED->IDLE, never are (orchestrator.py:635-640).
OnlyTapTransitions ==
  \A t \in tracker.transitions : t[1] \in {"IDLE", "COMPLETED_COLLECTABLE"}

\* A production is started only while the item it yields can be collected when it
\* is finished: the loop does not block itself on the warehouse (v0_policy.py:14,
\* 58-64).
CollectsWhatItStarts ==
  Margin <= Reserve /\ ours => Capacity - used >= 1 + Margin

\* Once the stop is latched or the deadline has passed, the loop comes to an end
\* (orchestrator.py:215, 436, 441).
StopsWhenAsked == (latched \/ expired) ~> pc \in {"stopped", "down"}

-----------------------------------------------------------------------------
(* The inductive invariants.  LoopInv and EarnedInv hold whatever the       *)
(* surroundings do, QuotaInv when the readings are exact.                   *)

BeforeTheWrite == {"ready", "observe", "plan", "approved", "execute"}

\* Where the loop is, and what it holds there.
Phases ==
  /\ pc \in BeforeTheWrite \union {"erring"} => tap = "none" /\ effect = "none"
  /\ pc \in {"ready", "observe", "plan", "erring"} => action = "none"
  /\ pc = "down" => tap = "none"
  /\ tap \in {"queued", "running"} => effect = "none"
  /\ pc \in {"reobserve", "verify", "accept"} => tap = "done"
  /\ pc \in {"plan", "approved", "execute", "await", "draining", "reobserve", "verify",
            "accept"} => before # NoFrame
  /\ pc \in {"verify", "accept"} => after # NoFrame
  /\ pc # "stopped" => loopErrors < MaxLoopErrors

\* What the cycle saw when it planned its action, and what the quota allows it.
Plans ==
  /\ action # "none" => before # NoFrame
  /\ action = "enter_factory" => before.screen = "CITY"
  /\ action = "collect" => before.factory = "COMPLETED_COLLECTABLE" /\ before.storage.read
  /\ action = "produce" =>
       /\ before.factory = "IDLE"
       /\ before.storage.read /\ Capacity - before.storage.used > Reserve
  /\ action = "produce" /\ pc \in {"approved", "execute"} => reserved < Cap

LoopInv == LoopTypeOK /\ Phases /\ Plans

\* What the frame the cycle planned on still tells of the game: only the cycle's
\* own tap fills the warehouse, and only its own production leaves the idle state.
StillTrue ==
  before # NoFrame =>
    /\ before.screen = "CITY" => before.factory = "UNKNOWN"
    /\ before.storage.read /\ effect # "collected" => used <= before.storage.used
    /\ before.factory = "IDLE" /\ effect # "started" => factory = "IDLE"

\* What the fresh frame proves about the tap.
Proves ==
  /\ pc \in {"verify", "accept"} =>
       /\ after.storage.read => used <= after.storage.used
       /\ before.factory = "IDLE" /\ after.factory = "PRODUCING" => effect = "started"
       /\ before.storage.read /\ after.storage.read /\ effect # "collected"
            => after.storage.used <= before.storage.used
  /\ pc = "accept" => Verdict = "PASS"

\* The evidence is earned and what was started can be collected, on any readings.
EarnedInv ==
  /\ LoopInv /\ StillTrue /\ Proves
  /\ recoveryPending => tracker.blocked
  /\ OnlyTapTransitions
  /\ CollectsWhatItStarts

ExactReadings ==
  Environment \intersect {"ambiguous", "lag", "fastfinish", "popup"} = {}

\* A production between its write and its verification: it has a reservation, and
\* once the game has started it the loop sees it.
Production ==
  /\ action = "produce" /\ tap # "none" /\ effect # "started" => started < reserved
  /\ effect = "started" =>
       action = "produce" /\ screen = "FACTORY" /\ factory = "PRODUCING"
  /\ effect = "started" /\ pc = "verify" => after.factory = "PRODUCING"

\* The quota is charged before the write and given back only when the fresh frame
\* shows the factory without its production (v0.py:179-197).
QuotaInv == LoopInv /\ SessionCapHolds /\ Production

-----------------------------------------------------------------------------
(* The inductive invariants behind OneWriteAfterLatch and WritesAreRecorded, *)
(* whatever the surroundings do.                                            *)

\* Once a write has begun after the latch, none waits and the loop is not about
\* to submit one.
LatchInv ==
  /\ pc \in BeforeTheWrite \union {"erring", "down"} => tap = "none"
  /\ tapsAfterLatch \in {0, 1}
  /\ tapsAfterLatch = 1 => latched /\ pc # "execute" /\ tap # "queued"

\* A write that has no sample yet is this cycle's, and a production that is being
\* verified still has its reservation, so that only the store can make it raise.
RecordInv ==
  /\ pc \in BeforeTheWrite \union {"accept", "erring"} => owed = FALSE
  /\ reserved \in Nat
  /\ action = "produce" /\ pc \in {"await", "reobserve", "verify"} => reserved > 0
=============================================================================
