------------------------------- MODULE AppRun -------------------------------
(***************************************************************************)
(* One run of the program, from run_app()'s first line to the end of its   *)
(* finally clause (runtime/app.py:46-188): the device is validated, with   *)
(* one restart of the adb server, the writer queue, the metrics with their *)
(* lease and the emergency stop's watchers are made, the loop runs         *)
(* (WriterSession), and what was made is closed in order.                  *)
(*                                                                         *)
(* Beside the main thread and the queue's worker there is the emergency    *)
(* stop's watcher (runtime/emergency_stop.py).  The operator can put the   *)
(* stop file, press the hotkey, and press Ctrl-C MaxPresses times at any   *)
(* moment.  Every call of the store may raise.                             *)
(***************************************************************************)
EXTENDS WriterSession

CONSTANT MaxPresses

ASSUME AppAssumption == MaxPresses \in Nat

VARIABLES
  stage,     \* where run_app() is
  made,      \* what its finally clause has to close
  lease,     \* this process's row of the metrics lease: "none", "held", "released"
  flag,      \* the stop file exists
  latched,   \* EmergencyStop._event
  watcher,   \* the thread of EmergencyStop: "none", "watching", "shutdown", "ended"
  expired,   \* the deadline of run_for has passed
  presses,   \* history: how often Ctrl-C was pressed
  cause,     \* history: what may have left the lease row, or a write, behind
  exit       \* the process's exit status, "none" while it runs

appOnly == <<stage, made, lease, flag, latched, watcher, expired, presses, cause, exit>>
appVars == <<sessionVars, appOnly>>

StartStage == {"device", "recover", "version", "queue", "lease", "load", "watch"}
EndStage   == {"unwatch", "close", "join", "release", "store"}

AppInit ==
  /\ SessionInit
  /\ stage = "device"
  /\ made = {}
  /\ lease = "none"
  /\ flag \in BOOLEAN
  /\ latched = FALSE
  /\ watcher = "none"
  /\ expired = FALSE
  /\ presses = 0
  /\ cause = {}
  /\ exit = "none"

-----------------------------------------------------------------------------
(* The start: each step leads to the next or raises into the finally.      *)

\* What the first exception decides: main() turns it into 2, a Ctrl-C goes through.
Leave(status) ==
  /\ stage' = "unwatch"
  /\ exit' = status

ToStage(next) ==
  /\ stage' = next
  /\ UNCHANGED exit

\* wait_for_device(10): not in time, or adb itself fails; both are an AdbError.
WaitForDevice ==
  /\ stage = "device"
  /\ ToStage("version") \/ ToStage("recover")
  /\ UNCHANGED <<sessionVars, made, lease, flag, latched, watcher, expired, presses, cause>>

\* kill-server, start-server, connect, wait again.
RecoverAdbServer ==
  /\ stage = "recover"
  /\ ToStage("version") \/ Leave("failed")
  /\ UNCHANGED <<sessionVars, made, lease, flag, latched, watcher, expired, presses, cause>>

CheckGameVersion ==
  /\ stage = "version"
  /\ ToStage("queue") \/ Leave("failed")
  /\ UNCHANGED <<sessionVars, made, lease, flag, latched, watcher, expired, presses, cause>>

MakeQueue ==
  /\ stage = "queue"
  /\ ToStage("lease")
  /\ made' = made \union {"queue"}
  /\ UNCHANGED <<sessionVars, lease, flag, latched, watcher, expired, presses, cause>>

\* RuntimeMetrics(): the lease is taken, or another process has it.
AcquireLease ==
  /\ stage = "lease"
  /\ \/ ToStage("load") /\ lease' = "held"
     \/ Leave("failed") /\ UNCHANGED lease
  /\ UNCHANGED <<sessionVars, made, flag, latched, watcher, expired, presses, cause>>

\* Then the evidence is loaded; run_app has no metrics to close before that returns.
LoadAcceptance ==
  /\ stage = "load"
  /\ \/ /\ ToStage("watch")
        /\ made' = made \union {"metrics"}
        /\ UNCHANGED cause
     \/ /\ Leave("failed")
        /\ cause' = cause \union {"load"}
        /\ UNCHANGED made
  /\ UNCHANGED <<sessionVars, lease, flag, latched, watcher, expired, presses>>

\* The readers, the planner, the Keeper, then start_watchers().
StartWatchers ==
  /\ stage = "watch"
  /\ \/ /\ ToStage("run")
        /\ watcher' = "watching"
        /\ made' = made \union {"watcher"}
     \/ Leave("failed") /\ UNCHANGED <<watcher, made>>
  /\ UNCHANGED <<sessionVars, lease, flag, latched, expired, presses, cause>>

Startup ==
  \/ WaitForDevice \/ RecoverAdbServer \/ CheckGameVersion \/ MakeQueue
  \/ AcquireLease \/ LoadAcceptance \/ StartWatchers

-----------------------------------------------------------------------------
(* The emergency stop.                                                     *)

\* Mutant: the watcher looks once and leaves its loop.
Watch_Once ==
  /\ watcher = "watching"
  /\ latched' = (latched \/ flag)
  /\ watcher' = "ended"
  /\ UNCHANGED <<sessionVars, stage, made, lease, flag, expired, presses, cause, exit>>

\* _watch_flag: one turn, which ends the thread once close() asked for it.
Watch ==
  /\ stage # "ended"
  /\ \/ /\ watcher = "watching"
        /\ flag
        /\ ~ latched
        /\ latched' = TRUE
        /\ UNCHANGED watcher
     \/ /\ watcher = "shutdown"
        /\ watcher' = "ended"
        /\ UNCHANGED latched
  /\ UNCHANGED <<sessionVars, stage, made, lease, flag, expired, presses, cause, exit>>

\* Ctrl+Alt+F12, where it could be registered.
Hotkey ==
  /\ watcher = "watching"
  /\ ~ latched
  /\ stage # "ended"
  /\ latched' = TRUE
  /\ UNCHANGED <<sessionVars, stage, made, lease, flag, watcher, expired, presses, cause, exit>>

PutStopFile ==
  /\ stage # "ended"
  /\ ~ flag
  /\ flag' = TRUE
  /\ UNCHANGED <<sessionVars, stage, made, lease, latched, watcher, expired, presses, cause, exit>>

\* Nothing latched was seen by the check that guards the next step of the cycle.
StopNotSeen == ~ latched

-----------------------------------------------------------------------------
(* The loop: WriterSession, and what its end makes of the exit status.     *)

TimePasses ==
  /\ stage = "run"
  /\ ~ expired
  /\ expired' = TRUE
  /\ UNCHANGED <<sessionVars, stage, made, lease, flag, latched, watcher, presses, cause, exit>>

\* _may_continue(), then the emergency stop's two checks.
CheckedCycle ==
  \/ ~ expired /\ StopNotSeen /\ BeginCycle
  \/ StopNotSeen /\ Cleared

CheckedStop ==
  /\ latched
  /\ main = "idle" => ~ expired
  /\ EmergencyStop

\* While the loop goes on.
Continue(A) ==
  /\ stage = "run"
  /\ A
  /\ main' \notin {"stopped", "aborted"}
  /\ UNCHANGED appOnly

\* The loop is left with this status, or after too many errors; run_for's finally
\* ticks and flushes, and an exception of theirs takes the status's place.
LeaveLoop(A, status) ==
  /\ stage = "run"
  /\ A
  /\ main' \in {"stopped", "aborted"}
  /\ Leave("raised") \/ Leave(IF errors' = errors THEN status ELSE "failed")
  /\ UNCHANGED <<made, lease, flag, latched, watcher, expired, presses, cause>>

Loop ==
  \/ Continue(CheckedCycle \/ CheckedStop \/ LoopStep \/ Timeout \/ CycleRaises)
  \/ LeaveLoop(CheckedStop \/ InterruptDrain, "emergency")
  \/ LeaveLoop(CycleRaises, "failed")
  \/ LeaveLoop(NeedsHuman, "ok")
  \/ \E status \in {"ok", "failed"} : LeaveLoop(expired /\ RunEnds, status)

-----------------------------------------------------------------------------
(* The finally clause.                                                     *)

\* emergency_stop.close(): asks the watcher to end and waits a second for it.
Unwatch ==
  /\ stage = "unwatch"
  /\ IF "watcher" \notin made
       THEN UNCHANGED watcher
       ELSE watcher' = "shutdown"
  /\ stage' = IF "queue" \in made THEN "close" ELSE "store"
  /\ UNCHANGED <<sessionVars, made, lease, flag, latched, expired, presses, cause, exit>>

\* command_queue.close(): before the loop began the main thread counts as idle.
CloseQueue ==
  /\ stage = "close"
  /\ \/ main = "idle" /\ RunEnds /\ UNCHANGED stage
     \/ Close /\ stage' = IF main' = "closed" THEN "join" ELSE stage
  /\ UNCHANGED <<made, lease, flag, latched, watcher, expired, presses, cause, exit>>

\* join(timeout=5): the worker ends at once, unless it is inside an adb call.
JoinWorker ==
  /\ stage = "join"
  /\ worker \in {"exited", "running"}
  /\ stage' = "release"
  /\ UNCHANGED <<sessionVars, made, lease, flag, latched, watcher, expired, presses, cause, exit>>

\* Mutant: a failing save skips the release.
ReleaseLease_SaveFirst ==
  /\ stage = "release"
  /\ \/ "metrics" \in made /\ lease' = "released" /\ stage' = "store"
     \/ "metrics" \in made /\ UNCHANGED lease /\ stage' = "ended"
     \/ "metrics" \notin made /\ UNCHANGED lease /\ stage' = "store"
  /\ UNCHANGED <<sessionVars, made, flag, latched, watcher, expired, presses, cause, exit>>

\* metrics.close(): saves, and releases whether or not that raised; if either
\* raised, store.close() is not reached.
ReleaseLease ==
  /\ stage = "release"
  /\ \/ /\ "metrics" \notin made
        /\ stage' = "store"
        /\ UNCHANGED <<lease, cause, exit>>
     \/ /\ "metrics" \in made
        /\ lease' = "released"
        /\ \/ stage' = "store" /\ UNCHANGED exit
           \/ stage' = "ended" /\ exit' = "raised"
        /\ UNCHANGED cause
     \/ /\ "metrics" \in made
        /\ cause' = cause \union {"release"}
        /\ stage' = "ended"
        /\ exit' = "raised"
        /\ UNCHANGED lease
  /\ UNCHANGED <<sessionVars, made, flag, latched, watcher, expired, presses>>

CloseStore ==
  /\ stage = "store"
  /\ stage' = "ended"
  /\ UNCHANGED <<sessionVars, made, lease, flag, latched, watcher, expired, presses, cause, exit>>

Shutdown == Unwatch \/ CloseQueue \/ JoinWorker \/ ReleaseLease \/ CloseStore

-----------------------------------------------------------------------------
(* Ctrl-C.                                                                 *)

Pressed ==
  /\ presses < MaxPresses
  /\ presses' = presses + 1

PressCtrlC ==
  /\ Pressed
  /\ \/ /\ stage \in StartStage
        /\ Leave("interrupt")
        /\ cause' = IF stage = "load" THEN cause \union {"press"} ELSE cause
        /\ UNCHANGED sessionVars
     \/ /\ stage = "run"
        /\ Interrupt
        /\ IF main' = "aborted"
             THEN Leave("interrupt") \/ Leave("raised")
             ELSE UNCHANGED <<stage, exit>>
        /\ cause' = IF main # "idle" /\ main' = "aborted"
                      THEN cause \union {"handler"} ELSE cause
     \/ /\ stage \in EndStage
        /\ stage' = "ended"
        /\ exit' = "interrupt"
        /\ cause' = cause \union {"press"}
        /\ UNCHANGED sessionVars
  /\ UNCHANGED <<made, lease, flag, latched, watcher, expired>>

-----------------------------------------------------------------------------

\* The worker is a daemon thread: it ends with the process.
WorkerThread == stage # "ended" /\ WorkerRuns /\ UNCHANGED appOnly

Ended ==
  /\ stage = "ended"
  /\ UNCHANGED appVars

AppNext ==
  \/ Startup \/ Loop \/ Shutdown
  \/ WorkerThread \/ Watch
  \/ TimePasses \/ Hotkey \/ PutStopFile \/ PressCtrlC
  \/ Ended

MainThread == Startup \/ Loop \/ Shutdown

(***************************************************************************)
(* Fairness: the operating system schedules the three threads; every adb   *)
(* call of the worker ends by its subprocess timeout (device/adb.py:88).   *)
(* Nothing is assumed of the operator, and nothing of the deadline.        *)
(***************************************************************************)
AppSpec ==
  /\ AppInit
  /\ [][AppNext]_appVars
  /\ WF_appVars(MainThread)
  /\ WF_appVars(WorkerThread)
  /\ WF_appVars(Watch)

-----------------------------------------------------------------------------
(* Properties                                                              *)

\* Each variable has its type; the main thread waits only for a command it has had
\* accepted, and the loop runs only with the lease, the queue and the watcher made.
AppTypeOK ==
  /\ TypeOK
  /\ main \in MainState
  /\ job \in Command \union {NoCommand}
  /\ {outer, halted, flag, latched, expired} \subseteq BOOLEAN
  /\ errors \in 0 .. MaxLoopErrors
  /\ stage \in StartStage \union {"run"} \union EndStage \union {"ended"}
  /\ made \subseteq {"queue", "metrics", "watcher"}
  /\ lease \in {"none", "held", "released"}
  /\ watcher \in {"none", "watching", "shutdown", "ended"}
  /\ presses \in 0 .. MaxPresses
  /\ cause \subseteq {"load", "release", "press", "handler"}
  /\ exit \in {"none", "ok", "emergency", "failed", "raised", "interrupt"}
  /\ main \in {"waiting", "expired", "cancelling", "draining"} => call[job] = "accepted"
  /\ stage = "run" => made = {"queue", "metrics", "watcher"} /\ lease = "held"

\* However often Ctrl-C strikes, and wherever, an emergency stop, a failing store or
\* a failed start never give the lease of the device to the next process while a
\* write of this one is still under way (app.py:154-161, orchestrator.py:552-553):
\* only a Ctrl-C that cuts the drain of another one's handler short does.
LeaseCoversWrites ==
  worker = "running" /\ "handler" \notin cause => lease = "held"

\* The row of the lease stays behind, so that the next start is refused until it
\* expires, only when the evidence could not be loaded after it was taken
\* (metrics.py:104-111: run_app has no metrics to close yet), when the release
\* itself raised, or when a Ctrl-C struck there or in the finally clause
\* (app.py:154-161).  A save that raises does not prevent it (metrics.py:227-230).
LeaseGivenBack ==
  stage = "ended" /\ cause \subseteq {"handler"} => lease # "held"

\* A Ctrl-C whose handler failed in its own bookkeeping: the loop goes on.
Swallowed == stage = "run" /\ main = "idle" /\ halted

\* The stop file, put before the start or at any time, the hotkey and the deadline
\* each end the process, whatever the store, the device and the writer do; so does
\* Ctrl-C, unless its handler raises inside run_once() (orchestrator.py:551-556),
\* where it becomes a loop error (emergency_stop.py:107-111, app.py:143-161).
EndsWhenTold ==
  /\ flag \/ latched \/ expired ~> stage = "ended"
  /\ presses > 0 ~> stage = "ended" \/ Swallowed
=============================================================================
