---------------------------- MODULE WriterSession ---------------------------
(***************************************************************************)
(* The writer queue as the program uses it: one main thread, the loop of   *)
(* V0Orchestrator, submits one command, waits for its future with a        *)
(* timeout, and on a timeout cancels the future, cancels the queue, drains *)
(* it and reopens it (orchestrator.py:287-315).  A Ctrl-C is handled by    *)
(* cancelling and draining for good (547-563), the emergency stop by       *)
(* cancelling (529-545), and run_app closes the queue when the loop is     *)
(* left (app.py:154-161).  AppRun puts the process around it.              *)
(*                                                                         *)
(* Every action of the main thread is one of CommandQueue's, guarded by    *)
(* the point the main thread has reached.                                  *)
(***************************************************************************)
EXTENDS CommandQueue

CONSTANT MaxLoopErrors     \* max_consecutive_loop_errors of run()

ASSUME SessionAssumption == MaxLoopErrors \in Nat \ {0}

VARIABLES
  main,     \* where the main thread is
  job,      \* the command of the current cycle
  outer,    \* a Ctrl-C is handled by run(), no longer by run_once()
  errors,   \* consecutive_loop_errors
  halted    \* an emergency stop, a Ctrl-C or the error limit was handled

sessionVars == <<vars, main, job, outer, errors, halted>>

MainState == {"idle", "planning", "cleared", "submitting", "waiting", "expired",
              "cancelling", "draining", "reopening", "unwinding", "recording",
              "interrupted", "flushing", "stopped", "aborted", "closed"}

SessionInit ==
  /\ Init
  /\ main = "idle"
  /\ job = NoCommand
  /\ outer = FALSE
  /\ errors = 0
  /\ halted = FALSE

-----------------------------------------------------------------------------
(* One cycle's write: action.execute(writer), future.result(timeout).      *)

\* The first _check_emergency_stop() of a cycle found nothing.
BeginCycle ==
  /\ main = "idle"
  /\ main' = "planning"
  /\ UNCHANGED <<vars, job, outer, errors, halted>>

\* The second _check_emergency_stop() of a cycle that has an action to execute
\* found nothing; the tick(EXECUTE) follows.
Cleared ==
  /\ main = "planning"
  /\ \E c \in Command : call[c] = "new"
  /\ main' = "cleared"
  /\ UNCHANGED <<vars, job, outer, errors, halted>>

Execute(c) ==
  /\ main = "cleared"
  /\ SubmitCheck(c)
  /\ main' = "submitting"
  /\ job' = c
  /\ UNCHANGED <<outer, errors, halted>>

Submitting ==
  /\ main = "submitting"
  /\ SubmitNumber(job) \/ SubmitPut(job)
  /\ UNCHANGED <<main, job, outer, errors, halted>>

\* submit() returned a future, or raised: the cycle has failed.
Submitted ==
  /\ main = "submitting"
  /\ \/ call[job] = "accepted" /\ main' = "waiting"
     \/ call[job] = "refused" /\ main' = "recording"
  /\ UNCHANGED <<vars, job, outer, errors, halted>>

\* future.result() returns or raises what the command raised.
Result ==
  /\ main = "waiting"
  /\ future[job] \in DoneState
  /\ main' = "recording"
  /\ UNCHANGED <<vars, job, outer, errors, halted>>

Timeout ==
  /\ main = "waiting"
  /\ future[job] \notin DoneState
  /\ main' = "expired"
  /\ UNCHANGED <<vars, job, outer, errors, halted>>

TimeoutCancelFuture ==
  /\ main = "expired"
  /\ CancelFuture(job)
  /\ main' = "cancelling"
  /\ UNCHANGED <<job, outer, errors, halted>>

TimeoutRequestCancel ==
  /\ main = "cancelling"
  /\ RequestCancel
  /\ main' = "draining"
  /\ UNCHANGED <<job, outer, errors, halted>>

\* Mutant: the timeout path reopens without waiting for the worker.
Drained_NotAwaited == TRUE

\* drain(): _queue.join() returns.
Drained == unfinished = 0

TimeoutDrain ==
  /\ main = "draining"
  /\ Drained
  /\ main' = "reopening"
  /\ UNCHANGED <<vars, job, outer, errors, halted>>

\* The finally clause; on an interrupt of drain() it runs as well.
Reopen ==
  /\ main \in {"reopening", "unwinding"}
  /\ \/ ClearCheck /\ UNCHANGED <<main, outer>>
     \/ /\ ClearCancel
        /\ \/ main = "unwinding" /\ main' = "interrupted" /\ outer' = TRUE
           \/ main = "reopening" /\ main' = "recording" /\ UNCHANGED outer
  /\ UNCHANGED <<job, errors, halted>>

-----------------------------------------------------------------------------
(* The end of a cycle.  Its ticks and records may raise, out of run_once():*)
(* run() counts it and goes on, cancels the writer at its limit, or is     *)
(* left by its own tick(RECOVER).                                          *)

ErrorLimit == errors + 1 >= MaxLoopErrors

CycleRaises ==
  /\ main \in {"planning", "cleared", "recording"}
  /\ errors' = errors + 1
  /\ \/ ~ ErrorLimit /\ main' = "idle" /\ UNCHANGED <<vars, halted>>
     \/ main' = "stopped" /\ UNCHANGED <<vars, halted>>
     \/ ErrorLimit /\ main' = "stopped" /\ RequestCancel /\ halted' = TRUE
  /\ UNCHANGED <<job, outer>>

\* Also a cycle that had nothing to execute, or failed before it could.
CycleReturns ==
  /\ main \in {"planning", "recording"}
  /\ main' = "idle"
  /\ errors' = 0
  /\ UNCHANGED <<vars, job, outer, halted>>

\* The Keeper wants a human: run() breaks off.
NeedsHuman ==
  /\ main = "planning"
  /\ main' = "stopped"
  /\ UNCHANGED <<vars, job, outer, errors, halted>>

-----------------------------------------------------------------------------
(* Ctrl-C, the emergency stop and the end of the run.                      *)

\* run_once() handles a Ctrl-C that hits its try blocks, run() one that hits the
\* rest of the cycle, the pause after it, or a handler of run_once(); one that
\* hits a handler of run(), or its loop outside the try, leaves the loop.
Interrupt ==
  /\ \/ /\ main \in {"idle", "planning", "cleared", "recording"}
        /\ main' = "interrupted"
        /\ outer' \in IF main = "idle" THEN {TRUE} ELSE BOOLEAN
        /\ UNCHANGED vars
     \/ /\ main \in {"submitting", "waiting"}
        /\ main' = "interrupted"
        /\ IF call[job] \in {"checked", "numbered"} THEN SubmitAbandon(job) ELSE UNCHANGED vars
        /\ UNCHANGED outer
     \/ /\ main = "draining"
        /\ main' = "unwinding"
        /\ UNCHANGED <<vars, outer>>
     \/ /\ \/ main \in {"expired", "cancelling", "reopening", "unwinding"}
           \/ main \in {"interrupted", "flushing"} /\ ~ outer
        /\ main' = "interrupted"
        /\ outer' = TRUE
        /\ UNCHANGED vars
     \/ /\ \/ main = "idle"
           \/ main \in {"interrupted", "flushing"} /\ outer
        /\ main' = "aborted"
        /\ UNCHANGED <<vars, outer>>
  /\ UNCHANGED <<job, errors, halted>>

\* Mutant: the handler only drains.
InterruptCancel_Dropped ==
  /\ main = "interrupted"
  /\ main' = "flushing"
  /\ UNCHANGED <<vars, job, outer, errors, halted>>

InterruptCancel ==
  /\ main = "interrupted"
  /\ RequestCancel
  /\ main' = "flushing"
  /\ UNCHANGED <<job, outer, errors, halted>>

\* Mutant: the handler does not wait for the write that is under way.
InterruptDrain_NotAwaited ==
  /\ main = "flushing"
  /\ halted' = TRUE
  /\ main' = "stopped"
  /\ UNCHANGED <<vars, job, outer, errors>>

\* The handler's own tick and flush may raise: out of run_once() that is one
\* more loop error, and the loop goes on with its writer cancelled.
InterruptDrain ==
  /\ main = "flushing"
  /\ Drained
  /\ halted' = TRUE
  /\ \/ main' = "stopped" /\ UNCHANGED errors
     \/ /\ ~ outer
        /\ errors' = errors + 1
        /\ main' = IF ErrorLimit THEN "stopped" ELSE "idle"
  /\ UNCHANGED <<vars, job, outer>>

\* _check_emergency_stop finds the latch set; its tick may raise.
EmergencyStop ==
  /\ main \in {"idle", "planning"}
  /\ RequestCancel
  /\ halted' = TRUE
  /\ \/ main' = "stopped" /\ UNCHANGED errors
     \/ /\ errors' = errors + 1
        /\ main' = IF ErrorLimit THEN "stopped" ELSE "idle"
  /\ UNCHANGED <<job, outer>>

\* The deadline of run_for has passed.
RunEnds ==
  /\ main = "idle"
  /\ main' = "stopped"
  /\ UNCHANGED <<vars, job, outer, errors, halted>>

\* run_app's finally: command_queue.close(cancel_pending=True).
Close ==
  /\ main \in {"stopped", "aborted"}
  /\ \/ CloseFlag /\ UNCHANGED main
     \/ CloseCancel /\ UNCHANGED main
     \/ ClosePost /\ main' = "closed"
  /\ UNCHANGED <<job, outer, errors, halted>>

WorkerRuns == WorkerStep /\ UNCHANGED <<main, job, outer, errors, halted>>

-----------------------------------------------------------------------------

\* What the main thread does on its own inside a cycle and in its handlers.
LoopStep ==
  \/ \E c \in Command : Execute(c)
  \/ Submitting \/ Submitted \/ Result
  \/ TimeoutCancelFuture \/ TimeoutRequestCancel \/ TimeoutDrain \/ Reopen
  \/ CycleReturns \/ InterruptCancel \/ InterruptDrain

-----------------------------------------------------------------------------
(* Properties, checked of the whole process in AppRun.                     *)

\* Between two cycles, and once the run has stopped, no command of an earlier
\* cycle can still reach the device: a write that timed out never lands on top of
\* the next observation (orchestrator.py:292-299).
NoLateWrite ==
  main \in {"idle", "planning", "cleared", "recording", "stopped"} =>
    \A c \in Command : future[c] \notin {"pending", "running"}

\* The order in which the timeout path cancels (the future first, the queue
\* second, orchestrator.py:294-295) never lets the worker meet a future that was
\* cancelled behind its back, which would end the thread (command_queue.py:130-132).
WorkerSurvives == worker # "dead"

\* After an emergency stop, a Ctrl-C or the error limit the writer stays cancelled,
\* also when the Ctrl-C arrives while the timeout path is about to reopen it, and
\* when the handler fails and the loop goes on (README.md:335,
\* orchestrator.py:298-299, 453-455, 551-556).
HaltedStaysCancelled == halted => cancelRequested
=============================================================================
