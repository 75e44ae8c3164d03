---------------------------- MODULE AppRun_proofs ----------------------------
(***************************************************************************)
(* Theorems about AppRun, for any commands, queue size, error limit and    *)
(* number of presses of Ctrl-C: the process uses the queue as its threads  *)
(* may, so that the invariant of CommandQueue holds of it, and on that     *)
(* rests what its timeouts, interrupts and its end promise.                *)
(***************************************************************************)
EXTENDS AppRun, CommandQueue_proofs

Alive(c) == future[c] \in {"pending", "running"}

Settled == \A c \in Command : ~ Alive(c)

\* Where the main thread knows that nothing is under way.
Quiet == {"idle", "planning", "cleared", "recording", "reopening", "stopped"}

\* Where it waits for its command, or deals with the command's timeout.
Waits == {"waiting", "expired", "cancelling", "draining", "reopening", "unwinding"}

\* Where a Ctrl-C is being handled or the process is leaving.
Leaving == {"interrupted", "flushing", "aborted", "closed"}

SessionTypes ==
  /\ main \in MainState
  /\ job \in Command \union {NoCommand}
  /\ {outer, halted} \subseteq BOOLEAN
  /\ main \in Waits \union {"submitting"} => job \in Command
  /\ main \in Waits => call[job] = "accepted"

\* Only the command of the cycle can be under way.
OnlyJob ==
  /\ main \in Quiet => Settled
  /\ \A c \in Command \ {job} : ~ Alive(c)
  /\ main \in {"cancelling", "draining", "unwinding"} => future[job] # "pending"

\* When the writer is cancelled: never while a command of an open writer waits.
Cancelled ==
  /\ halted => cancelRequested /\ main \notin Waits
  /\ halted /\ main = "submitting" => call[job] = "refused"
  /\ main \in {"idle", "planning", "cleared", "submitting", "recording"} /\ ~ halted
       => ~ cancelRequested
  /\ main \in {"waiting", "expired", "cancelling"} => ~ cancelRequested
  /\ main = "flushing" => cancelRequested

\* Sequence numbers are new, so a command that waits is in order.
Numbers ==
  /\ lastCompleted < nextSeq
  /\ \A c \in Command : seqOf[c] < nextSeq
  /\ \A c \in Command : future[c] = "pending" => lastCompleted < seqOf[c]
  /\ main = "submitting" /\ call[job] = "numbered" => lastCompleted < seqOf[job]

\* The worker gives up a command that nobody can cancel behind its back.
WorkerSafe ==
  /\ worker \notin {"dying", "dead"}
  /\ worker = "failing" => future[current] \notin DoneState
  /\ worker \in {"raising", "failing"} /\ future[current] = "pending" => main \in Leaving

\* The process around it.
Around ==
  /\ stage # "run" => main \in {"idle", "stopped", "aborted", "closed"}
  /\ stage = "run" => main \notin {"stopped", "aborted", "closed"}
  /\ stage \in StartStage => main = "idle"
  /\ stage \in {"load", "watch", "run"} => lease = "held"
  /\ main \in {"aborted", "closed"} /\ "handler" \notin cause => Settled

\* The queue and its main thread.
SessionInv ==
  /\ IInv
  /\ SessionTypes
  /\ OnlyJob
  /\ Cancelled
  /\ Numbers
  /\ WorkerSafe

AppInv == SessionInv /\ Around

-----------------------------------------------------------------------------
(* What the queue's invariant tells the main thread.                       *)

\* The types the steps below use.
LEMMA QueueTypes ==
  ASSUME IInv
  PROVE  /\ call \in [Command -> CallState]
         /\ seqOf \in [Command -> Nat]
         /\ future \in [Command -> FutureState]
         /\ nextSeq \in Nat
         /\ lastCompleted \in Nat
         /\ cancelRequested \in BOOLEAN
         /\ worker \in WorkerState
         /\ current \in Command \union {NoCommand}
         /\ current = NoCommand <=> worker \in {"idle", "exited", "dead"}
         /\ current # NoCommand => future[current] \in HeldFuture
         /\ current # NoCommand => call[current] = "accepted"
  BY DEF IInv, TypeOK, Accounting, InHand

\* A command has a future exactly when its call was accepted.
LEMMA AcceptedHasFuture ==
  ASSUME IInv, NEW c \in Command
  PROVE  call[c] = "accepted" <=> future[c] # "none"
  <1>1. CASE call[c] # "accepted"
    BY <1>1 DEF IInv, NotYet
  <1>2. CASE call[c] = "accepted" /\ Taken < place[c]
    <2>1. /\ place[c] - Taken \in 1 .. Len(queue)
          /\ queue[place[c] - Taken] = c
      BY <1>2 DEF IInv, TypeOK, Behind, Taken, Accounting
    <2> QED
      BY <1>2, <2>1, QueueAssumption DEF IInv, InQueue
  <1>3. CASE call[c] = "accepted" /\ c = current
    BY <1>3, QueueAssumption DEF IInv, InHand, HeldFuture, DoneState
  <1>4. CASE call[c] = "accepted" /\ ~ (Taken < place[c]) /\ c # current
    <2>1. place[c] <= Taken
      BY <1>4 DEF IInv, TypeOK, Taken
    <2> QED
      BY <1>4, <2>1 DEF IInv, Behind, DoneState
  <1> QED
    BY <1>1, <1>2, <1>3, <1>4

\* When join() returns, nothing can reach the device (command_queue.py:136-137).
LEMMA DrainedSettles ==
  ASSUME IInv, unfinished = 0
  PROVE  Settled
  <1> SUFFICES ASSUME NEW c \in Command PROVE ~ Alive(c)
    BY DEF Settled
  <1>1. CASE call[c] # "accepted"
    BY <1>1 DEF IInv, NotYet, Alive
  <1>2. CASE call[c] = "accepted"
    <2>1. Len(queue) = 0 /\ current = NoCommand
      BY DEF IInv, TypeOK, Accounting
    <2>2. place[c] <= Taken
      BY <1>2, <2>1 DEF IInv, TypeOK, Behind, Taken
    <2>3. future[c] \in DoneState
      BY <1>2, <2>1, <2>2, QueueAssumption DEF IInv, Behind
    <2> QED
      BY <2>3 DEF Alive, DoneState
  <1> QED
    BY <1>1, <1>2

\* A command that runs is the one in hand, and it is under way.
LEMMA RunningIsAlive ==
  ASSUME IInv, worker = "running"
  PROVE  current \in Command /\ future[current] = "running" /\ ~ Settled
  BY QueueTypes DEF HeldFuture, Settled, Alive

-----------------------------------------------------------------------------
(* The initial states.                                                     *)

\* The process starts with a fresh queue and nothing under way (app.py:46-54).
LEMMA AppInitInv == AppInit => AppInv
  <1> SUFFICES ASSUME AppInit PROVE AppInv
    OBVIOUS
  <1> USE DEF AppInit, SessionInit
  <1>1. IInv
    BY InitInv
  <1>2. SessionTypes
    BY DEF SessionTypes, MainState, Waits
  <1>3. OnlyJob /\ Numbers /\ WorkerSafe
    BY DEF OnlyJob, Settled, Alive, Numbers, WorkerSafe, Init
  <1>4. Cancelled
    BY DEF Cancelled, Waits, Init
  <1>5. Around
    BY AppAssumption DEF Around
  <1> QED
    BY <1>1, <1>2, <1>3, <1>4, <1>5 DEF AppInv, SessionInv

-----------------------------------------------------------------------------
(* The worker.                                                             *)

\* No step of the worker brings a command under way, moves a call or a flag, or
\* touches the numbers that were given.
LEMMA WorkerCalms ==
  ASSUME IInv, WorkerStep
  PROVE  /\ UNCHANGED <<call, seqOf, nextSeq, cancelRequested>>
         /\ \A c \in Command : future'[c] = "pending" => future[c] = "pending"
         /\ \A c \in Command : Alive(c)' => Alive(c)
  <1>0. future \in [Command -> FutureState]
    BY QueueTypes
  <1>1. UNCHANGED <<call, seqOf, nextSeq, cancelRequested>>
    BY DEF WorkerStep, Get, CheckCancel, CheckOrder, Claim, FnReturns, FnRaises, TestDone,
           SetException, TaskDone, submitVars, flagVars
  <1>2. \A c \in Command :
          \/ future'[c] = future[c]
          \/ future'[c] \in {"finished", "failed"}
          \/ future[c] = "pending" /\ future'[c] = "running"
    <2>1. CASE Claim
      BY <1>0, <2>1 DEF Claim
    <2>2. CASE FnReturns \/ SetException
      BY <1>0, <2>2 DEF FnReturns, SetException
    <2>3. CASE \/ Get \/ CheckCancel \/ CheckOrder \/ FnRaises \/ TestDone \/ TaskDone
      BY <2>3 DEF Get, CheckCancel, CheckOrder, FnRaises, TestDone, TaskDone
    <2> QED
      BY <2>1, <2>2, <2>3 DEF WorkerStep
  <1> QED
    BY <1>1, <1>2 DEF Alive

\* The numbers the worker compares: only the completed one grows, and a command that
\* completes was the only one under way (command_queue.py:110-119, 128).
LEMMA WorkerNumbers ==
  ASSUME SessionInv, WorkerRuns
  PROVE  Numbers'
  <1> USE DEF SessionInv, WorkerRuns
  <1> USE QueueTypes, WorkerCalms
  <1>1. CASE lastCompleted' = lastCompleted
    BY <1>1 DEF Numbers
  <1>2. CASE FnReturns
    <2>1. /\ current \in Command
          /\ future[current] = "running"
          /\ call[current] = "accepted"
          /\ lastCompleted' = seqOf[current]
      BY <1>2, RunningIsAlive, QueueAssumption DEF FnReturns
    <2>2. current = job
      BY <2>1 DEF OnlyJob, Alive
    <2>3. \A c \in Command : future'[c] # "pending"
      BY <1>2, <2>1, <2>2 DEF OnlyJob, Alive, FnReturns
    <2> QED
      BY <2>1, <2>2, <2>3 DEF Numbers
  <1> QED
    BY <1>1, <1>2 DEF WorkerStep, Get, CheckCancel, CheckOrder, Claim, FnRaises, TestDone,
                      SetException, TaskDone

\* The worker gives a command up only when it was cancelled first, or raised, or when
\* nobody waits for it any more (command_queue.py:110-133).
LEMMA WorkerStaysSafe ==
  ASSUME SessionInv, WorkerRuns
  PROVE  WorkerSafe'
  <1> USE DEF SessionInv, WorkerRuns, WorkerSafe
  <1> USE QueueTypes, QueueAssumption
  <1>1. CASE Get
    BY <1>1 DEF Get
  <1>2. CASE CheckCancel
    <2>1. ASSUME cancelRequested, future[current] = "pending" PROVE main \in Leaving
      <3>1. current \in Command /\ current = job /\ call[job] = "accepted"
        BY <1>2, <2>1 DEF CheckCancel, OnlyJob, Alive
      <3>2. main \notin Quiet
        BY <2>1, <3>1 DEF OnlyJob, Settled, Alive
      <3> QED
        BY <2>1, <3>1, <3>2 DEF Cancelled, OnlyJob, Quiet, Leaving, SessionTypes, MainState
    <2> QED
      BY <1>2, <2>1 DEF CheckCancel
  <1>3. CASE CheckOrder
    <2>1. current \in Command
      BY <1>3 DEF CheckOrder
    <2>2. future[current] = "pending" => InOrder
      BY <2>1 DEF Numbers, InOrder
    <2> QED
      BY <1>3, <2>2 DEF CheckOrder
  <1>4. CASE Claim
    BY <1>4 DEF Claim
  <1>5. CASE FnReturns
    BY <1>5 DEF FnReturns
  <1>6. CASE FnRaises
    <2>1. future[current] = "running"
      BY <1>6, RunningIsAlive DEF FnRaises
    <2> QED
      BY <1>6, <2>1 DEF FnRaises
  <1>7. CASE TestDone
    BY <1>7 DEF TestDone
  <1>8. CASE SetException
    BY <1>8 DEF SetException
  <1>9. CASE TaskDone
    BY <1>9 DEF TaskDone
  <1> QED
    BY <1>1, <1>2, <1>3, <1>4, <1>5, <1>6, <1>7, <1>8, <1>9 DEF WorkerStep

\* A step of the worker keeps what the main thread knows.
LEMMA WorkerKeeps ==
  ASSUME SessionInv, WorkerRuns, IInv'
  PROVE  SessionInv'
  <1> USE DEF SessionInv, WorkerRuns
  <1>1. SessionTypes'
    BY WorkerCalms DEF SessionTypes
  <1>2. Cancelled'
    BY WorkerCalms DEF Cancelled
  <1>3. OnlyJob'
    <2>1. /\ \A c \in Command : Alive(c)' => Alive(c)
          /\ \A c \in Command : future'[c] = "pending" => future[c] = "pending"
      BY WorkerCalms
    <2>2. (main \in Quiet => Settled)'
      BY <2>1 DEF OnlyJob, Settled
    <2>3. \A c \in Command \ {job'} : ~ Alive(c)'
      BY <2>1 DEF OnlyJob
    <2>4. main' \in {"cancelling", "draining", "unwinding"} => future'[job'] # "pending"
      BY <2>1 DEF OnlyJob, SessionTypes, Waits
    <2> QED
      BY <2>2, <2>3, <2>4 DEF OnlyJob
  <1> QED
    BY <1>1, <1>2, <1>3, WorkerNumbers, WorkerStaysSafe

-----------------------------------------------------------------------------
(* The main thread.                                                        *)

\* A step that moves no command keeps the invariant if the place it leads to agrees
\* with what is under way.
LEMMA MoveKeeps ==
  ASSUME SessionInv, IInv', Cancelled',
         UNCHANGED <<call, seqOf, nextSeq, future, lastCompleted, worker, current, job>>,
         main' \in MainState, halted' \in BOOLEAN, outer' \in BOOLEAN,
         main' \in Quiet => Settled,
         main' \in Waits \union {"submitting"} => job \in Command,
         main' \in Waits => call[job] = "accepted",
         main' = "submitting" => main = "submitting",
         main' \in {"cancelling", "draining", "unwinding"} => future[job] # "pending",
         main \in Leaving => main' \in Leaving \/ Settled
  PROVE  SessionInv'
  <1> USE DEF SessionInv
  <1>1. SessionTypes'
    BY DEF SessionTypes
  <1>2. OnlyJob'
    BY DEF OnlyJob, Settled, Alive
  <1>3. Numbers'
    BY DEF Numbers
  <1>4. WorkerSafe'
    <2>1. ASSUME worker \in {"raising", "failing"}, future[current] = "pending"
          PROVE  main' \in Leaving
      <3>1. current \in Command /\ main \in Leaving
        BY <2>1, QueueTypes DEF WorkerSafe
      <3> QED
        BY <2>1, <3>1 DEF Settled, Alive
    <2> QED
      BY <2>1 DEF WorkerSafe
  <1> QED
    BY <1>1, <1>2, <1>3, <1>4

\* What a step that leaves the queue alone, or only calls for cancellation, leaves.
LEMMA CommandsStay ==
  ASSUME \/ UNCHANGED vars
         \/ RequestCancel \/ ClearCheck \/ ClearCancel
         \/ CloseFlag \/ CloseCancel \/ ClosePost
  PROVE  UNCHANGED <<call, seqOf, nextSeq, future, lastCompleted, worker, current>>
  BY DEF vars, submitVars, workerVars, RequestCancel, ClearCheck, ClearCancel, CloseFlag,
         CloseCancel, ClosePost

\* The cycle's own moves (orchestrator.py:281-289, 393-405, 440-455).
LEMMA CycleKeeps ==
  ASSUME SessionInv, IInv',
         \/ BeginCycle \/ Cleared \/ CycleRaises \/ CycleReturns \/ NeedsHuman \/ RunEnds
  PROVE  SessionInv'
  <1> USE DEF SessionInv, BeginCycle, Cleared, CycleRaises, CycleReturns, NeedsHuman, RunEnds
  <1>1. UNCHANGED <<call, seqOf, nextSeq, future, lastCompleted, worker, current, job>>
    BY CommandsStay
  <1>2. /\ main \in {"idle", "planning", "cleared", "recording"}
        /\ main' \in {"idle", "planning", "cleared", "stopped"}
        /\ outer' = outer
        /\ \/ halted' = halted /\ cancelRequested' = cancelRequested
           \/ main' = "stopped" /\ halted' = TRUE /\ cancelRequested' = TRUE
    BY DEF vars, flagVars, RequestCancel
  <1>3. Cancelled'
    BY <1>1, <1>2 DEF Cancelled, Waits
  <1>4. Settled
    BY <1>2 DEF OnlyJob, Quiet
  <1>5. main' \in MainState /\ halted' \in BOOLEAN /\ outer' \in BOOLEAN
    BY <1>2 DEF MainState, SessionTypes
  <1> QED
    BY <1>1, <1>2, <1>3, <1>4, <1>5, MoveKeeps DEF Waits

\* submit() has returned or raised, or the future has been waited for (287-292).
LEMMA AwaitKeeps ==
  ASSUME SessionInv, IInv', Submitted \/ Result \/ Timeout
  PROVE  SessionInv'
  <1> USE DEF SessionInv, Submitted, Result, Timeout
  <1>1. UNCHANGED <<call, seqOf, nextSeq, future, lastCompleted, worker, current, job>>
    BY CommandsStay
  <1>2. /\ main \in {"submitting", "waiting"}
        /\ main' \in {"waiting", "recording", "expired"}
        /\ outer' = outer /\ halted' = halted /\ cancelRequested' = cancelRequested
    BY DEF vars, flagVars
  <1>3. job \in Command /\ (main' \in Waits => call[job] = "accepted")
    BY <1>2 DEF SessionTypes, Waits
  <1>4. Cancelled'
    BY <1>1, <1>2, <1>3 DEF Cancelled, Waits
  <1>5. main' = "recording" => Settled
    BY <1>3, AcceptedHasFuture DEF OnlyJob, Settled, Alive, DoneState
  <1>6. main' \in MainState /\ halted' \in BOOLEAN /\ outer' \in BOOLEAN
    BY <1>2 DEF MainState, SessionTypes
  <1> QED
    BY <1>1, <1>2, <1>3, <1>4, <1>5, <1>6, MoveKeeps DEF Quiet, Leaving

\* The timeout path after the future was cancelled (294-299).
LEMMA ExpiryKeeps ==
  ASSUME SessionInv, IInv', TimeoutRequestCancel \/ TimeoutDrain \/ Reopen
  PROVE  SessionInv'
  <1> USE DEF SessionInv, TimeoutRequestCancel, TimeoutDrain, Reopen
  <1>1. UNCHANGED <<call, seqOf, nextSeq, future, lastCompleted, worker, current, job>>
    BY CommandsStay
  <1>2. /\ main \in {"cancelling", "draining", "reopening", "unwinding"}
        /\ \/ main' \in {"draining", "reopening", "recording", "interrupted"}
           \/ main' = main
        /\ halted' = halted
        /\ outer' \in BOOLEAN
    BY DEF SessionTypes
  <1>3. main \in Waits /\ ~ halted /\ job \in Command /\ call[job] = "accepted"
    BY <1>2 DEF Cancelled, SessionTypes, Waits
  <1>4. main' \in {"recording"} => cancelRequested' = FALSE
    BY DEF ClearCancel
  <1>5. main' \in {"draining", "unwinding"} => future[job] # "pending"
    BY <1>2, <1>3 DEF OnlyJob
  <1>6. main' # "cancelling" /\ main' \notin {"waiting", "expired"}
    BY <1>2
  <1>7. Cancelled'
    BY <1>1, <1>2, <1>3, <1>4, <1>6 DEF Cancelled, Waits
  <1>8. main' \in {"reopening", "recording"} => Settled
    BY DrainedSettles DEF Drained, OnlyJob, Quiet
  <1>9. main' \in MainState /\ halted' \in BOOLEAN
    BY <1>2 DEF MainState, SessionTypes
  <1> QED
    BY <1>1, <1>2, <1>3, <1>5, <1>6, <1>7, <1>8, <1>9, MoveKeeps DEF Quiet, Leaving, Waits

\* The ends of a run: a Ctrl-C's handler, the emergency stop, the closing of the
\* queue (529-563, app.py:154-161).
LEMMA StopKeeps ==
  ASSUME SessionInv, IInv', InterruptCancel \/ InterruptDrain \/ EmergencyStop \/ Close
  PROVE  SessionInv'
  <1> USE DEF SessionInv, InterruptCancel, InterruptDrain, EmergencyStop, Close
  <1>1. UNCHANGED <<call, seqOf, nextSeq, future, lastCompleted, worker, current, job>>
    BY CommandsStay
  <1>2. /\ main \in {"interrupted", "flushing", "idle", "planning", "stopped", "aborted"}
        /\ main' \in {"flushing", "stopped", "idle", "closed"} \/ main' = main
        /\ main' = main => main \in {"idle", "stopped", "aborted"}
        /\ outer' = outer
        /\ halted' \in BOOLEAN
    BY DEF SessionTypes
  <1>3. cancelRequested' = cancelRequested \/ cancelRequested' = TRUE
    BY DEF vars, flagVars, RequestCancel, CloseFlag, CloseCancel, ClosePost
  <1>4. /\ main' = "flushing" => cancelRequested' = TRUE
        /\ halted' => cancelRequested'
        /\ main' = "idle" => halted'
    BY <1>3 DEF Cancelled, RequestCancel, vars, flagVars
  <1>5. Cancelled'
    BY <1>1, <1>2, <1>4 DEF Cancelled, Waits
  <1>6. main' \in Quiet => Settled
    BY <1>2, DrainedSettles DEF Drained, OnlyJob, Quiet
  <1>7. main \in Leaving => main' \in Leaving \/ Settled
    BY <1>2, DrainedSettles DEF Drained, Leaving
  <1>8. main' \in MainState /\ outer' \in BOOLEAN
    BY <1>2 DEF MainState, SessionTypes
  <1>9. main' \notin Waits \union {"submitting"}
    BY <1>2 DEF Waits
  <1> QED
    BY <1>1, <1>2, <1>5, <1>6, <1>7, <1>8, <1>9, MoveKeeps DEF Waits

\* A Ctrl-C; inside submit() it also gives the call up (287-315, 547-556).
LEMMA InterruptKeeps ==
  ASSUME SessionInv, IInv', Interrupt
  PROVE  SessionInv'
  <1> USE DEF SessionInv, Interrupt
  <1>1. /\ main' \in {"interrupted", "unwinding", "aborted"}
        /\ main' = "unwinding" => main = "draining"
        /\ outer' \in BOOLEAN
        /\ halted' = halted
        /\ job' = job
    BY DEF SessionTypes
  <1>2. /\ main' \in Waits => main \in Waits /\ main \in {"draining"}
        /\ main' \notin Quiet
        /\ main' # "submitting"
        /\ main \in Leaving => main' \in Leaving
    BY <1>1 DEF Waits, Quiet, Leaving
  <1>3. /\ UNCHANGED <<seqOf, nextSeq, future, lastCompleted, worker, current,
                       cancelRequested>>
        /\ call' = call \/ main' \notin Waits
    BY <1>2 DEF vars, submitVars, workerVars, flagVars, SubmitAbandon, Waits
  <1>4. Cancelled'
    BY <1>1, <1>2, <1>3 DEF Cancelled
  <1>5. main' \in {"cancelling", "draining", "unwinding"} => future[job] # "pending"
    BY <1>1 DEF OnlyJob
  <1>6. SessionTypes'
    BY <1>1, <1>2, <1>3 DEF SessionTypes, MainState
  <1>7. OnlyJob'
    BY <1>1, <1>2, <1>3, <1>5 DEF OnlyJob, Settled, Alive
  <1>8. Numbers'
    BY <1>2, <1>3 DEF Numbers
  <1>9. WorkerSafe'
    BY <1>2, <1>3, <1>5, QueueTypes, QueueAssumption DEF WorkerSafe
  <1> QED
    BY <1>4, <1>6, <1>7, <1>8, <1>9

\* The timeout path cancels the future before it calls for cancellation, so that the
\* worker cannot be giving the command up (294-295).
LEMMA CancelFutureKeeps ==
  ASSUME SessionInv, IInv', TimeoutCancelFuture
  PROVE  SessionInv'
  <1> USE DEF SessionInv, TimeoutCancelFuture, CancelFuture
  <1>1. job \in Command /\ call[job] = "accepted" /\ ~ halted /\ ~ cancelRequested
    BY DEF SessionTypes, Cancelled, Waits
  <1>2. UNCHANGED <<call, seqOf, nextSeq, lastCompleted, worker, current, cancelRequested>>
    BY DEF submitVars, workerVars, flagVars
  <1>3. /\ future'[job] # "pending"
        /\ \A c \in Command : future'[c] = future[c]
                              \/ (c = job /\ future[c] = "pending" /\ future'[c] = "cancelled")
    BY <1>1, QueueTypes
  <1>4. SessionTypes'
    BY <1>1, <1>2 DEF SessionTypes, MainState, Waits
  <1>5. OnlyJob'
    BY <1>1, <1>3 DEF OnlyJob, Settled, Alive, Quiet
  <1>6. Cancelled'
    BY <1>1, <1>2 DEF Cancelled
  <1>7. Numbers'
    BY <1>2, <1>3 DEF Numbers
  <1>8. WorkerSafe'
    <2>1. worker \in {"raising", "failing"} => current \in Command
                                               /\ future'[current] = future[current]
      BY <1>3, QueueTypes DEF WorkerSafe, Leaving
    <2> QED
      BY <1>2, <2>1 DEF WorkerSafe, Leaving
  <1> QED
    BY <1>4, <1>5, <1>6, <1>7, <1>8

\* submit(): the tests, the number, the put (287-289).
LEMMA ExecuteKeeps ==
  ASSUME SessionInv, IInv', NEW c \in Command, Execute(c)
  PROVE  SessionInv'
  <1> USE DEF SessionInv, Execute, SubmitCheck
  <1>1. Settled
    BY DEF OnlyJob, Quiet
  <1>2. UNCHANGED <<seqOf, nextSeq, future, lastCompleted, worker, current, cancelRequested>>
    BY DEF workerVars, flagVars
  <1>3. call'[c] \in {"checked", "refused"} /\ (cancelRequested => call'[c] = "refused")
    BY QueueTypes
  <1>4. SessionTypes'
    BY DEF SessionTypes, MainState, Waits
  <1>5. OnlyJob'
    BY <1>1, <1>2 DEF OnlyJob, Settled, Alive
  <1>6. Cancelled'
    BY <1>2, <1>3 DEF Cancelled, Waits
  <1>7. Numbers'
    BY <1>2, <1>3 DEF Numbers
  <1>8. WorkerSafe'
    BY <1>1, <1>2, QueueTypes DEF WorkerSafe, Settled, Alive
  <1> QED
    BY <1>4, <1>5, <1>6, <1>7, <1>8

\* A number is taken, or the command is put (command_queue.py:89-101).
LEMMA SubmittingKeeps ==
  ASSUME SessionInv, IInv', Submitting
  PROVE  SessionInv'
  <1> USE DEF SessionInv, Submitting
  <1>1. /\ job \in Command /\ main = "submitting"
        /\ call[job] \in {"checked", "numbered"}
        /\ future[job] = "none"
        /\ ~ halted /\ ~ cancelRequested
    BY AcceptedHasFuture DEF SessionTypes, Cancelled, SubmitNumber, SubmitPut
  <1>2. job # current
    BY <1>1, QueueTypes, QueueAssumption
  <1>3. UNCHANGED <<lastCompleted, worker, current, cancelRequested>>
    BY DEF SubmitNumber, SubmitPut, workerVars, flagVars
  <1>4. \A c \in Command \ {job} : future'[c] = future[c] /\ seqOf'[c] = seqOf[c]
    BY QueueTypes DEF SubmitNumber, SubmitPut
  <1>5. SessionTypes'
    BY <1>1 DEF SessionTypes, Waits
  <1>6. OnlyJob'
    BY <1>1, <1>4 DEF OnlyJob, Alive, Quiet
  <1>7. Cancelled'
    BY <1>1, <1>3 DEF Cancelled, Waits
  <1>8. WorkerSafe'
    BY <1>1, <1>2, <1>3, <1>4, QueueTypes DEF WorkerSafe, Leaving
  <1>9. Numbers'
    <2>1. CASE SubmitNumber(job)
      BY <1>1, <1>3, <2>1, QueueTypes DEF Numbers, SubmitNumber
    <2>2. CASE SubmitPut(job)
      BY <1>1, <1>3, <2>2, QueueTypes DEF Numbers, SubmitPut
    <2> QED
      BY <2>1, <2>2
  <1> QED
    BY <1>5, <1>6, <1>7, <1>8, <1>9

-----------------------------------------------------------------------------
(* Every step of the process.                                              *)

\* What a step of the process is to the writer session: nothing, or one of its actions.
SessionStep ==
  \/ UNCHANGED sessionVars
  \/ BeginCycle \/ Cleared \/ CycleRaises \/ CycleReturns \/ NeedsHuman \/ RunEnds
  \/ Submitted \/ Result \/ Timeout
  \/ TimeoutCancelFuture \/ TimeoutRequestCancel \/ TimeoutDrain \/ Reopen
  \/ InterruptCancel \/ InterruptDrain \/ EmergencyStop \/ Close
  \/ Interrupt \/ Submitting \/ WorkerRuns
  \/ \E c \in Command : Execute(c)

\* A step of the program is one of the session, or leaves it alone (app.py:46-161).
LEMMA AppStepIsSessionStep == [AppNext]_appVars => SessionStep
  <1> SUFFICES ASSUME [AppNext]_appVars PROVE SessionStep
    OBVIOUS
  <1>1. CASE Startup
    BY <1>1 DEF Startup, WaitForDevice, RecoverAdbServer, CheckGameVersion, MakeQueue,
                AcquireLease, LoadAcceptance, StartWatchers, SessionStep
  <1>2. CASE Loop
    BY <1>2 DEF Loop, Continue, LeaveLoop, CheckedCycle, CheckedStop, LoopStep, SessionStep
  <1>3. CASE Shutdown
    BY <1>3 DEF Shutdown, Unwatch, CloseQueue, JoinWorker, ReleaseLease, CloseStore,
                SessionStep
  <1>4. CASE WorkerThread \/ PressCtrlC
    BY <1>4 DEF WorkerThread, PressCtrlC, SessionStep
  <1>5. CASE Watch \/ TimePasses \/ Hotkey \/ PutStopFile \/ Ended \/ UNCHANGED appVars
    BY <1>5 DEF Watch, TimePasses, Hotkey, PutStopFile, Ended, appVars, SessionStep
  <1> QED
    BY <1>1, <1>2, <1>3, <1>4, <1>5 DEF AppNext

\* To the queue each of them is a step its threads may take.
LEMMA SessionStepIsQueueStep ==
  ASSUME SessionInv, SessionStep
  PROVE  [Next]_vars
  <1>1. CASE UNCHANGED sessionVars
    BY <1>1 DEF sessionVars
  <1>2. CASE \/ BeginCycle \/ Cleared \/ CycleReturns \/ NeedsHuman \/ RunEnds
             \/ Submitted \/ Result \/ Timeout \/ TimeoutDrain \/ InterruptDrain
    BY <1>2 DEF BeginCycle, Cleared, CycleReturns, NeedsHuman, RunEnds, Submitted,
                Result, Timeout, TimeoutDrain, InterruptDrain
  <1>3. CASE CycleRaises \/ TimeoutRequestCancel \/ InterruptCancel \/ EmergencyStop
    BY <1>3 DEF CycleRaises, TimeoutRequestCancel, InterruptCancel, EmergencyStop, Next
  <1>4. CASE Reopen \/ Close
    BY <1>4 DEF Reopen, Close, Next
  <1>5. CASE TimeoutCancelFuture
    <2>1. /\ job \in Command
          /\ call[job] = "accepted"
          /\ CancelFuture(job)
      BY <1>5 DEF SessionInv, SessionTypes, TimeoutCancelFuture, Waits
    <2> QED
      BY <2>1, AcceptedHasFuture DEF SessionInv, Next
  <1>6. CASE Interrupt \/ Submitting
    <2>1. main = "submitting" => job \in Command
      BY DEF SessionInv, SessionTypes, Waits
    <2>2. main = "waiting" => call[job] = "accepted"
      BY DEF SessionInv, SessionTypes, Waits
    <2> QED
      BY <1>6, <2>1, <2>2 DEF Interrupt, Submitting, Next
  <1>7. CASE WorkerRuns \/ \E c \in Command : Execute(c)
    BY <1>7 DEF WorkerRuns, Execute, Next
  <1> QED
    BY <1>1, <1>2, <1>3, <1>4, <1>5, <1>6, <1>7 DEF SessionStep

\* Every step of the session keeps the invariant.
LEMMA SessionKeeps ==
  ASSUME SessionInv, SessionStep
  PROVE  SessionInv'
  <1>1. IInv'
    BY SessionStepIsQueueStep, NextInv DEF SessionInv
  <1>2. CASE UNCHANGED sessionVars
    BY <1>1, <1>2 DEF sessionVars, vars, submitVars, flagVars, workerVars, SessionInv,
         SessionTypes, OnlyJob, Settled, Alive, Cancelled, Numbers, WorkerSafe
  <1>3. CASE ~ UNCHANGED sessionVars
    BY <1>1, <1>3, CycleKeeps, AwaitKeeps, ExpiryKeeps, StopKeeps, InterruptKeeps,
       CancelFutureKeeps, ExecuteKeeps, SubmittingKeeps, WorkerKeeps DEF SessionStep
  <1> QED
    BY <1>2, <1>3

\* Once the loop is left, nothing is accepted any more: what was settled stays so.
LEMMA ClosedStays ==
  ASSUME SessionInv, SessionStep, main \in {"stopped", "aborted", "closed"}, Settled
  PROVE  Settled'
  <1>1. \/ UNCHANGED sessionVars
        \/ Close
        \/ WorkerRuns
    BY DEF SessionStep, BeginCycle, Cleared, CycleRaises, CycleReturns, NeedsHuman, RunEnds,
           Submitted, Result, Timeout, TimeoutCancelFuture, TimeoutRequestCancel,
           TimeoutDrain, Reopen, InterruptCancel, InterruptDrain, EmergencyStop, Interrupt,
           Submitting, Execute
  <1>2. CASE UNCHANGED sessionVars
    BY <1>2 DEF sessionVars, vars, Settled, Alive
  <1>3. CASE Close
    BY <1>3, CommandsStay DEF Close, Settled, Alive
  <1>4. CASE WorkerRuns
    BY <1>4, WorkerCalms DEF WorkerRuns, SessionInv, Settled
  <1> QED
    BY <1>1, <1>2, <1>3, <1>4

\* Only a Ctrl-C interrupts the loop, and only the finally clause closes the queue.
LEMMA LoopMoves ==
  ASSUME \/ CheckedCycle \/ CheckedStop \/ LoopStep \/ Timeout \/ CycleRaises
         \/ NeedsHuman \/ RunEnds
  PROVE  main' \notin {"aborted", "closed"}
  <1>1. CASE CheckedCycle \/ CheckedStop \/ Timeout \/ CycleRaises \/ NeedsHuman \/ RunEnds
    BY <1>1 DEF CheckedCycle, CheckedStop, BeginCycle, Cleared, EmergencyStop, CycleRaises,
                NeedsHuman, RunEnds, Timeout
  <1>2. CASE LoopStep
    <2>1. CASE Reopen
      BY <2>1 DEF Reopen
    <2>2. CASE ~ Reopen
      BY <1>2, <2>2 DEF LoopStep, Execute, Submitting, Submitted, Result, TimeoutCancelFuture,
                   TimeoutRequestCancel, TimeoutDrain, CycleReturns, InterruptCancel,
                   InterruptDrain
    <2> QED
      BY <2>1, <2>2
  <1> QED
    BY <1>1, <1>2

\* When the loop was left without a handler cut short, nothing is under way again.
LEMMA LeftIsSettled ==
  ASSUME AppInv, SessionStep, main \in {"stopped", "aborted", "closed"},
         "handler" \notin cause
  PROVE  Settled'
  <1>1. Settled
    BY DEF AppInv, Around, SessionInv, OnlyJob, Quiet
  <1> QED
    BY <1>1, ClosedStays DEF AppInv

\* Every step keeps the process's part of the invariant.
LEMMA AroundKeeps ==
  ASSUME AppInv, [AppNext]_appVars
  PROVE  Around'
  <1> USE DEF AppInv, Around
  <1>0. main \in {"stopped", "aborted", "closed"} /\ "handler" \notin cause => Settled'
    BY AppStepIsSessionStep, LeftIsSettled
  <1>1. CASE Startup
    <2>1. /\ main' = "idle"
          /\ stage' \in StartStage \union {"run", "unwatch"}
          /\ stage' \in {"load", "watch", "run"} => lease' = "held"
      BY <1>1 DEF Startup, WaitForDevice, RecoverAdbServer, CheckGameVersion, MakeQueue,
                AcquireLease, LoadAcceptance, StartWatchers, ToStage, Leave, StartStage,
                sessionVars
    <2> QED
      BY <2>1 DEF StartStage
  <1>2. CASE Loop
    <2>1. stage = "run" /\ main' \notin {"aborted", "closed"}
      BY <1>2, LoopMoves DEF Loop, Continue, LeaveLoop, LoopStep
    <2>2. \/ stage' = "run" /\ lease' = lease /\ main' # "stopped"
          \/ stage' = "unwatch" /\ main' = "stopped"
      BY <1>2, <2>1 DEF Loop, Continue, LeaveLoop, Leave, appOnly
    <2> QED
      BY <2>1, <2>2 DEF StartStage
  <1>3. CASE Shutdown
    <2>1. /\ stage \in EndStage
          /\ stage' \notin StartStage \union {"run"}
          /\ main' \in {"idle", "stopped", "aborted", "closed"}
          /\ main' \in {"aborted", "closed"} => main \in {"stopped", "aborted", "closed"}
          /\ cause \subseteq cause'
      BY <1>3 DEF Shutdown, Unwatch, CloseQueue, JoinWorker, ReleaseLease, CloseStore,
                  EndStage, StartStage, RunEnds, Close, sessionVars
    <2> QED
      BY <1>0, <2>1 DEF StartStage
  <1>4. CASE PressCtrlC
    <2>1. CASE stage = "run"
      <3>1. /\ main' \in {"interrupted", "unwinding", "aborted"}
            /\ main' = "aborted" /\ "handler" \notin cause' => main = "idle"
            /\ lease' = lease
            /\ stage' = IF main' = "aborted" THEN "unwatch" ELSE "run"
        BY <1>4, <2>1 DEF PressCtrlC, Interrupt, Leave, StartStage, EndStage
      <3>2. ASSUME main = "idle" PROVE Settled'
        <4>1. Settled /\ future' = future
          BY <1>4, <2>1, <3>2 DEF PressCtrlC, Interrupt, StartStage, EndStage, vars,
                                  workerVars, SessionInv, OnlyJob, Quiet
        <4> QED
          BY <4>1 DEF Settled, Alive
      <3> QED
        BY <2>1, <3>1, <3>2 DEF StartStage
    <2>2. CASE stage # "run"
      <3>1. main' = main /\ stage' \in {"unwatch", "ended"} /\ cause \subseteq cause'
        BY <1>4, <2>2 DEF PressCtrlC, Leave, sessionVars
      <3> QED
        BY <1>0, <2>2, <3>1 DEF StartStage
    <2> QED
      BY <2>1, <2>2
  <1>5. CASE \/ WorkerThread \/ Watch \/ TimePasses \/ Hotkey \/ PutStopFile \/ Ended
             \/ UNCHANGED appVars
    <2>1. UNCHANGED <<main, stage, lease, cause>>
      BY <1>5 DEF WorkerThread, WorkerRuns, Watch, TimePasses, Hotkey, PutStopFile, Ended,
                  appVars, appOnly, sessionVars
    <2> QED
      BY <1>0, <2>1
  <1> QED
    BY <1>1, <1>2, <1>3, <1>4, <1>5 DEF AppNext

-----------------------------------------------------------------------------
(* What the process has made, and who gives the lease back.                *)

FlagTypes == flag \in BOOLEAN /\ latched \in BOOLEAN /\ expired \in BOOLEAN

\* The types of what is not the session's.
ProcessTypes ==
  /\ FlagTypes
  /\ stage \in StartStage \union {"run"} \union EndStage \union {"ended"}
  /\ made \subseteq {"queue", "metrics", "watcher"}
  /\ lease \in {"none", "held", "released"}
  /\ watcher \in {"none", "watching", "shutdown", "ended"}
  /\ presses \in 0 .. MaxPresses
  /\ cause \subseteq {"load", "release", "press", "handler"}
  /\ exit \in {"none", "ok", "emergency", "failed", "raised", "interrupt"}

\* The start makes things in this order, so that the metrics have their queue.
MadeInOrder ==
  /\ stage \in {"lease", "load", "watch"} => "queue" \in made
  /\ stage = "watch" => "metrics" \in made
  /\ "metrics" \in made => "queue" \in made
  /\ stage = "run" => made = {"queue", "metrics", "watcher"}

\* A lease that is held is on its way to its release, or there is a cause.
OnItsWay ==
  lease = "held" /\ cause \subseteq {"handler"} =>
    \/ stage = "load"
    \/ "metrics" \in made /\ stage \in {"watch", "run", "unwatch", "close", "join", "release"}

ProcessInv == ProcessTypes /\ MadeInOrder /\ OnItsWay

\* While the loop goes on it has not reached its limit of errors.
ErrorsInv ==
  /\ errors \in 0 .. MaxLoopErrors
  /\ main \notin {"stopped", "aborted", "closed"} => errors < MaxLoopErrors

\* The count of errors ends the loop at its limit (orchestrator.py:453-455).
LEMMA ErrorsKeep ==
  ASSUME ErrorsInv, SessionStep
  PROVE  ErrorsInv'
  <1> USE SessionAssumption DEF ErrorsInv
  <1>1. CASE \/ UNCHANGED sessionVars \/ BeginCycle \/ Cleared \/ NeedsHuman \/ RunEnds
             \/ Submitted \/ Result \/ Timeout \/ TimeoutCancelFuture
             \/ TimeoutRequestCancel \/ TimeoutDrain \/ InterruptCancel \/ Submitting
             \/ WorkerRuns \/ \E c \in Command : Execute(c)
    BY <1>1 DEF sessionVars, BeginCycle, Cleared, NeedsHuman, RunEnds, Submitted, Result,
                Timeout, TimeoutCancelFuture, TimeoutRequestCancel, TimeoutDrain,
                InterruptCancel, Submitting, WorkerRuns, Execute
  <1>2. CASE CycleRaises \/ CycleReturns
    BY <1>2 DEF CycleRaises, CycleReturns, ErrorLimit
  <1>3. CASE InterruptDrain \/ EmergencyStop
    BY <1>3 DEF InterruptDrain, EmergencyStop, ErrorLimit
  <1>4. CASE Reopen \/ Close \/ Interrupt
    BY <1>4 DEF Reopen, Close, Interrupt
  <1> QED
    BY <1>1, <1>2, <1>3, <1>4 DEF SessionStep

\* The three flags are only ever set.
LEMMA FlagsKeep ==
  ASSUME FlagTypes, [AppNext]_appVars
  PROVE  FlagTypes'
  <1>1. ASSUME UNCHANGED <<flag, latched, expired>> PROVE FlagTypes'
    BY <1>1 DEF FlagTypes
  <1>2. \/ UNCHANGED <<flag, latched, expired>>
        \/ flag' = TRUE /\ UNCHANGED <<latched, expired>>
        \/ latched' = TRUE /\ UNCHANGED <<flag, expired>>
        \/ expired' = TRUE /\ UNCHANGED <<flag, latched>>
    <2>1. CASE Watch \/ Hotkey \/ PutStopFile \/ TimePasses
      BY <2>1 DEF Watch, Hotkey, PutStopFile, TimePasses
    <2>2. CASE Startup
      BY <2>2 DEF Startup, WaitForDevice, RecoverAdbServer, CheckGameVersion, MakeQueue,
                  AcquireLease, LoadAcceptance, StartWatchers
    <2>3. CASE Loop \/ WorkerThread
      BY <2>3 DEF Loop, Continue, LeaveLoop, WorkerThread, appOnly
    <2>4. CASE Shutdown
      BY <2>4 DEF Shutdown, Unwatch, CloseQueue, JoinWorker, ReleaseLease, CloseStore
    <2>5. CASE PressCtrlC \/ Ended \/ UNCHANGED appVars
      BY <2>5 DEF PressCtrlC, Ended, appVars, appOnly
    <2> QED
      BY <2>1, <2>2, <2>3, <2>4, <2>5 DEF AppNext
  <1> QED
    BY <1>1, <1>2 DEF FlagTypes

\* Every step keeps what has been made in order and the lease on its way.
LEMMA ProcessKeeps ==
  ASSUME ProcessInv, [AppNext]_appVars
  PROVE  ProcessInv'
  <1> USE DEF ProcessInv, ProcessTypes, MadeInOrder, OnItsWay, StartStage, EndStage
  <1>0. FlagTypes'
    BY FlagsKeep
  <1>1. CASE WaitForDevice \/ RecoverAdbServer \/ CheckGameVersion \/ MakeQueue
    <2>1. CASE WaitForDevice \/ RecoverAdbServer \/ CheckGameVersion
      <3>1. /\ UNCHANGED <<made, lease, watcher, presses, cause>>
            /\ stage \in {"device", "recover", "version"}
            /\ stage' \in {"recover", "version", "queue", "unwatch"}
            /\ exit' \in {exit, "failed"}
        BY <2>1 DEF WaitForDevice, RecoverAdbServer, CheckGameVersion, ToStage, Leave
      <3> QED
        BY <1>0, <3>1
    <2>2. CASE MakeQueue
      BY <1>0, <2>2 DEF MakeQueue, ToStage
    <2> QED
      BY <1>1, <2>1, <2>2
  <1>2. CASE AcquireLease \/ LoadAcceptance
    BY <1>0, <1>2 DEF AcquireLease, LoadAcceptance, ToStage, Leave
  <1>3. CASE StartWatchers
    BY <1>0, <1>3 DEF StartWatchers, ToStage, Leave
  <1>4. CASE Loop
    <2>1. /\ stage = "run"
          /\ UNCHANGED <<made, lease, flag, latched, watcher, expired, presses, cause>>
          /\ \/ stage' = "run" /\ exit' = exit
             \/ stage' = "unwatch" /\ exit' \in {"ok", "emergency", "failed", "raised"}
      BY <1>4 DEF Loop, Continue, LeaveLoop, Leave, appOnly
    <2> QED
      BY <1>0, <2>1
  <1>5. CASE Unwatch
    BY <1>0, <1>5 DEF Unwatch
  <1>6. CASE CloseQueue \/ JoinWorker
    <2>1. /\ UNCHANGED <<made, lease, watcher, presses, cause, exit>>
          /\ stage \in {"close", "join"} /\ stage' \in {"close", "join", "release"}
      BY <1>6 DEF CloseQueue, JoinWorker
    <2> QED
      BY <1>0, <2>1
  <1>7. CASE ReleaseLease \/ CloseStore
    <2>1. /\ UNCHANGED <<made, watcher, presses>>
          /\ stage' \in {"store", "ended"}
          /\ exit' \in {exit, "raised"}
          /\ lease' \in {lease, "released"}
          /\ cause' \in {cause, cause \union {"release"}}
      BY <1>7 DEF ReleaseLease, CloseStore
    <2>2. ~ (lease' = "held" /\ cause' \subseteq {"handler"})
      BY <1>7 DEF ReleaseLease, CloseStore
    <2> QED
      BY <1>0, <2>1, <2>2
  <1>8. CASE PressCtrlC
    <2>1. presses < MaxPresses /\ presses' = presses + 1
      BY <1>8 DEF PressCtrlC, Pressed
    <2>2. /\ UNCHANGED <<made, lease, flag, latched, watcher, expired>>
          /\ \/ stage \in StartStage /\ stage' = "unwatch" /\ exit' = "interrupt"
                /\ cause' = IF stage = "load" THEN cause \union {"press"} ELSE cause
             \/ stage = "run" /\ stage' = stage /\ exit' = exit
                /\ cause' \in {cause, cause \union {"handler"}}
             \/ stage = "run" /\ stage' = "unwatch" /\ exit' \in {"interrupt", "raised"}
                /\ cause' \in {cause, cause \union {"handler"}}
             \/ stage \in EndStage /\ stage' = "ended" /\ exit' = "interrupt"
                /\ cause' = cause \union {"press"}
      BY <1>8 DEF PressCtrlC, Leave
    <2>3. presses' \in 0 .. MaxPresses
      BY <2>1, AppAssumption
    <2>4. ProcessTypes'
      BY <1>0, <2>2, <2>3
    <2>5. OnItsWay'
      <3>1. cause \subseteq cause' /\ (stage \in EndStage => "press" \in cause')
        BY <2>2
      <3>2. stage = "load" => "press" \in cause'
        BY <2>2
      <3> QED
        BY <2>2, <3>1, <3>2
    <2> QED
      BY <2>2, <2>4, <2>5
  <1>9. CASE Watch \/ TimePasses \/ Hotkey \/ PutStopFile \/ WorkerThread \/ Ended
             \/ UNCHANGED appVars
    <2>1. /\ UNCHANGED <<stage, made, lease, presses, cause, exit>>
          /\ watcher' \in {watcher, "ended"}
      BY <1>9 DEF Watch, TimePasses, Hotkey, PutStopFile, WorkerThread, Ended, appVars, appOnly
    <2> QED
      BY <1>0, <2>1
  <1> QED
    BY <1>1, <1>2, <1>3, <1>4, <1>5, <1>6, <1>7, <1>8, <1>9
       DEF AppNext, Startup, Shutdown

\* Both hold of every run of the process (app.py:46-161).
LEMMA ProcessInvariant == AppSpec => [](ProcessInv /\ ErrorsInv)
  <1>1. AppInit => ProcessInv /\ ErrorsInv
    <2> SUFFICES ASSUME AppInit PROVE ProcessInv /\ ErrorsInv
      OBVIOUS
    <2>1. FlagTypes
      BY DEF AppInit, FlagTypes
    <2>2. ErrorsInv
      BY SessionAssumption DEF AppInit, SessionInit, ErrorsInv
    <2>3. ProcessInv
      BY <2>1, AppAssumption
         DEF AppInit, ProcessInv, ProcessTypes, MadeInOrder, OnItsWay, StartStage
    <2> QED
      BY <2>2, <2>3
  <1>2. ProcessInv /\ ErrorsInv /\ [AppNext]_appVars => (ProcessInv /\ ErrorsInv)'
    BY ProcessKeeps, ErrorsKeep, AppStepIsSessionStep
  <1> QED
    BY <1>1, <1>2, PTL DEF AppSpec

-----------------------------------------------------------------------------

\* The invariant holds of every run of the process (app.py:46-188,
\* orchestrator.py:281-563).
THEOREM AppInvariant == AppSpec => []AppInv
  <1>1. AppInv /\ [AppNext]_appVars => AppInv'
    BY AppStepIsSessionStep, SessionKeeps, AroundKeeps DEF AppInv
  <1> QED
    BY <1>1, AppInitInv, PTL DEF AppSpec

\* The process uses the queue as its threads may, so that it is a serial writer here,
\* too (command_queue.py:39).
THEOREM AppUsesQueue == AppSpec => Spec
  <1>1. AppInv /\ [AppNext]_appVars => [Next]_vars
    BY AppStepIsSessionStep, SessionStepIsQueueStep DEF AppInv
  <1>2. AppInit => Init
    BY DEF AppInit, SessionInit
  <1> QED
    BY <1>1, <1>2, AppInvariant, PTL DEF AppSpec, Spec

\* The writes of the process are executed one at a time, in order, none after it was
\* cancelled (command_queue.py:39).
THEOREM AppWritesSerially == AppSpec => ImplementsSerialWriter
  BY AppUsesQueue, QueueIsSerialWriter, PTL

\* No write of an earlier cycle lands on a later observation, however the timeouts
\* and interrupts fall (orchestrator.py:292-299).
THEOREM NoWriteIsLate == AppSpec => []NoLateWrite
  <1>1. AppInv => NoLateWrite
    BY DEF AppInv, SessionInv, OnlyJob, Quiet, Settled, Alive, NoLateWrite
  <1> QED
    BY <1>1, AppInvariant, PTL

\* The worker thread is never killed by a future cancelled behind its back
\* (command_queue.py:130-132).
THEOREM WorkerLives == AppSpec => []WorkerSurvives
  <1>1. AppInv => WorkerSurvives
    BY DEF AppInv, SessionInv, WorkerSafe, WorkerSurvives
  <1> QED
    BY <1>1, AppInvariant, PTL

\* After a stop was handled the writer stays cancelled (orchestrator.py:298-299,
\* 529-563).
THEOREM HaltHolds == AppSpec => []HaltedStaysCancelled
  <1>1. AppInv => HaltedStaysCancelled
    BY DEF AppInv, SessionInv, Cancelled, HaltedStaysCancelled
  <1> QED
    BY <1>1, AppInvariant, PTL

\* Unless a handler of Ctrl-C is itself cut short, the device's lease covers every
\* write (app.py:154-161).
THEOREM LeaseCovers == AppSpec => []LeaseCoversWrites
  <1>1. ASSUME AppInv PROVE LeaseCoversWrites
    <2> SUFFICES ASSUME worker = "running", "handler" \notin cause PROVE lease = "held"
      BY DEF LeaseCoversWrites
    <2>1. ~ Settled
      BY <1>1, RunningIsAlive DEF AppInv, SessionInv
    <2>2. main \notin {"idle", "stopped", "aborted", "closed"}
      BY <1>1, <2>1 DEF AppInv, SessionInv, OnlyJob, Quiet, Around
    <2> QED
      BY <1>1, <2>2 DEF AppInv, Around
  <1> QED
    BY <1>1, AppInvariant, PTL

\* Each variable has its type, the main thread waits for accepted commands only, and
\* the loop runs with everything made (app.py:46-188).
THEOREM AppTypes == AppSpec => []AppTypeOK
  <1>1. ASSUME AppInv, ProcessInv, ErrorsInv PROVE AppTypeOK
    <2>1. TypeOK
      BY <1>1 DEF AppInv, SessionInv, IInv
    <2>2. /\ main \in MainState
          /\ job \in Command \union {NoCommand}
          /\ {outer, halted} \subseteq BOOLEAN
          /\ main \in {"waiting", "expired", "cancelling", "draining"} =>
               call[job] = "accepted"
      BY <1>1 DEF AppInv, SessionInv, SessionTypes, Waits
    <2>3. ProcessTypes /\ errors \in 0 .. MaxLoopErrors
      BY <1>1 DEF ProcessInv, ErrorsInv
    <2>4. {outer, halted, flag, latched, expired} \subseteq BOOLEAN
      BY <2>2, <2>3, Zenon DEF ProcessTypes, FlagTypes
    <2>5. stage = "run" => made = {"queue", "metrics", "watcher"} /\ lease = "held"
      BY <1>1 DEF AppInv, Around, ProcessInv, MadeInOrder
    <2> QED
      BY <2>1, <2>2, <2>3, <2>4, <2>5 DEF AppTypeOK, ProcessTypes
  <1> QED
    BY <1>1, AppInvariant, ProcessInvariant, PTL

\* The lease's row is left behind only for the causes that the model names
\* (metrics.py:104-111, 227-230, app.py:154-161).
THEOREM LeaseReturns == AppSpec => []LeaseGivenBack
  <1>1. ProcessInv => LeaseGivenBack
    BY DEF ProcessInv, OnItsWay, LeaseGivenBack
  <1> QED
    BY <1>1, ProcessInvariant, PTL
=============================================================================
