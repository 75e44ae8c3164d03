---------------------------- MODULE CommandQueue ----------------------------
(***************************************************************************)
(* device/command_queue.py: DeviceCommandQueue, the single ADB writer of a *)
(* device.  Client threads call submit(); one worker thread takes commands *)
(* from a bounded queue.Queue and runs them; any thread may ask for        *)
(* cancellation, clear it, cancel a future or close the queue.             *)
(*                                                                         *)
(* A step is what one thread does between two points where another thread  *)
(* can be scheduled: a read or write of an Event, of the queue, of a       *)
(* future's state, or a statement under a lock.                            *)
(***************************************************************************)
EXTENDS Integers, Sequences

CONSTANTS
  Command,      \* the calls of submit(), each made once
  Client,       \* the threads that call submit()
  Owner,        \* the thread that makes each call
  MaxSize,      \* maxsize: the bound of the backlog
  Poison,       \* the None that close() posts
  NoCommand

ASSUME QueueAssumption ==
  /\ Owner \in [Command -> Client]
  /\ MaxSize \in Nat \ {0}
  /\ NoCommand \notin Command
  /\ Poison \notin Command

VARIABLES
  queue,            \* _queue: commands and, after close(), the poison
  unfinished,       \* _queue.unfinished_tasks, what join() waits on
  cancelRequested,  \* _cancel_requested
  closed,           \* _closed
  closing,          \* how far the close() that won got
  reopening,        \* a clear_cancel() is past its test of _closed
  nextSeq,          \* _next_seq
  lastCompleted,    \* _last_completed_seq
  violations,       \* _order_violation_count
  call,             \* how far each submit() got
  seqOf,            \* _Command.seq, 0 before one is given
  future,           \* the state of each command's Future
  worker,           \* where the worker thread is
  current,          \* the command it holds
  puts,             \* history: how many items were ever put
  place             \* history: each accepted command's place among them

submitVars == <<nextSeq, call, seqOf>>
flagVars   == <<cancelRequested, closed, closing, reopening>>
queueVars  == <<queue, unfinished, puts, place>>
workerVars == <<lastCompleted, violations, worker, current>>
vars == <<submitVars, flagVars, queueVars, workerVars, future>>

CallState   == {"new", "checked", "numbered", "accepted", "refused"}
FutureState == {"none", "pending", "running", "cancelled", "finished", "failed"}
DoneState   == {"cancelled", "finished", "failed"}
WorkerState == {"idle", "took", "ordering", "claiming", "running", "raising",
                "failing", "settled", "dying", "exited", "dead"}

Init ==
  /\ queue = <<>>
  /\ unfinished = 0
  /\ cancelRequested = FALSE
  /\ closed = FALSE
  /\ closing = "open"
  /\ reopening = FALSE
  /\ nextSeq = 1
  /\ lastCompleted = 0
  /\ violations = 0
  /\ call = [c \in Command |-> "new"]
  /\ seqOf = [c \in Command |-> 0]
  /\ future = [c \in Command |-> "none"]
  /\ worker = "idle"
  /\ current = NoCommand
  /\ puts = 0
  /\ place = [c \in Command |-> 0]

-----------------------------------------------------------------------------
(* submit(): the tests of the flags, the sequence number taken under       *)
(* _seq_lock, and the put that follows outside the lock.                   *)

\* A thread makes one call at a time.
MidCall(t) == \E c \in Command : Owner[c] = t /\ call[c] \in {"checked", "numbered"}

SubmitCheck(c) ==
  /\ call[c] = "new"
  /\ ~ MidCall(Owner[c])
  /\ call' = [call EXCEPT ![c] =
                IF closed \/ cancelRequested THEN "refused" ELSE "checked"]
  /\ UNCHANGED <<nextSeq, seqOf, flagVars, queueVars, workerVars, future>>

SubmitNumber(c) ==
  /\ call[c] = "checked"
  /\ seqOf' = [seqOf EXCEPT ![c] = nextSeq]
  /\ nextSeq' = nextSeq + 1
  /\ call' = [call EXCEPT ![c] = "numbered"]
  /\ UNCHANGED <<flagVars, queueVars, workerVars, future>>

\* put_nowait: CommandQueueFull leaves the sequence number used up.
SubmitPut(c) ==
  /\ call[c] = "numbered"
  /\ \/ /\ Len(queue) < MaxSize
        /\ queue' = Append(queue, c)
        /\ unfinished' = unfinished + 1
        /\ puts' = puts + 1
        /\ place' = [place EXCEPT ![c] = puts + 1]
        /\ future' = [future EXCEPT ![c] = "pending"]
        /\ call' = [call EXCEPT ![c] = "accepted"]
     \/ /\ Len(queue) >= MaxSize
        /\ call' = [call EXCEPT ![c] = "refused"]
        /\ UNCHANGED <<queueVars, future>>
  /\ UNCHANGED <<nextSeq, seqOf, flagVars, workerVars>>

\* A Ctrl-C strikes the calling thread before the put: the number is used up.
SubmitAbandon(c) ==
  /\ call[c] \in {"checked", "numbered"}
  /\ call' = [call EXCEPT ![c] = "refused"]
  /\ UNCHANGED <<nextSeq, seqOf, flagVars, queueVars, workerVars, future>>

-----------------------------------------------------------------------------
(* The control calls.                                                      *)

\* Future.cancel(): without effect on a future that runs or is done.
CancelFuture(c) ==
  /\ future' = [future EXCEPT ![c] = IF @ = "pending" THEN "cancelled" ELSE @]
  /\ UNCHANGED <<submitVars, flagVars, queueVars, workerVars>>

RequestCancel ==
  /\ cancelRequested' = TRUE
  /\ UNCHANGED <<submitVars, closed, closing, reopening, queueVars, workerVars, future>>

\* clear_cancel() raises on a closed queue; the test and the clear are two steps.
ClearCheck ==
  /\ ~ closed
  /\ ~ reopening
  /\ reopening' = TRUE
  /\ UNCHANGED <<submitVars, cancelRequested, closed, closing, queueVars,
                 workerVars, future>>

ClearCancel ==
  /\ reopening
  /\ reopening' = FALSE
  /\ cancelRequested' = FALSE
  /\ UNCHANGED <<submitVars, closed, closing, queueVars, workerVars, future>>

\* close(): a second call returns at once and changes nothing.
CloseFlag ==
  /\ closing = "open"
  /\ closed' = TRUE
  /\ closing' = "flagged"
  /\ UNCHANGED <<submitVars, cancelRequested, reopening, queueVars, workerVars,
                 future>>

CloseCancel ==
  /\ closing = "flagged"
  /\ closing' = "latched"
  /\ cancelRequested' = TRUE
  /\ UNCHANGED <<submitVars, closed, reopening, queueVars, workerVars, future>>

\* put(None) blocks while the queue is full.
ClosePost ==
  /\ closing = "latched"
  /\ Len(queue) < MaxSize
  /\ closing' = "posted"
  /\ queue' = Append(queue, Poison)
  /\ unfinished' = unfinished + 1
  /\ puts' = puts + 1
  /\ UNCHANGED <<submitVars, cancelRequested, closed, reopening, place,
                 workerVars, future>>

-----------------------------------------------------------------------------
(* The worker thread: _run.                                                *)

\* Mutant: task_done() is called for every item as it is taken.
Get_CountsDone ==
  /\ worker = "idle"
  /\ queue # <<>>
  /\ queue' = Tail(queue)
  /\ unfinished' = unfinished - 1
  /\ \/ Head(queue) = Poison /\ worker' = "exited" /\ UNCHANGED current
     \/ Head(queue) # Poison /\ worker' = "took" /\ current' = Head(queue)
  /\ UNCHANGED <<submitVars, flagVars, puts, place, lastCompleted, violations, future>>

Get ==
  /\ worker = "idle"
  /\ queue # <<>>
  /\ queue' = Tail(queue)
  /\ \/ /\ Head(queue) = Poison
        /\ unfinished' = unfinished - 1
        /\ worker' = "exited"
        /\ UNCHANGED current
     \/ /\ Head(queue) # Poison
        /\ current' = Head(queue)
        /\ worker' = "took"
        /\ UNCHANGED unfinished
  /\ UNCHANGED <<submitVars, flagVars, puts, place, lastCompleted, violations, future>>

CheckCancel ==
  /\ worker = "took"
  /\ worker' = IF cancelRequested THEN "raising" ELSE "ordering"
  /\ UNCHANGED <<submitVars, flagVars, queueVars, lastCompleted, violations,
                 current, future>>

\* _active_execution is false here: only this thread sets it, around the call.
InOrder == seqOf[current] > lastCompleted

CheckOrder ==
  /\ worker = "ordering"
  /\ \/ /\ InOrder
        /\ worker' = "claiming"
        /\ UNCHANGED violations
     \/ /\ ~ InOrder
        /\ worker' = "raising"
        /\ violations' = violations + 1
  /\ UNCHANGED <<submitVars, flagVars, queueVars, lastCompleted, current, future>>

\* Mutant: a future that was cancelled is run all the same.
Claim_Cancelled ==
  /\ worker = "claiming"
  /\ future' = [future EXCEPT ![current] = "running"]
  /\ worker' = "running"
  /\ UNCHANGED <<submitVars, flagVars, queueVars, lastCompleted, violations, current>>

\* set_running_or_notify_cancel(): from here the write may reach the device.
Claim ==
  /\ worker = "claiming"
  /\ \/ /\ future[current] = "pending"
        /\ future' = [future EXCEPT ![current] = "running"]
        /\ worker' = "running"
     \/ /\ future[current] # "pending"
        /\ worker' = "settled"
        /\ UNCHANGED future
  /\ UNCHANGED <<submitVars, flagVars, queueVars, lastCompleted, violations, current>>

FnReturns ==
  /\ worker = "running"
  /\ lastCompleted' = seqOf[current]
  /\ future' = [future EXCEPT ![current] = "finished"]
  /\ worker' = "settled"
  /\ UNCHANGED <<submitVars, flagVars, queueVars, violations, current>>

FnRaises ==
  /\ worker = "running"
  /\ worker' = "raising"
  /\ UNCHANGED <<submitVars, flagVars, queueVars, lastCompleted, violations,
                 current, future>>

\* Mutant: the handler does not ask whether the future is done.
TestDone_Skipped ==
  /\ worker = "raising"
  /\ worker' = "failing"
  /\ UNCHANGED <<submitVars, flagVars, queueVars, lastCompleted, violations,
                 current, future>>

\* except: `if not command.future.done()`.
TestDone ==
  /\ worker = "raising"
  /\ worker' = IF future[current] \in DoneState THEN "settled" ELSE "failing"
  /\ UNCHANGED <<submitVars, flagVars, queueVars, lastCompleted, violations,
                 current, future>>

\* set_exception() raises InvalidStateError on a future cancelled since the
\* test; nothing catches that, and the thread ends after task_done().
SetException ==
  /\ worker = "failing"
  /\ \/ /\ future[current] \in DoneState
        /\ worker' = "dying"
        /\ UNCHANGED future
     \/ /\ future[current] \notin DoneState
        /\ future' = [future EXCEPT ![current] = "failed"]
        /\ worker' = "settled"
  /\ UNCHANGED <<submitVars, flagVars, queueVars, lastCompleted, violations, current>>

TaskDone ==
  /\ worker \in {"settled", "dying"}
  /\ unfinished' = unfinished - 1
  /\ current' = NoCommand
  /\ worker' = IF worker = "dying" THEN "dead" ELSE "idle"
  /\ UNCHANGED <<submitVars, flagVars, queue, puts, place, lastCompleted,
                 violations, future>>

-----------------------------------------------------------------------------

WorkerStep ==
  \/ Get \/ CheckCancel \/ CheckOrder \/ Claim \/ FnReturns \/ FnRaises
  \/ TestDone \/ SetException \/ TaskDone

\* Any number of threads, each calling what it likes when it likes.
Next ==
  \/ \E c \in Command :
       SubmitCheck(c) \/ SubmitNumber(c) \/ SubmitPut(c) \/ SubmitAbandon(c)
  \/ \E c \in Command : future[c] # "none" /\ CancelFuture(c)
  \/ RequestCancel \/ ClearCheck \/ ClearCancel
  \/ CloseFlag \/ CloseCancel \/ ClosePost
  \/ WorkerStep

Spec == Init /\ [][Next]_vars

-----------------------------------------------------------------------------
(* Properties                                                              *)

\* Every variable holds a value of its kind; in particular task_done() is never
\* called more often than put() (queue.Queue would raise ValueError).
TypeOK ==
  /\ queue \in Seq(Command \union {Poison})
  /\ unfinished \in Nat
  /\ cancelRequested \in BOOLEAN
  /\ closed \in BOOLEAN
  /\ closing \in {"open", "flagged", "latched", "posted"}
  /\ reopening \in BOOLEAN
  /\ nextSeq \in Nat \ {0}
  /\ lastCompleted \in Nat
  /\ violations \in Nat
  /\ call \in [Command -> CallState]
  /\ seqOf \in [Command -> Nat]
  /\ future \in [Command -> FutureState]
  /\ worker \in WorkerState
  /\ current \in Command \union {NoCommand}
  /\ puts \in Nat
  /\ place \in [Command -> Nat]

\* When join() lets drain() return, nothing that was accepted can still run:
\* every accepted command's future is done (command_queue.py:136, on which the
\* orchestrator's cancel-drain-reopen relies).
DrainedIsSettled ==
  unfinished = 0 => \A c \in Command : call[c] = "accepted" => future[c] \in DoneState

\* Of two commands that completed, the one put later has the greater sequence
\* number, whatever the threads did between taking a number and putting
\* (command_queue.py:90-96, 114).
CompletionOrder ==
  \A a, b \in Command :
    /\ future[a] = "finished"
    /\ future[b] = "finished"
    /\ place[a] < place[b]
    => seqOf[a] < seqOf[b]

-----------------------------------------------------------------------------
(* The inductive invariant: where every accepted command is.               *)

\* How many items get() has removed.
Taken == puts - Len(queue)

\* What the future of the command in hand can be at each point of _run.
HeldFuture ==
  CASE worker \in {"took", "ordering", "claiming"} -> {"pending", "cancelled"}
    [] worker = "running" -> {"running"}
    [] worker \in {"raising", "failing"} -> {"pending", "cancelled", "running"}
    [] OTHER -> DoneState

Accounting ==
  /\ current = NoCommand <=> worker \in {"idle", "exited", "dead"}
  /\ unfinished = Len(queue) + (IF current = NoCommand THEN 0 ELSE 1)
  /\ Len(queue) <= puts

InQueue ==
  \A i \in 1 .. Len(queue) : queue[i] # Poison =>
    /\ call[queue[i]] = "accepted"
    /\ place[queue[i]] = Taken + i
    /\ future[queue[i]] \in {"pending", "cancelled"}

InHand ==
  current # NoCommand =>
    /\ call[current] = "accepted"
    /\ place[current] = Taken
    /\ future[current] \in HeldFuture

Behind ==
  \A c \in Command : call[c] = "accepted" =>
    /\ place[c] \in 1 .. puts
    /\ Taken < place[c] => queue[place[c] - Taken] = c
    /\ place[c] <= Taken /\ c # current => future[c] \in DoneState

NotYet ==
  \A c \in Command : call[c] # "accepted" => place[c] = 0 /\ future[c] = "none"

Ordered ==
  /\ \A c \in Command : future[c] = "finished" => seqOf[c] <= lastCompleted
  /\ worker \in {"claiming", "running"} => InOrder

\* Every accepted command is in the queue at the place its put gave it, in the
\* worker's hand, or settled; task_done() is owed exactly for the first two
\* (command_queue.py:94-134).
IInv ==
  /\ TypeOK
  /\ Accounting
  /\ InQueue
  /\ InHand
  /\ Behind
  /\ NotYet
  /\ Ordered
  /\ CompletionOrder

-----------------------------------------------------------------------------
\* The queue as SerialWriter sees it: a command executes while the worker is
\* inside its function, and has ended once its future is done or the worker is
\* past the function.
PhaseOf(c) ==
  CASE call[c] = "refused" -> "ended"
    [] call[c] \in {"new", "checked", "numbered"} -> "unsent"
    [] call[c] = "accepted" /\ future[c] = "pending" -> "accepted"
    [] call[c] = "accepted" /\ future[c] = "running"
         -> IF worker = "running" THEN "executing" ELSE "ended"
    [] OTHER -> "ended"

Serial == INSTANCE SerialWriter
            WITH ticket <- place, phase <- [c \in Command |-> PhaseOf(c)]

\* Commands run one at a time, in the order in which they were accepted, each
\* at most once, and never after they were cancelled or dropped
\* (the class's docstring, command_queue.py:39).
ImplementsSerialWriter == Serial!Spec
=============================================================================
