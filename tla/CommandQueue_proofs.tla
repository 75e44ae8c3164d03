------------------------ MODULE CommandQueue_proofs -------------------------
(***************************************************************************)
(* Theorems about CommandQueue for any number of commands, any number of   *)
(* client threads and any backlog.                                         *)
(***************************************************************************)
EXTENDS CommandQueue, TLAPS

USE QueueAssumption DEF QueueAssumption

-----------------------------------------------------------------------------
(* Sequences as queue.Queue uses them.                                     *)

\* get() removes the first item; the others move up by one place.
LEMMA TailFacts ==
  ASSUME NEW S, NEW q \in Seq(S), q # <<>>
  PROVE  /\ Len(q) \in Nat \ {0}
         /\ Head(q) = q[1]
         /\ Head(q) \in S
         /\ Tail(q) \in Seq(S)
         /\ Len(Tail(q)) = Len(q) - 1
         /\ \A i \in 1 .. Len(q) - 1 : Tail(q)[i] = q[i + 1]
  OBVIOUS

\* put() adds an item behind those that wait and moves none of them.
LEMMA AppendFacts ==
  ASSUME NEW S, NEW q \in Seq(S), NEW e \in S
  PROVE  /\ Len(q) \in Nat
         /\ Append(q, e) \in Seq(S)
         /\ Len(Append(q, e)) = Len(q) + 1
         /\ Append(q, e)[Len(q) + 1] = e
         /\ \A i \in 1 .. Len(q) : Append(q, e)[i] = q[i]
  OBVIOUS

-----------------------------------------------------------------------------

\* The queue as the constructor leaves it satisfies the invariant.
LEMMA InitInv == Init => IInv
  <1> SUFFICES ASSUME Init PROVE IInv
    OBVIOUS
  <1>1. TypeOK
    <2>1. queue \in Seq(Command \union {Poison})
      BY DEF Init
    <2>2. /\ call \in [Command -> CallState]
          /\ seqOf \in [Command -> Nat]
          /\ future \in [Command -> FutureState]
          /\ place \in [Command -> Nat]
      BY DEF Init, CallState, FutureState
    <2>3. /\ cancelRequested \in BOOLEAN
          /\ closed \in BOOLEAN
          /\ reopening \in BOOLEAN
      BY DEF Init
    <2>4. /\ unfinished \in Nat
          /\ nextSeq \in Nat \ {0}
          /\ lastCompleted \in Nat
          /\ violations \in Nat
          /\ puts \in Nat
      BY DEF Init
    <2>5. /\ closing \in {"open", "flagged", "latched", "posted"}
          /\ worker \in WorkerState
          /\ current \in Command \union {NoCommand}
      BY DEF Init, WorkerState
    <2> QED
      BY <2>1, <2>2, <2>3, <2>4, <2>5 DEF TypeOK
  <1>2. Accounting /\ InQueue /\ InHand
    BY DEF Init, Accounting, InQueue, InHand
  <1>3. Behind /\ NotYet /\ Ordered /\ CompletionOrder
    BY DEF Init, Behind, NotYet, Ordered, CompletionOrder
  <1> QED
    BY <1>1, <1>2, <1>3 DEF IInv

-----------------------------------------------------------------------------
(* The threads that submit.                                                *)

\* The tests of the flags, and a call that is given up, move no command.
LEMMA SubmitCheckInv ==
  ASSUME IInv, NEW c \in Command, SubmitCheck(c) \/ SubmitAbandon(c)
  PROVE  IInv'
  <1> USE DEF IInv, TypeOK, SubmitCheck, SubmitAbandon, queueVars, flagVars, workerVars
  <1>1. TypeOK'
    BY DEF CallState
  <1>2. Accounting'
    BY DEF Accounting
  <1>3. InQueue' /\ InHand'
    BY SMTT(30) DEF InQueue, InHand, HeldFuture, Taken
  <1>4. Behind' /\ NotYet'
    BY DEF Behind, NotYet, Taken
  <1>5. Ordered' /\ CompletionOrder'
    BY DEF Ordered, CompletionOrder, InOrder
  <1> QED
    BY <1>1, <1>2, <1>3, <1>4, <1>5

\* Only a command that is not yet accepted, hence not finished, gets a number.
LEMMA SubmitNumberInv ==
  ASSUME IInv, NEW c \in Command, SubmitNumber(c)
  PROVE  IInv'
  <1> USE DEF IInv, TypeOK, SubmitNumber, queueVars, flagVars, workerVars
  <1>1. TypeOK'
    BY DEF CallState
  <1>2. Accounting'
    BY DEF Accounting
  <1>3. InQueue' /\ InHand'
    BY SMTT(30) DEF InQueue, InHand, HeldFuture, Taken
  <1>4. Behind' /\ NotYet'
    BY DEF Behind, NotYet, Taken
  <1>5. future[c] = "none" /\ (current # NoCommand => c # current)
    BY DEF NotYet, InHand
  <1>6. Ordered'
    BY <1>5 DEF Ordered, InOrder, Accounting
  <1>7. CompletionOrder'
    BY <1>5 DEF CompletionOrder
  <1> QED
    BY <1>1, <1>2, <1>3, <1>4, <1>6, <1>7

\* put_nowait appends at the place it records, or leaves the queue alone.
LEMMA SubmitPutInv ==
  ASSUME IInv, NEW c \in Command, SubmitPut(c)
  PROVE  IInv'
  <1> USE DEF IInv, TypeOK, SubmitPut, flagVars, workerVars
  <1>1. CASE Len(queue) >= MaxSize /\ call' = [call EXCEPT ![c] = "refused"]
             /\ UNCHANGED <<queueVars, future>>
    <2> USE <1>1 DEF queueVars
    <2>1. TypeOK'
      BY DEF CallState
    <2>2. Accounting'
      BY DEF Accounting
    <2>3. InQueue' /\ InHand'
      BY DEF InQueue, InHand, HeldFuture, Taken
    <2>4. Behind' /\ NotYet'
      BY DEF Behind, NotYet, Taken
    <2>5. Ordered' /\ CompletionOrder'
      BY DEF Ordered, CompletionOrder, InOrder
    <2> QED
      BY <2>1, <2>2, <2>3, <2>4, <2>5
  <1>2. CASE Len(queue) < MaxSize /\ queue' = Append(queue, c)
             /\ unfinished' = unfinished + 1 /\ puts' = puts + 1
             /\ place' = [place EXCEPT ![c] = puts + 1]
             /\ future' = [future EXCEPT ![c] = "pending"]
             /\ call' = [call EXCEPT ![c] = "accepted"]
    <2> DEFINE n == Len(queue)
    <2>1. /\ n \in Nat
          /\ queue' \in Seq(Command \union {Poison})
          /\ Len(queue') = n + 1
          /\ queue'[n + 1] = c
          /\ \A i \in 1 .. n : queue'[i] = queue[i]
      BY <1>2, AppendFacts
    <2>2. TypeOK'
      BY <1>2, <2>1 DEF CallState, FutureState
    <2>3. Accounting' /\ Taken' = Taken /\ Taken \in Nat
      BY <1>2, <2>1 DEF Accounting, Taken
    <2>4. call[c] # "accepted" /\ (current # NoCommand => c # current)
      BY DEF InHand
    <2>5. InQueue'
      BY <1>2, <2>1, <2>3, <2>4 DEF InQueue, Taken
    <2>6. InHand'
      BY <1>2, <2>3, <2>4 DEF InHand, HeldFuture
    <2>7. Behind'
      BY <1>2, <2>1, <2>3, <2>4 DEF Behind, Taken
    <2>8. NotYet'
      BY <1>2 DEF NotYet
    <2>9. Ordered' /\ CompletionOrder'
      BY <1>2 DEF Ordered, CompletionOrder, InOrder
    <2> QED
      BY <2>2, <2>3, <2>5, <2>6, <2>7, <2>8, <2>9
  <1> QED
    BY <1>1, <1>2

-----------------------------------------------------------------------------
(* The control calls.                                                      *)

\* Future.cancel() acts on a pending future only, so a command in hand that
\* runs is not touched.
LEMMA CancelFutureInv ==
  ASSUME IInv, NEW c \in Command, CancelFuture(c)
  PROVE  IInv'
  <1> USE DEF IInv, TypeOK, CancelFuture, submitVars, queueVars, flagVars, workerVars
  <1>1. TypeOK'
    BY DEF FutureState
  <1>2. Accounting'
    BY DEF Accounting
  <1>3. InQueue'
    BY DEF InQueue, Taken
  <1>4. InHand'
    <2>1. HeldFuture' = HeldFuture
      BY DEF HeldFuture
    <2>2. "pending" \in HeldFuture => "cancelled" \in HeldFuture
      BY DEF HeldFuture, DoneState
    <2> QED
      BY <2>1, <2>2 DEF InHand, Taken
  <1>5. Behind' /\ NotYet'
    BY DEF Behind, NotYet, Taken, DoneState
  <1>6. Ordered' /\ CompletionOrder'
    BY DEF Ordered, CompletionOrder, InOrder
  <1> QED
    BY <1>1, <1>2, <1>3, <1>4, <1>5, <1>6

\* The flags take no part in where the commands are.
LEMMA FlagsInv ==
  ASSUME IInv, UNCHANGED <<submitVars, queueVars, workerVars, future>>,
         cancelRequested' \in BOOLEAN, closed' \in BOOLEAN, reopening' \in BOOLEAN,
         closing' \in {"open", "flagged", "latched", "posted"}
  PROVE  IInv'
  <1> USE DEF IInv, submitVars, queueVars, workerVars
  <1>1. TypeOK'
    BY DEF TypeOK
  <1>2. Accounting' /\ InQueue' /\ InHand'
    BY DEF Accounting, InQueue, InHand, HeldFuture, Taken
  <1>3. Behind' /\ NotYet'
    BY DEF Behind, NotYet, Taken
  <1>4. Ordered' /\ CompletionOrder'
    BY DEF Ordered, CompletionOrder, InOrder
  <1> QED
    BY <1>1, <1>2, <1>3, <1>4

\* request_cancel, clear_cancel and the first two steps of close.
LEMMA ControlInv ==
  ASSUME IInv,
         RequestCancel \/ ClearCheck \/ ClearCancel \/ CloseFlag \/ CloseCancel
  PROVE  IInv'
  <1>1. UNCHANGED <<submitVars, queueVars, workerVars, future>>
    BY DEF RequestCancel, ClearCheck, ClearCancel, CloseFlag, CloseCancel
  <1>2. cancelRequested \in BOOLEAN /\ closed \in BOOLEAN /\ reopening \in BOOLEAN
    BY DEF IInv, TypeOK
  <1>3. closing \in {"open", "flagged", "latched", "posted"}
    BY DEF IInv, TypeOK
  <1>4. /\ cancelRequested' \in BOOLEAN
        /\ closed' \in BOOLEAN
        /\ reopening' \in BOOLEAN
    BY <1>2 DEF RequestCancel, ClearCheck, ClearCancel, CloseFlag, CloseCancel
  <1>5. closing' \in {"open", "flagged", "latched", "posted"}
    BY <1>3 DEF RequestCancel, ClearCheck, ClearCancel, CloseFlag, CloseCancel
  <1> QED
    BY <1>1, <1>4, <1>5, FlagsInv

\* close() appends the poison, which is no command.
LEMMA ClosePostInv ==
  ASSUME IInv, ClosePost
  PROVE  IInv'
  <1> USE DEF IInv, TypeOK, ClosePost, submitVars, workerVars
  <1> DEFINE n == Len(queue)
  <1>1. /\ n \in Nat
        /\ queue' \in Seq(Command \union {Poison})
        /\ Len(queue') = n + 1
        /\ queue'[n + 1] = Poison
        /\ \A i \in 1 .. n : queue'[i] = queue[i]
    BY AppendFacts
  <1>2. TypeOK'
    BY <1>1
  <1>3. Accounting' /\ Taken' = Taken /\ Taken \in Nat
    BY <1>1 DEF Accounting, Taken
  <1>4. InQueue' /\ InHand'
    BY <1>1, <1>3, SMTT(30) DEF InQueue, InHand, HeldFuture, Taken
  <1>5. Behind' /\ NotYet'
    BY <1>1, <1>3 DEF Behind, NotYet, Taken
  <1>6. Ordered' /\ CompletionOrder'
    BY DEF Ordered, CompletionOrder, InOrder
  <1> QED
    BY <1>2, <1>3, <1>4, <1>5, <1>6

-----------------------------------------------------------------------------
(* The worker.                                                             *)

\* get(): the first item moves from the queue into the worker's hand.
LEMMA GetInv ==
  ASSUME IInv, Get
  PROVE  IInv'
  <1> USE DEF IInv, TypeOK, Get, submitVars, flagVars
  <1> DEFINE n == Len(queue)
  <1>1. /\ n \in Nat \ {0}
        /\ Head(queue) = queue[1]
        /\ Head(queue) \in Command \union {Poison}
        /\ queue' \in Seq(Command \union {Poison})
        /\ Len(queue') = n - 1
        /\ \A i \in 1 .. n - 1 : queue'[i] = queue[i + 1]
    BY TailFacts
  <1>2. current = NoCommand
    BY DEF Accounting
  <1>3. Taken \in Nat /\ Taken' = Taken + 1
    BY <1>1 DEF Taken, Accounting
  <1>4. TypeOK'
    BY <1>1, <1>2 DEF WorkerState, Accounting
  <1>5. Accounting'
    BY <1>1, <1>2 DEF Accounting
  <1>6. InQueue'
    <2> SUFFICES ASSUME NEW i \in 1 .. n - 1, queue'[i] # Poison
                 PROVE  /\ call[queue'[i]] = "accepted"
                        /\ place[queue'[i]] = Taken + 1 + i
                        /\ future[queue'[i]] \in {"pending", "cancelled"}
      BY <1>1, <1>3 DEF InQueue
    <2>1. i + 1 \in 1 .. n /\ queue'[i] = queue[i + 1]
      BY <1>1
    <2> QED
      BY <2>1, <1>3 DEF InQueue
  <1>7. InHand'
    <2>1. CASE Head(queue) = Poison
      BY <2>1, <1>2 DEF InHand
    <2>2. CASE Head(queue) # Poison
      <3>1. 1 \in 1 .. n /\ current' = queue[1] /\ queue[1] # Poison
        BY <2>2, <1>1
      <3>2. /\ call[current'] = "accepted"
            /\ place[current'] = Taken'
            /\ future[current'] \in {"pending", "cancelled"}
        BY <3>1, <1>3 DEF InQueue
      <3>3. HeldFuture' = {"pending", "cancelled"}
        BY <2>2 DEF HeldFuture
      <3> QED
        BY <3>2, <3>3 DEF InHand
    <2> QED
      BY <2>1, <2>2
  <1>8. Behind'
    <2> SUFFICES ASSUME NEW c \in Command, call[c] = "accepted"
                 PROVE  /\ place[c] \in 1 .. puts
                        /\ Taken + 1 < place[c] => queue'[place[c] - (Taken + 1)] = c
                        /\ place[c] <= Taken + 1 /\ c # current' => future[c] \in DoneState
      BY <1>3 DEF Behind
    <2>1. /\ place[c] \in 1 .. puts
          /\ Taken < place[c] => queue[place[c] - Taken] = c
          /\ place[c] <= Taken => future[c] \in DoneState
      BY <1>2 DEF Behind
    <2>2. ASSUME Taken + 1 < place[c]
          PROVE  queue'[place[c] - (Taken + 1)] = c
      <3>1. place[c] - (Taken + 1) \in 1 .. n - 1
        BY <1>1, <1>3, <2>1, <2>2 DEF Taken
      <3>2. queue'[place[c] - (Taken + 1)] = queue[place[c] - Taken]
        BY <1>1, <1>3, <2>1, <3>1
      <3>3. Taken < place[c]
        BY <1>3, <2>1, <2>2
      <3> QED
        BY <2>1, <3>2, <3>3
    <2>3. ASSUME place[c] = Taken + 1
          PROVE  c = current'
      BY <1>1, <1>3, <2>1, <2>3
    <2>4. ASSUME place[c] <= Taken + 1, c # current'
          PROVE  future[c] \in DoneState
      <3>1. place[c] <= Taken
        BY <1>3, <2>1, <2>3, <2>4
      <3> QED
        BY <2>1, <3>1
    <2> QED
      BY <2>1, <2>2, <2>4
  <1>9. NotYet' /\ Ordered' /\ CompletionOrder'
    BY DEF NotYet, Ordered, CompletionOrder, InOrder
  <1> QED
    BY <1>4, <1>5, <1>6, <1>7, <1>8, <1>9

\* The steps that only move the worker from one point of _run to the next.
LEMMA WorkerMovesInv ==
  ASSUME IInv, CheckCancel \/ CheckOrder \/ FnRaises \/ TestDone
  PROVE  IInv'
  <1> USE DEF IInv, TypeOK
  <1>1. /\ UNCHANGED <<submitVars, flagVars, queueVars, lastCompleted, current, future>>
        /\ violations' \in Nat
    BY DEF CheckCancel, CheckOrder, FnRaises, TestDone
  <1>2. /\ current # NoCommand
        /\ worker' \in {"ordering", "claiming", "raising", "failing", "settled"}
    BY DEF CheckCancel, CheckOrder, FnRaises, TestDone, Accounting
  <1> USE <1>1 DEF submitVars, flagVars, queueVars
  <1>3. TypeOK'
    BY <1>2 DEF WorkerState
  <1>4. Accounting'
    BY <1>2 DEF Accounting
  <1>5. InQueue' /\ Behind' /\ NotYet' /\ CompletionOrder'
    BY DEF InQueue, Behind, NotYet, CompletionOrder, Taken
  <1>6. future[current] \in HeldFuture'
    <2>1. future[current] \in HeldFuture
      BY <1>2 DEF InHand
    <2>2. CASE CheckCancel
      BY <2>1, <2>2 DEF CheckCancel, HeldFuture
    <2>3. CASE CheckOrder
      BY <2>1, <2>3 DEF CheckOrder, HeldFuture
    <2>4. CASE FnRaises
      BY <2>1, <2>4 DEF FnRaises, HeldFuture
    <2>5. CASE TestDone
      BY <2>1, <2>5 DEF TestDone, HeldFuture, DoneState
    <2> QED
      BY <2>2, <2>3, <2>4, <2>5
  <1>7. InHand'
    BY <1>2, <1>6 DEF InHand, Taken
  <1>8. worker' \in {"claiming", "running"} => InOrder
    BY DEF CheckCancel, CheckOrder, FnRaises, TestDone
  <1>9. Ordered'
    BY <1>8 DEF Ordered, InOrder
  <1> QED
    BY <1>3, <1>4, <1>5, <1>7, <1>9

\* set_running_or_notify_cancel() and set_exception() change the future of the
\* command in hand.
LEMMA ClaimInv ==
  ASSUME IInv, Claim \/ SetException
  PROVE  IInv'
  <1> USE DEF IInv, TypeOK
  <1>1. /\ UNCHANGED <<submitVars, flagVars, queueVars, lastCompleted, violations, current>>
        /\ worker' \in {"running", "settled", "dying"}
        /\ worker \in {"claiming", "failing"}
        /\ worker' = "running" => worker = "claiming"
    BY DEF Claim, SetException
  <1> USE <1>1 DEF submitVars, flagVars, queueVars
  <1>2. /\ current \in Command
        /\ call[current] = "accepted"
        /\ place[current] = Taken
        /\ future[current] \in HeldFuture
    BY DEF Accounting, InHand
  <1>3. /\ \A c \in Command \ {current} : future'[c] = future[c]
        /\ future' \in [Command -> FutureState]
        /\ future'[current] # "finished" /\ future'[current] \in HeldFuture'
    <2>1. CASE Claim
      BY <1>2, <2>1 DEF Claim, HeldFuture, FutureState, DoneState
    <2>2. CASE SetException
      BY <1>2, <2>2 DEF SetException, HeldFuture, FutureState, DoneState
    <2> QED
      BY <2>1, <2>2
  <1>4. TypeOK'
    BY <1>3 DEF WorkerState
  <1>5. Accounting'
    BY DEF Accounting
  <1>6. \A i \in 1 .. Len(queue) : queue[i] # Poison => queue[i] \in Command \ {current}
    BY <1>2 DEF InQueue, Taken
  <1>7. InQueue'
    BY <1>3, <1>6 DEF InQueue, Taken
  <1>8. InHand'
    BY <1>2, <1>3 DEF InHand, Taken
  <1>9. Behind' /\ NotYet'
    BY <1>2, <1>3 DEF Behind, NotYet, Taken
  <1>10. Ordered'
    BY <1>3 DEF Ordered, InOrder
  <1>11. CompletionOrder'
    BY <1>3 DEF CompletionOrder
  <1> QED
    BY <1>4, <1>5, <1>7, <1>8, <1>9, <1>10, <1>11

\* The function returned: the command in hand is the last that completed, and
\* has the greatest number and the last place of those that did.
LEMMA FnReturnsInv ==
  ASSUME IInv, FnReturns
  PROVE  IInv'
  <1> USE DEF IInv, TypeOK, FnReturns, submitVars, flagVars, queueVars
  <1>1. /\ current \in Command
        /\ call[current] = "accepted"
        /\ place[current] = Taken
        /\ seqOf[current] > lastCompleted
    BY DEF Accounting, InHand, Ordered, InOrder
  <1>2. TypeOK' /\ Accounting'
    BY <1>1 DEF Accounting, FutureState, WorkerState
  <1>3. \A i \in 1 .. Len(queue) : queue[i] # Poison => queue[i] # current
    BY <1>1 DEF InQueue, Taken
  <1>4. InQueue'
    BY <1>3 DEF InQueue, Taken
  <1>5. InHand'
    BY <1>1 DEF InHand, HeldFuture, DoneState, Taken
  <1>6. Behind' /\ NotYet'
    BY <1>1 DEF Behind, NotYet, Taken, DoneState
  <1>7. Ordered'
    BY <1>1 DEF Ordered
  <1>8. \A c \in Command \ {current} : future[c] = "finished" =>
          place[c] <= Taken /\ seqOf[c] < seqOf[current]
    <2> SUFFICES ASSUME NEW c \in Command \ {current}, future[c] = "finished"
                 PROVE  place[c] <= Taken /\ seqOf[c] < seqOf[current]
      OBVIOUS
    <2>1. call[c] = "accepted"
      BY DEF NotYet
    <2>2. place[c] <= Taken
      <3> SUFFICES ASSUME Taken < place[c] PROVE FALSE
        BY <2>1 DEF Behind, Taken
      <3>1. /\ place[c] - Taken \in 1 .. Len(queue)
            /\ queue[place[c] - Taken] = c
        BY <2>1 DEF Behind, Taken
      <3> QED
        BY <3>1 DEF InQueue
    <2> QED
      BY <1>1, <2>2 DEF Ordered
  <1>9. CompletionOrder'
    BY <1>1, <1>8 DEF CompletionOrder
  <1> QED
    BY <1>2, <1>4, <1>5, <1>6, <1>7, <1>9

\* task_done(): the command in hand is settled, nothing else is owed for it.
LEMMA TaskDoneInv ==
  ASSUME IInv, TaskDone
  PROVE  IInv'
  <1> USE DEF IInv, TypeOK, TaskDone, submitVars, flagVars
  <1>1. current # NoCommand /\ future[current] \in DoneState
    BY DEF Accounting, InHand, HeldFuture
  <1>2. TypeOK' /\ Accounting'
    BY <1>1 DEF Accounting, WorkerState
  <1>3. InQueue' /\ InHand'
    BY DEF InQueue, InHand, Taken
  <1>4. Behind' /\ NotYet'
    BY <1>1 DEF Behind, NotYet, Taken
  <1>5. Ordered' /\ CompletionOrder'
    BY DEF Ordered, CompletionOrder
  <1> QED
    BY <1>2, <1>3, <1>4, <1>5

\* Every step of every thread keeps the invariant.
LEMMA NextInv == IInv /\ [Next]_vars => IInv'
  <1> SUFFICES ASSUME IInv, [Next]_vars PROVE IInv'
    OBVIOUS
  <1>1. CASE \E c \in Command :
               SubmitCheck(c) \/ SubmitNumber(c) \/ SubmitPut(c) \/ SubmitAbandon(c)
    BY <1>1, SubmitCheckInv, SubmitNumberInv, SubmitPutInv
  <1>2. CASE \E c \in Command : future[c] # "none" /\ CancelFuture(c)
    BY <1>2, CancelFutureInv
  <1>3. CASE RequestCancel \/ ClearCheck \/ ClearCancel \/ CloseFlag \/ CloseCancel
    BY <1>3, ControlInv
  <1>4. CASE ClosePost
    BY <1>4, ClosePostInv
  <1>5. CASE WorkerStep
    BY <1>5, GetInv, WorkerMovesInv, ClaimInv, FnReturnsInv, TaskDoneInv DEF WorkerStep
  <1>6. CASE UNCHANGED vars
    <2>1. /\ UNCHANGED <<submitVars, queueVars, workerVars, future>>
          /\ UNCHANGED <<cancelRequested, closed, reopening, closing>>
      BY <1>6 DEF vars, flagVars
    <2>2. /\ cancelRequested \in BOOLEAN
          /\ closed \in BOOLEAN
          /\ reopening \in BOOLEAN
          /\ closing \in {"open", "flagged", "latched", "posted"}
      BY DEF IInv, TypeOK
    <2> QED
      BY <2>1, <2>2, FlagsInv
  <1> QED
    BY <1>1, <1>2, <1>3, <1>4, <1>5, <1>6 DEF Next

-----------------------------------------------------------------------------

\* The invariant holds for every queue (command_queue.py:78-146).
THEOREM Invariant == Spec => []IInv
  <1> QED
    BY InitInv, NextInv, PTL DEF Spec

\* Every variable keeps its type; in particular the counter behind join() never
\* becomes negative (command_queue.py:107, 134).
THEOREM TypeCorrect == Spec => []TypeOK
  <1>1. IInv => TypeOK
    BY DEF IInv
  <1> QED
    BY <1>1, Invariant, PTL

\* When drain() returns, every accepted command is settled (136-137).
THEOREM DrainIsComplete == Spec => []DrainedIsSettled
  <1>1. IInv => DrainedIsSettled
    <2> SUFFICES ASSUME IInv, unfinished = 0, NEW c \in Command, call[c] = "accepted"
                 PROVE  future[c] \in DoneState
      BY DEF DrainedIsSettled
    <2>1. Len(queue) = 0 /\ current = NoCommand
      BY DEF IInv, TypeOK, Accounting
    <2>2. place[c] <= Taken
      BY <2>1 DEF IInv, TypeOK, Behind, Taken
    <2> QED
      BY <2>1, <2>2 DEF IInv, Behind
  <1> QED
    BY <1>1, Invariant, PTL

\* Completed commands have the order of their sequence numbers (114, 128).
THEOREM CompletesInOrder == Spec => []CompletionOrder
  <1>1. IInv => CompletionOrder
    BY DEF IInv
  <1> QED
    BY <1>1, Invariant, PTL

-----------------------------------------------------------------------------
(* The queue implements SerialWriter.                                      *)

\* The constructor's queue is SerialWriter's initial state.
LEMMA InitRefines == Init => Serial!Init
  <1> SUFFICES ASSUME Init PROVE Serial!Init
    OBVIOUS
  <1>1. \A c \in Command : PhaseOf(c) = "unsent"
    BY DEF Init, PhaseOf
  <1> QED
    BY <1>1 DEF Init, Serial!Init

\* What a step must do to the phases, for each step of the abstract writer.
LEMMA StutterRefines ==
  ASSUME place' = place, \A c \in Command : PhaseOf(c)' = PhaseOf(c)
  PROVE  UNCHANGED Serial!serialVars
  BY DEF Serial!serialVars

\* A step that ends one command, which had been accepted or was executing.
LEMMA EndRefines ==
  ASSUME NEW c \in Command, place' = place,
         PhaseOf(c) \in {"accepted", "executing"}, PhaseOf(c)' = "ended",
         \A d \in Command \ {c} : PhaseOf(d)' = PhaseOf(d)
  PROVE  Serial!Next
  <1>1. Serial!End(c)
    BY DEF Serial!End
  <1> QED
    BY <1>1 DEF Serial!Next

\* A step that refuses one command.
LEMMA RefuseRefines ==
  ASSUME NEW c \in Command, place' = place,
         PhaseOf(c) = "unsent", PhaseOf(c)' = "ended",
         \A d \in Command \ {c} : PhaseOf(d)' = PhaseOf(d)
  PROVE  Serial!Next
  <1>1. Serial!Refuse(c)
    BY DEF Serial!Refuse
  <1> QED
    BY <1>1 DEF Serial!Next

\* submit(): accepted at the back, refused, or still on its way.
LEMMA SubmitRefines ==
  ASSUME IInv, NEW c \in Command,
         SubmitCheck(c) \/ SubmitNumber(c) \/ SubmitPut(c) \/ SubmitAbandon(c)
  PROVE  [Serial!Next]_(Serial!serialVars)
  <1> USE DEF IInv, TypeOK, queueVars, workerVars
  <1>1. call[c] \in {"new", "checked", "numbered"} /\ PhaseOf(c) = "unsent"
    BY DEF SubmitCheck, SubmitNumber, SubmitPut, SubmitAbandon, PhaseOf
  <1>2. \A d \in Command \ {c} : PhaseOf(d)' = PhaseOf(d)
    BY SMTT(30) DEF SubmitCheck, SubmitNumber, SubmitPut, SubmitAbandon, PhaseOf
  <1>3. CASE place' = place
    <2>1. call'[c] \in {"checked", "numbered", "refused"}
      BY <1>1, <1>3 DEF SubmitCheck, SubmitNumber, SubmitPut, SubmitAbandon, NotYet
    <2>2. PhaseOf(c)' \in {"unsent", "ended"}
      BY <2>1 DEF PhaseOf
    <2> QED
      BY <1>1, <1>2, <1>3, <2>2, StutterRefines, RefuseRefines
  <1>4. CASE place' # place
    <2>1. /\ place' = [place EXCEPT ![c] = puts + 1]
          /\ call'[c] = "accepted"
          /\ future'[c] = "pending"
      BY <1>4 DEF SubmitCheck, SubmitNumber, SubmitPut, SubmitAbandon
    <2>2. PhaseOf(c)' = "accepted"
      BY <2>1 DEF PhaseOf
    <2>3. \A d \in Command : place[d] < puts + 1
      <3> SUFFICES ASSUME NEW d \in Command PROVE place[d] < puts + 1
        OBVIOUS
      <3>1. puts \in Nat /\ place[d] \in Nat
        OBVIOUS
      <3>2. CASE call[d] = "accepted"
        BY <3>1, <3>2 DEF Behind
      <3>3. CASE call[d] # "accepted"
        BY <3>1, <3>3 DEF NotYet
      <3> QED
        BY <3>2, <3>3
    <2>4. Serial!Accept(c)
      BY <1>1, <1>2, <2>1, <2>2, <2>3 DEF Serial!Accept
    <2> QED
      BY <2>4 DEF Serial!Next
  <1> QED
    BY <1>3, <1>4

\* Future.cancel() ends a pending command and no other.
LEMMA CancelRefines ==
  ASSUME IInv, NEW c \in Command, CancelFuture(c)
  PROVE  [Serial!Next]_(Serial!serialVars)
  <1> USE DEF IInv, TypeOK, CancelFuture, submitVars, queueVars, workerVars
  <1>1. place' = place /\ \A d \in Command \ {c} : PhaseOf(d)' = PhaseOf(d)
    BY DEF PhaseOf
  <1>2. CASE future[c] = "pending"
    <2>1. call[c] = "accepted"
      BY <1>2 DEF NotYet
    <2>2. PhaseOf(c) = "accepted" /\ PhaseOf(c)' = "ended"
      BY <1>2, <2>1 DEF PhaseOf
    <2> QED
      BY <1>1, <2>2, EndRefines
  <1>3. CASE future[c] # "pending"
    <2>1. PhaseOf(c)' = PhaseOf(c)
      BY <1>3 DEF PhaseOf
    <2> QED
      BY <1>1, <2>1, StutterRefines
  <1> QED
    BY <1>2, <1>3

\* The commands other than the one in hand do not run, so the worker's place in
\* _run tells nothing about them.
LEMMA OnlyCurrentRuns ==
  ASSUME IInv, NEW c \in Command, c # current
  PROVE  future[c] # "running"
  <1> SUFFICES ASSUME future[c] = "running" PROVE FALSE
    OBVIOUS
  <1>1. call[c] = "accepted"
    BY DEF IInv, TypeOK, NotYet
  <1>2. CASE Taken < place[c]
    <2>1. /\ place[c] - Taken \in 1 .. Len(queue)
          /\ queue[place[c] - Taken] = c
      BY <1>1, <1>2 DEF IInv, TypeOK, Behind, Taken, Accounting
    <2> QED
      BY <2>1 DEF IInv, InQueue
  <1>3. CASE ~ (Taken < place[c])
    <2>1. place[c] <= Taken
      BY <1>3 DEF IInv, TypeOK, Taken
    <2>2. future[c] \in DoneState
      BY <1>1, <2>1 DEF IInv, Behind
    <2> QED
      BY <2>2 DEF DoneState
  <1> QED
    BY <1>2, <1>3

\* The worker begins the command in hand once all before it have ended, ends it,
\* or does something the abstract writer does not see.
LEMMA InHandRefines ==
  ASSUME IInv, NEW c \in Command, current = c, UNCHANGED <<place, call>>,
         \A d \in Command \ {c} : PhaseOf(d)' = PhaseOf(d),
         \/ CheckCancel \/ CheckOrder \/ Claim \/ FnReturns \/ FnRaises
         \/ TestDone \/ SetException \/ TaskDone
  PROVE  [Serial!Next]_(Serial!serialVars)
  <1>1. /\ current # NoCommand
        /\ call[c] = "accepted"
        /\ call'[c] = "accepted"
        /\ place[c] = Taken
        /\ future[c] \in HeldFuture
        /\ future \in [Command -> FutureState]
    BY DEF IInv, TypeOK, InHand
  <1>2. PhaseOf(c)' = PhaseOf(c) => UNCHANGED Serial!serialVars
    BY StutterRefines
  <1>3. PhaseOf(c) \in {"accepted", "executing"} /\ PhaseOf(c)' = "ended" => Serial!Next
    BY EndRefines
  <1>4. CASE CheckCancel \/ CheckOrder \/ TestDone \/ TaskDone
    <2>1. future' = future /\ worker # "running" /\ worker' # "running"
      BY <1>4 DEF CheckCancel, CheckOrder, TestDone, TaskDone
    <2>2. PhaseOf(c)' = PhaseOf(c)
      BY <1>1, <2>1 DEF PhaseOf
    <2> QED
      BY <1>2, <2>2
  <1>5. CASE Claim
    <2>1. future[c] \in {"pending", "cancelled"}
      BY <1>1, <1>5 DEF Claim, HeldFuture
    <2>2. CASE future[c] = "pending"
      <3>1. PhaseOf(c) = "accepted" /\ PhaseOf(c)' = "executing"
        BY <1>1, <1>5, <2>2 DEF Claim, PhaseOf
      <3>2. \A d \in Command : 0 < place[d] /\ place[d] < place[c] => PhaseOf(d) = "ended"
        <4> SUFFICES ASSUME NEW d \in Command, 0 < place[d], place[d] < place[c]
                     PROVE  PhaseOf(d) = "ended"
          OBVIOUS
        <4>1. call[d] = "accepted" /\ d # current
          BY DEF IInv, TypeOK, NotYet
        <4>2. future[d] \in DoneState
          BY <1>1, <4>1 DEF IInv, TypeOK, Behind, Taken
        <4> QED
          BY <4>1, <4>2 DEF PhaseOf, DoneState
      <3>3. Serial!Begin(c)
        BY <3>1, <3>2 DEF Serial!Begin
      <3> QED
        BY <3>3 DEF Serial!Next
    <2>3. CASE future[c] = "cancelled"
      <3>1. PhaseOf(c)' = PhaseOf(c)
        BY <1>1, <1>5, <2>3 DEF Claim, PhaseOf
      <3> QED
        BY <1>2, <3>1
    <2> QED
      BY <2>1, <2>2, <2>3
  <1>6. CASE FnReturns \/ FnRaises
    <2>1. future[c] = "running"
      BY <1>1, <1>6 DEF FnReturns, FnRaises, HeldFuture
    <2>2. PhaseOf(c) = "executing" /\ PhaseOf(c)' = "ended"
      BY <1>1, <1>6, <2>1 DEF FnReturns, FnRaises, PhaseOf
    <2> QED
      BY <1>3, <2>2
  <1>7. CASE SetException
    <2>1. future[c] \in {"pending", "cancelled", "running"}
      BY <1>1, <1>7 DEF SetException, HeldFuture
    <2>2. CASE future[c] = "pending"
      <3>1. PhaseOf(c) = "accepted" /\ PhaseOf(c)' = "ended"
        BY <1>1, <1>7, <2>2 DEF SetException, PhaseOf, DoneState
      <3> QED
        BY <1>3, <3>1
    <2>3. CASE future[c] # "pending"
      <3>1. PhaseOf(c)' = PhaseOf(c)
        BY <1>1, <1>7, <2>1, <2>3 DEF SetException, PhaseOf, DoneState
      <3> QED
        BY <1>2, <3>1
    <2> QED
      BY <2>2, <2>3
  <1> QED
    BY <1>4, <1>5, <1>6, <1>7

\* A step of the worker shows only in the command in hand.
LEMMA WorkerRefines ==
  ASSUME IInv, WorkerStep
  PROVE  [Serial!Next]_(Serial!serialVars)
  <1>1. UNCHANGED <<place, call>>
    BY DEF WorkerStep, Get, CheckCancel, CheckOrder, Claim, FnReturns, FnRaises,
           TestDone, SetException, TaskDone, submitVars, queueVars
  <1>2. \A d \in Command \ {current} : PhaseOf(d)' = PhaseOf(d)
    <2> SUFFICES ASSUME NEW d \in Command \ {current} PROVE PhaseOf(d)' = PhaseOf(d)
      OBVIOUS
    <2>1. future[d] # "running"
      BY OnlyCurrentRuns
    <2>2. future'[d] = future[d]
      BY DEF IInv, TypeOK, WorkerStep, Get, CheckCancel, CheckOrder, Claim, FnReturns,
             FnRaises, TestDone, SetException, TaskDone
    <2> QED
      BY <1>1, <2>1, <2>2 DEF PhaseOf
  <1>3. CASE Get
    <2>1. current \notin Command
      BY <1>3 DEF IInv, Get, Accounting
    <2>2. \A d \in Command : PhaseOf(d)' = PhaseOf(d)
      BY <1>2, <2>1
    <2> QED
      BY <1>1, <2>2, StutterRefines
  <1>4. CASE ~ Get
    <2>1. \/ CheckCancel \/ CheckOrder \/ Claim \/ FnReturns \/ FnRaises
          \/ TestDone \/ SetException \/ TaskDone
      BY <1>4 DEF WorkerStep
    <2>2. current \in Command
      BY <2>1 DEF IInv, TypeOK, Accounting, CheckCancel, CheckOrder, Claim, FnReturns,
                  FnRaises, TestDone, SetException, TaskDone
    <2> QED
      BY <1>1, <1>2, <2>1, <2>2, InHandRefines
  <1> QED
    BY <1>3, <1>4

\* The control calls do not show in the abstract writer.
LEMMA ControlRefines ==
  ASSUME UNCHANGED <<submitVars, workerVars, place, future>>
  PROVE  UNCHANGED Serial!serialVars
  <1>1. \A c \in Command : PhaseOf(c)' = PhaseOf(c)
    BY DEF PhaseOf, submitVars, workerVars
  <1> QED
    BY <1>1, StutterRefines

\* DeviceCommandQueue is a single serial writer (command_queue.py:39).
THEOREM QueueIsSerialWriter == Spec => ImplementsSerialWriter
  <1>1. IInv /\ [Next]_vars => [Serial!Next]_(Serial!serialVars)
    <2> SUFFICES ASSUME IInv, [Next]_vars
                 PROVE  [Serial!Next]_(Serial!serialVars)
      OBVIOUS
    <2>1. CASE \E c \in Command :
                 SubmitCheck(c) \/ SubmitNumber(c) \/ SubmitPut(c) \/ SubmitAbandon(c)
      BY <2>1, SubmitRefines
    <2>2. CASE \E c \in Command : future[c] # "none" /\ CancelFuture(c)
      BY <2>2, CancelRefines
    <2>3. CASE \/ RequestCancel \/ ClearCheck \/ ClearCancel
               \/ CloseFlag \/ CloseCancel \/ ClosePost \/ UNCHANGED vars
      <3>1. UNCHANGED <<submitVars, workerVars, place, future>>
        BY <2>3 DEF RequestCancel, ClearCheck, ClearCancel, CloseFlag, CloseCancel,
                    ClosePost, vars, queueVars
      <3> QED
        BY <3>1, ControlRefines
    <2>4. CASE WorkerStep
      BY <2>4, WorkerRefines
    <2> QED
      BY <2>1, <2>2, <2>3, <2>4 DEF Next
  <1> QED
    BY <1>1, InitRefines, Invariant, PTL DEF Spec, ImplementsSerialWriter, Serial!Spec
=============================================================================
