--------------------------- MODULE RateGate_proofs ---------------------------
(***************************************************************************)
(* The Keeper's two promises over the rate windows, for every set of       *)
(* actions, windows, retention, cooldown and limits: no more taps within a *)
(* minute than max_actions_per_minute, and no action that fails more than  *)
(* 1 + max_retries_per_action times in a row.                              *)
(***************************************************************************)
EXTENDS RateGate, FunctionTheorems, FiniteSetTheorems, SequenceTheorems, TLAPS

USE RateAssumption DEF RateAssumption

-----------------------------------------------------------------------------
(* Sequences and counting.                                                 *)

\* A function on 1 .. n is a sequence of length n.
LEMMA SeqOfFunction ==
  ASSUME NEW S, NEW n \in Nat, NEW f \in [1 .. n -> S]
  PROVE  f \in Seq(S) /\ Len(f) = n /\ DOMAIN f = 1 .. n
  <1>1. f \in Seq(S)
    BY SeqDef
  <1>2. DOMAIN f = 1 .. Len(f) /\ Len(f) \in Nat
    BY <1>1, LenProperties
  <1>3. 1 .. n = 1 .. Len(f)
    BY <1>2
  <1>4. Len(f) = n
    <2>1. ASSUME NEW m \in Nat, 1 .. n = 1 .. m
          PROVE  m = n
      <3>1. (m \in 1 .. m <=> m \in 1 .. n) /\ (n \in 1 .. m <=> n \in 1 .. n)
        BY <2>1
      <3> QED
        BY <3>1
    <2> QED
      BY <1>2, <1>3, <2>1
  <1> QED
    BY <1>1, <1>4

\* Moving a set along does not make it larger.
LEMMA ShiftCard ==
  ASSUME NEW S, IsFiniteSet(S), NEW n \in Int, NEW T \in SUBSET Int,
         \A x \in T : x + n \in S
  PROVE  IsFiniteSet(T) /\ Cardinality(T) <= Cardinality(S)
  <1> DEFINE f == [x \in T |-> x + n]
  <1>1. f \in [T -> S]
    OBVIOUS
  <1>2. \A x, y \in T : f[x] = f[y] => x = y
    OBVIOUS
  <1>3. f \in Injection(T, S)
    BY <1>1, <1>2, Fun_IsInj
  <1> QED
    BY <1>3, FS_Injection

\* The indices of a sequence are finitely many.
LEMMA SomeIndices ==
  ASSUME NEW T \in SUBSET DOMAIN events, events \in Seq(Sample)
  PROVE  IsFiniteSet(T) /\ Cardinality(T) \in Nat
  <1>1. DOMAIN events = 1 .. Len(events) /\ Len(events) \in Nat
    BY LenProperties
  <1>2. IsFiniteSet(1 .. Len(events))
    BY <1>1, FS_Interval
  <1> QED
    BY <1>1, <1>2, FS_Subset, FS_CardinalityType

-----------------------------------------------------------------------------
(* What a tick does to the windows.                                        *)

\* A sample a tick older.
LEMMA OlderSample ==
  ASSUME NEW s \in Sample, NEW t, t = [s EXCEPT !.age = s.age + 1]
  PROVE  /\ t \in [action : Action, success : BOOLEAN, retry : BOOLEAN, age : Nat]
         /\ t.action = s.action
         /\ t.success = s.success
         /\ t.retry = s.retry
         /\ t.age = s.age + 1
  BY DEF Sample

\* _prune_events keeps a suffix of the samples, each a tick older.
LEMMA TickEvents ==
  ASSUME events \in Seq(Sample), Tick
  PROVE  \E n \in 0 .. Len(events) :
           /\ Prunes(n)
           /\ events' \in [1 .. Len(events) - n ->
                           [action : Action, success : BOOLEAN, retry : BOOLEAN, age : Nat]]
           /\ Len(events') = Len(events) - n
           /\ DOMAIN events' = 1 .. Len(events) - n
           /\ \A i \in 1 .. Len(events) - n :
                /\ events'[i].action = events[i + n].action
                /\ events'[i].success = events[i + n].success
                /\ events'[i].retry = events[i + n].retry
                /\ events'[i].age = events[i + n].age + 1
  <1>1. PICK n \in 0 .. Len(events) :
          /\ Prunes(n)
          /\ events' = [i \in 1 .. Len(events) - n |->
                         [events[i + n] EXCEPT !.age = events[i + n].age + 1]]
    BY DEF Tick
  <1>2. Len(events) \in Nat /\ \A i \in 1 .. Len(events) : events[i] \in Sample
    BY LenProperties, ElementOfSeq
  <1>3. Len(events) - n \in Nat /\ \A i \in 1 .. Len(events) - n : i + n \in 1 .. Len(events)
    BY <1>2
  <1>5. \A i \in 1 .. Len(events) - n :
          /\ events'[i] = [events[i + n] EXCEPT !.age = events[i + n].age + 1]
          /\ events[i + n] \in Sample
    BY <1>1, <1>2, <1>3
  <1>6. \A i \in 1 .. Len(events) - n :
          /\ events'[i] \in [action : Action, success : BOOLEAN, retry : BOOLEAN, age : Nat]
          /\ events'[i].action = events[i + n].action
          /\ events'[i].success = events[i + n].success
          /\ events'[i].retry = events[i + n].retry
          /\ events'[i].age = events[i + n].age + 1
    <2> TAKE i \in 1 .. Len(events) - n
    <2> QED
      BY <1>5, OlderSample, Zenon
  <1>7. events' \in [1 .. Len(events) - n ->
                     [action : Action, success : BOOLEAN, retry : BOOLEAN, age : Nat]]
    BY <1>1, <1>6
  <1>8. Len(events') = Len(events) - n /\ DOMAIN events' = 1 .. Len(events) - n
    BY <1>3, <1>7, SeqOfFunction
  <1> QED
    BY <1>1, <1>6, <1>7, <1>8, Zenon

\* So it is with the taps.
LEMMA TickTaps ==
  ASSUME taps \in Seq(0 .. MinuteWindow), Tick
  PROVE  \E m \in 0 .. Len(taps) :
           /\ Forgets(m)
           /\ taps' \in [1 .. Len(taps) - m -> Nat]
           /\ Len(taps') = Len(taps) - m
           /\ DOMAIN taps' = 1 .. Len(taps) - m
           /\ \A i \in 1 .. Len(taps) - m : taps'[i] = taps[i + m] + 1
  <1>1. PICK m \in 0 .. Len(taps) :
          /\ Forgets(m)
          /\ taps' = [i \in 1 .. Len(taps) - m |-> taps[i + m] + 1]
    BY DEF Tick
  <1>2. Len(taps) \in Nat /\ \A i \in 1 .. Len(taps) : taps[i] \in 0 .. MinuteWindow
    BY LenProperties, ElementOfSeq
  <1>3. Len(taps) - m \in Nat /\ \A i \in 1 .. Len(taps) - m : i + m \in 1 .. Len(taps)
    BY <1>2
  <1>4. taps' \in [1 .. Len(taps) - m -> Nat]
    BY <1>1, <1>2, <1>3
  <1> QED
    BY <1>1, <1>3, <1>4, SeqOfFunction

\* The samples, one by one.
LEMMA EventsShape ==
  ASSUME events \in Seq(Sample)
  PROVE  /\ Len(events) \in Nat
         /\ DOMAIN events = 1 .. Len(events)
         /\ \A i \in 1 .. Len(events) : events[i] \in Sample
         /\ \A i \in 1 .. Len(events) : events[i].age \in 0 .. Retention
  <1>1. /\ Len(events) \in Nat
        /\ DOMAIN events = 1 .. Len(events)
        /\ \A i \in 1 .. Len(events) : events[i] \in Sample
    BY LenProperties, ElementOfSeq
  <1>2. \A s \in Sample : s.age \in 0 .. Retention
    BY DEF Sample
  <1> QED
    BY <1>1, <1>2

-----------------------------------------------------------------------------
(* Types and order.                                                        *)

\* A tick keeps the samples in order, and the oldest kept is within the retention.
LEMMA TickKeepsEvents ==
  ASSUME RateInv, Tick
  PROVE  /\ events' \in Seq(Sample)
         /\ \A i, j \in DOMAIN events' : i <= j => events'[i].age >= events'[j].age
  <1>0. events \in Seq(Sample) /\ InOrder
    BY DEF RateInv, RateTypeOK
  <1>1. PICK n \in 0 .. Len(events) :
           /\ Prunes(n)
           /\ events' \in [1 .. Len(events) - n ->
                           [action : Action, success : BOOLEAN, retry : BOOLEAN, age : Nat]]
           /\ Len(events') = Len(events) - n
           /\ DOMAIN events' = 1 .. Len(events) - n
           /\ \A i \in 1 .. Len(events) - n :
                /\ events'[i].action = events[i + n].action
                /\ events'[i].success = events[i + n].success
                /\ events'[i].retry = events[i + n].retry
                /\ events'[i].age = events[i + n].age + 1
    BY <1>0, TickEvents
  <1>2. /\ Len(events) \in Nat
        /\ DOMAIN events = 1 .. Len(events)
        /\ \A i \in 1 .. Len(events) : events[i].age \in 0 .. Retention
    BY <1>0, EventsShape
  <1>3. \A i, j \in DOMAIN events' : i <= j => events'[i].age >= events'[j].age
    <2> SUFFICES ASSUME NEW i \in 1 .. Len(events) - n, NEW j \in 1 .. Len(events) - n, i <= j
                 PROVE  events'[i].age >= events'[j].age
      BY <1>1
    <2>1. i + n \in DOMAIN events /\ j + n \in DOMAIN events /\ i + n <= j + n
      BY <1>2
    <2>2. events[i + n].age >= events[j + n].age
      BY <1>0, <2>1 DEF InOrder
    <2>3. events'[i].age = events[i + n].age + 1 /\ events'[j].age = events[j + n].age + 1
      BY <1>1
    <2>4. events[i + n].age \in Int /\ events[j + n].age \in Int
      BY <1>2, <2>1
    <2>5. PICK p \in Int, q \in Int : p = events[i + n].age /\ q = events[j + n].age
      BY <2>4
    <2>6. p + 1 >= q + 1
      BY <2>2, <2>5
    <2> QED
      BY <2>3, <2>5, <2>6
  <1>4. \A i \in 1 .. Len(events) - n : events'[i].age \in 0 .. Retention
    <2> SUFFICES ASSUME NEW i \in 1 .. Len(events) - n
                 PROVE  events'[i].age \in 0 .. Retention
      OBVIOUS
    <2>1. 1 \in 1 .. Len(events) - n /\ 1 + n = n + 1 /\ n < Len(events) /\ 1 <= i
      BY <1>2
    <2>2. events'[1].age = events[n + 1].age + 1
      BY <1>1, <2>1
    <2>3. ~ (events[n + 1].age + 1 > Retention)
      BY <1>1, <2>1 DEF Prunes, Expired
    <2>4. events'[1].age >= events'[i].age
      BY <1>1, <1>3, <2>1
    <2>5. events'[i].age = events[i + n].age + 1 /\ i + n \in 1 .. Len(events)
            /\ n + 1 \in 1 .. Len(events)
      BY <1>1, <1>2, <2>1
    <2>6. events[i + n].age \in 0 .. Retention /\ events[n + 1].age \in 0 .. Retention
      BY <1>2, <2>5
    <2>7. events'[1].age <= Retention /\ events'[1].age \in Nat
      BY <2>2, <2>3, <2>6
    <2>8. events'[i].age \in Nat
      BY <2>5, <2>6
    <2> QED
      BY <2>4, <2>7, <2>8
  <1>5. events' \in [1 .. Len(events) - n -> Sample]
    <2>1. \A i \in 1 .. Len(events) - n : events'[i] \in Sample
      <3> TAKE i \in 1 .. Len(events) - n
      <3>1. /\ events'[i] \in [action : Action, success : BOOLEAN, retry : BOOLEAN, age : Nat]
            /\ events'[i].age \in 0 .. Retention
        BY <1>1, <1>4
      <3> QED
        BY <3>1 DEF Sample
    <2> QED
      BY <1>1, <2>1
  <1>6. Len(events) - n \in Nat
    BY <1>2
  <1>7. events' \in Seq(Sample)
    BY <1>5, <1>6, SeqOfFunction
  <1> QED
    BY <1>3, <1>7

\* So it is with the taps.
LEMMA TickKeepsTaps ==
  ASSUME RateInv, Tick
  PROVE  /\ taps' \in Seq(0 .. MinuteWindow)
         /\ \A i, j \in DOMAIN taps' : i <= j => taps'[i] >= taps'[j]
  <1>0. taps \in Seq(0 .. MinuteWindow) /\ InOrder
    BY DEF RateInv, RateTypeOK
  <1>1. PICK m \in 0 .. Len(taps) :
           /\ Forgets(m)
           /\ taps' \in [1 .. Len(taps) - m -> Nat]
           /\ Len(taps') = Len(taps) - m
           /\ DOMAIN taps' = 1 .. Len(taps) - m
           /\ \A i \in 1 .. Len(taps) - m : taps'[i] = taps[i + m] + 1
    BY <1>0, TickTaps
  <1>2. /\ Len(taps) \in Nat
        /\ DOMAIN taps = 1 .. Len(taps)
        /\ \A i \in 1 .. Len(taps) : taps[i] \in 0 .. MinuteWindow
    BY <1>0, LenProperties, ElementOfSeq
  <1>3. \A i, j \in DOMAIN taps' : i <= j => taps'[i] >= taps'[j]
    <2> SUFFICES ASSUME NEW i \in 1 .. Len(taps) - m, NEW j \in 1 .. Len(taps) - m, i <= j
                 PROVE  taps'[i] >= taps'[j]
      BY <1>1
    <2>1. i + m \in DOMAIN taps /\ j + m \in DOMAIN taps /\ i + m <= j + m
      BY <1>2
    <2>2. taps[i + m] >= taps[j + m]
      BY <1>0, <2>1 DEF InOrder
    <2>3. taps'[i] = taps[i + m] + 1 /\ taps'[j] = taps[j + m] + 1
      BY <1>1
    <2>4. taps[i + m] \in 0 .. MinuteWindow /\ taps[j + m] \in 0 .. MinuteWindow
      BY <1>2, <2>1
    <2> QED
      BY <2>2, <2>3, <2>4
  <1>4. \A i \in 1 .. Len(taps) - m : taps'[i] \in 0 .. MinuteWindow
    <2> SUFFICES ASSUME NEW i \in 1 .. Len(taps) - m
                 PROVE  taps'[i] \in 0 .. MinuteWindow
      OBVIOUS
    <2>1. 1 \in 1 .. Len(taps) - m /\ 1 + m = m + 1 /\ m < Len(taps) /\ 1 <= i
      BY <1>2
    <2>2. taps'[1] = taps[m + 1] + 1 /\ taps[m + 1] + 1 <= MinuteWindow
      BY <1>1, <2>1 DEF Forgets
    <2>3. taps'[1] >= taps'[i]
      BY <1>1, <1>3, <2>1
    <2>4. taps'[i] \in Nat /\ taps'[1] \in Nat
      BY <1>1, <2>1
    <2> QED
      BY <2>2, <2>3, <2>4
  <1>5. taps' \in [1 .. Len(taps) - m -> 0 .. MinuteWindow]
    BY <1>1, <1>4
  <1>6. Len(taps) - m \in Nat
    BY <1>2
  <1>7. taps' \in Seq(0 .. MinuteWindow)
    BY <1>5, <1>6, SeqOfFunction
  <1> QED
    BY <1>3, <1>7

\* record_action appends the newest sample.
LEMMA RecordEvents ==
  ASSUME RateInv, NEW success \in BOOLEAN, Record(success)
  PROVE  /\ events' \in Seq(Sample)
         /\ Len(events') = Len(events) + 1
         /\ DOMAIN events' = 1 .. Len(events) + 1
         /\ \A i \in 1 .. Len(events) : events'[i] = events[i]
         /\ events'[Len(events) + 1].action = planned
         /\ events'[Len(events) + 1].success = success
         /\ events'[Len(events) + 1].retry = asRetry
         /\ events'[Len(events) + 1].age = 0
  <1> DEFINE newest == [action |-> planned, success |-> success, retry |-> asRetry, age |-> 0]
  <1>1. events \in Seq(Sample) /\ asRetry \in BOOLEAN /\ planned \in Action
    BY Zenon DEF RateInv, RateTypeOK, Record
  <1>2. newest \in Sample
    BY <1>1 DEF Sample
  <1>3. events' = Append(events, newest)
    BY Zenon DEF Record
  <1>6. /\ newest.action = planned /\ newest.success = success
        /\ newest.retry = asRetry /\ newest.age = 0
    BY Zenon
  <1> HIDE DEF newest
  <1>4. /\ events' \in Seq(Sample)
        /\ Len(events') = Len(events) + 1
        /\ \A i \in 1 .. Len(events) : events'[i] = events[i]
        /\ events'[Len(events) + 1] = newest
    BY <1>1, <1>2, <1>3, AppendProperties
  <1>5. DOMAIN events' = 1 .. Len(events) + 1
    BY <1>4, LenProperties
  <1> QED
    BY <1>4, <1>5, <1>6, Zenon

\* So it is with a tap.
LEMMA TapTaps ==
  ASSUME RateInv, Tap
  PROVE  /\ taps' \in Seq(0 .. MinuteWindow)
         /\ Len(taps') = Len(taps) + 1
         /\ DOMAIN taps' = 1 .. Len(taps) + 1
         /\ \A i \in 1 .. Len(taps) : taps'[i] = taps[i]
         /\ taps'[Len(taps) + 1] = 0
  <1>1. taps \in Seq(0 .. MinuteWindow) /\ 0 \in 0 .. MinuteWindow
    BY DEF RateInv, RateTypeOK
  <1>2. taps' = Append(taps, 0)
    BY DEF Tap
  <1>3. /\ taps' \in Seq(0 .. MinuteWindow)
        /\ Len(taps') = Len(taps) + 1
        /\ \A i \in 1 .. Len(taps) : taps'[i] = taps[i]
        /\ taps'[Len(taps) + 1] = 0
    BY <1>1, <1>2, AppendProperties
  <1>4. DOMAIN taps' = 1 .. Len(taps) + 1
    BY <1>3, LenProperties
  <1> QED
    BY <1>3, <1>4

\* The windows keep their types and their order.
LEMMA WindowsStep ==
  ASSUME RateInv, Next
  PROVE  events' \in Seq(Sample) /\ taps' \in Seq(0 .. MinuteWindow) /\ InOrder'
  <1>1. events \in Seq(Sample) /\ taps \in Seq(0 .. MinuteWindow) /\ InOrder
    BY DEF RateInv, RateTypeOK
  <1>2. CASE UNCHANGED <<events, taps>>
    BY <1>1, <1>2 DEF InOrder
  <1>3. CASE Tick
    BY <1>3, TickKeepsEvents, TickKeepsTaps DEF InOrder
  <1>4. CASE Tap
    <2>1. UNCHANGED events
      BY <1>4 DEF Tap
    <2>2. \A i, j \in DOMAIN taps' : i <= j => taps'[i] >= taps'[j]
      <3> SUFFICES ASSUME NEW i \in DOMAIN taps', NEW j \in DOMAIN taps', i <= j
                   PROVE  taps'[i] >= taps'[j]
        OBVIOUS
      <3>1. /\ DOMAIN taps = 1 .. Len(taps) /\ Len(taps) \in Nat
            /\ \A k \in 1 .. Len(taps) : taps[k] \in 0 .. MinuteWindow
        BY <1>1, LenProperties, ElementOfSeq
      <3>2. CASE j = Len(taps) + 1
        BY <1>4, <3>1, <3>2, TapTaps
      <3>3. CASE i \in 1 .. Len(taps) /\ j \in 1 .. Len(taps)
        <4>1. taps'[i] = taps[i] /\ taps'[j] = taps[j]
          BY <1>4, <3>3, TapTaps
        <4> QED
          BY <1>1, <3>1, <3>3, <4>1 DEF InOrder
      <3>4. i \in 1 .. Len(taps) + 1 /\ j \in 1 .. Len(taps) + 1
        BY <1>4, TapTaps
      <3> QED
        BY <3>1, <3>2, <3>3, <3>4
    <2> QED
      BY <1>1, <1>4, <2>1, <2>2, TapTaps DEF InOrder
  <1>5. CASE \E success \in BOOLEAN : Record(success)
    <2>1. PICK success \in BOOLEAN : Record(success)
      BY <1>5
    <2>2. UNCHANGED taps
      BY <2>1 DEF Record
    <2>3. \A i, j \in DOMAIN events' : i <= j => events'[i].age >= events'[j].age
      <3> SUFFICES ASSUME NEW i \in DOMAIN events', NEW j \in DOMAIN events', i <= j
                   PROVE  events'[i].age >= events'[j].age
        OBVIOUS
      <3>1. /\ DOMAIN events = 1 .. Len(events) /\ Len(events) \in Nat
            /\ \A k \in 1 .. Len(events) : events[k].age \in 0 .. Retention
        BY <1>1, EventsShape
      <3>2. events'[Len(events) + 1].age = 0
        BY <2>1, RecordEvents, Zenon
      <3>3. CASE j = Len(events) + 1
        <4>1. i = Len(events) + 1 \/ i \in 1 .. Len(events)
          BY <2>1, <3>1, <3>3, RecordEvents
        <4>2. i \in 1 .. Len(events) => events'[i].age \in 0 .. Retention
          BY <2>1, <3>1, RecordEvents
        <4> QED
          BY <3>2, <3>3, <4>1, <4>2
      <3>4. CASE i \in 1 .. Len(events) /\ j \in 1 .. Len(events)
        <4>1. events'[i] = events[i] /\ events'[j] = events[j]
          BY <2>1, <3>4, RecordEvents
        <4> QED
          BY <1>1, <3>1, <3>4, <4>1 DEF InOrder
      <3>5. i \in 1 .. Len(events) + 1 /\ j \in 1 .. Len(events) + 1
        BY <2>1, RecordEvents
      <3> QED
        BY <3>1, <3>3, <3>4, <3>5
    <2> QED
      BY <1>1, <2>1, <2>2, <2>3, RecordEvents DEF InOrder
  <1> QED
    BY <1>2, <1>3, <1>4, <1>5 DEF Next, Deny, AskHuman, Approve, Stop

\* The rest of the types: the cooldowns, the cycle and its action.
LEMMA CycleStep ==
  ASSUME RateInv, Next
  PROVE  /\ cooling' \in [Action -> 0 .. Cooldown]
         /\ stage' \in {"ready", "approved", "tapped", "stopped"}
         /\ planned' \in Action \union {NoAction}
         /\ asRetry' \in BOOLEAN
         /\ stage' \in {"approved", "tapped"} => planned' \in Action
  <1>1. /\ cooling \in [Action -> 0 .. Cooldown]
        /\ stage \in {"ready", "approved", "tapped", "stopped"}
        /\ planned \in Action \union {NoAction}
        /\ stage \in {"approved", "tapped"} => planned \in Action
    BY DEF RateInv, RateTypeOK
  <1>2. asRetry \in BOOLEAN
    BY DEF RateInv, RateTypeOK
  <1>3. cooling' \in [Action -> 0 .. Cooldown]
    <2>1. CASE UNCHANGED cooling
      BY <1>1, <2>1
    <2>2. CASE \E r \in Request : Deny(r)
      BY <1>1, <2>2 DEF Deny, Request
    <2>3. CASE Tick
      <3>1. cooling' = [a \in Action |-> IF cooling[a] > 0 THEN cooling[a] - 1 ELSE 0]
        BY <2>3, Zenon DEF Tick
      <3>2. \A a \in Action : cooling[a] \in 0 .. Cooldown
        BY <1>1
      <3>3. \A a \in Action : (IF cooling[a] > 0 THEN cooling[a] - 1 ELSE 0) \in 0 .. Cooldown
        BY <3>2
      <3> QED
        BY <3>1, <3>3
    <2> QED
      BY <2>1, <2>2, <2>3 DEF Next, AskHuman, Approve, Tap, Record, Stop
  <1>4. asRetry' \in BOOLEAN
    <2>1. CASE UNCHANGED asRetry
      BY <1>2, <2>1
    <2>2. CASE \E r \in Request : Approve(r)
      BY <2>2 DEF Approve, IsRetry
    <2>3. CASE asRetry' = FALSE
      BY <2>3
    <2> QED
      BY <2>1, <2>2, <2>3 DEF Next, Deny, AskHuman, Tap, Record, Stop, Tick
  <1>5. CASE UNCHANGED <<stage, planned>>
    BY <1>1, <1>3, <1>4, <1>5
  <1>6. CASE \E r \in Request : Approve(r)
    BY <1>1, <1>3, <1>4, <1>6 DEF Approve, Request
  <1>7. CASE stage' \in {"ready", "stopped"} /\ planned' \in {planned, NoAction}
    BY <1>1, <1>3, <1>4, <1>7
  <1>8. CASE Tap
    BY <1>1, <1>3, <1>4, <1>8 DEF Tap
  <1> QED
    BY <1>5, <1>6, <1>7, <1>8 DEF Next, Deny, AskHuman, Tap, Record, Stop, Tick

\* The types and the order of the windows.
LEMMA RateStep ==
  ASSUME RateInv, [Next]_rateVars
  PROVE  RateInv'
  <1>1. CASE Next
    <2>1. RateTypeOK'
      BY <1>1, WindowsStep, CycleStep, Zenon DEF RateTypeOK
    <2> QED
      BY <1>1, <2>1, WindowsStep, CycleStep, Zenon DEF RateInv
  <1>2. CASE UNCHANGED rateVars
    <2>1. UNCHANGED events /\ UNCHANGED cooling /\ UNCHANGED stage /\ UNCHANGED planned
            /\ UNCHANGED asRetry /\ UNCHANGED taps
      BY <1>2 DEF rateVars
    <2> QED
      BY <2>1, Zenon DEF RateInv, RateTypeOK, InOrder
  <1> QED
    BY <1>1, <1>2

LEMMA RateInit == Init => RateInv
  <1> SUFFICES ASSUME Init PROVE RateInv
    OBVIOUS
  <1>1. events \in Seq(Sample) /\ taps \in Seq(0 .. MinuteWindow)
    BY EmptySeq DEF Init
  <1>2. DOMAIN events = {} /\ DOMAIN taps = {}
    BY DEF Init
  <1>3. InOrder
    BY <1>2 DEF InOrder
  <1> QED
    <2>1. cooling \in [Action -> 0 .. Cooldown]
      BY DEF Init
    <2>2. planned = NoAction /\ stage = "ready" /\ asRetry = FALSE
      BY DEF Init
    <2> QED
      BY <1>1, <1>3, <2>1, <2>2 DEF RateInv, RateTypeOK

\* The windows, the cooldowns and the cycle keep their types, and no sample is kept
\* beyond the retention.
THEOREM RateTypes == Spec => []RateTypeOK
  <1>1. RateInv => RateTypeOK
    BY DEF RateInv
  <1> QED
    BY <1>1, RateInit, RateStep, PTL DEF Spec

-----------------------------------------------------------------------------
(* No more taps within a minute than allowed.                              *)

\* What the counting invariant says of one tap.
LEMMA TapCounted ==
  ASSUME TapsAreCounted, stage # "stopped", NEW t \in 1 .. Len(taps) - Untold
  PROVE  /\ t + Untold + Len(events) - Len(taps) >= 1
         /\ events[t + Untold + Len(events) - Len(taps)].age <= taps[t]
  BY DEF TapsAreCounted

\* The lengths and the bounds the arithmetic needs.
LEMMA Lengths ==
  ASSUME RateInv
  PROVE  /\ Len(events) \in Nat /\ Len(taps) \in Nat
         /\ DOMAIN events = 1 .. Len(events)
         /\ \A t \in 1 .. Len(taps) : taps[t] \in 0 .. MinuteWindow
         /\ \A k \in 1 .. Len(events) : events[k].age \in 0 .. Retention
         /\ Untold \in {0, 1}
         /\ stage = "tapped" => Untold = 1
         /\ stage # "tapped" => Untold = 0
  <1>1. events \in Seq(Sample) /\ taps \in Seq(0 .. MinuteWindow)
    BY DEF RateInv, RateTypeOK
  <1>2. Len(taps) \in Nat /\ \A t \in 1 .. Len(taps) : taps[t] \in 0 .. MinuteWindow
    BY <1>1, LenProperties, ElementOfSeq
  <1>3. Untold \in {0, 1} /\ (stage = "tapped" => Untold = 1) /\ (stage # "tapped" => Untold = 0)
    BY DEF Untold
  <1> QED
    BY <1>1, <1>2, <1>3, EventsShape

\* With every tap counted, the Keeper that sees fewer samples than the limit within
\* the minute leaves room for a tap.
LEMMA RoomForATap ==
  ASSUME RateInv, TapsAreCounted, stage = "ready", ~ RateLimited
  PROVE  Len(taps) < MaxPerMinute
  <1> DEFINE d == Len(events) - Len(taps)
             recent == (d + 1) .. Len(events)
  <1>1. Untold = 0 /\ Len(events) \in Nat /\ Len(taps) \in Nat /\ d \in Int
    BY Lengths
  <1>2. ASSUME NEW k \in recent
        PROVE  k \in Within(MinuteWindow)
    <2>1. k - d \in 1 .. Len(taps) - Untold
      BY <1>1
    <2>2. /\ (k - d) + Untold + Len(events) - Len(taps) >= 1
          /\ events[(k - d) + Untold + Len(events) - Len(taps)].age <= taps[k - d]
      BY <2>1, TapCounted
    <2>3. (k - d) + Untold + Len(events) - Len(taps) = k
      BY <1>1, <1>2
    <2>4. k \in 1 .. Len(events) /\ events[k].age <= taps[k - d]
      BY <1>1, <2>2, <2>3
    <2>5. taps[k - d] \in 0 .. MinuteWindow /\ events[k].age \in 0 .. Retention
      BY <1>1, <2>1, <2>4, Lengths
    <2>6. events[k].age <= MinuteWindow
      BY <2>4, <2>5
    <2> QED
      BY <2>4, <2>6, Lengths DEF Within
  <1>3. IsFiniteSet(Within(MinuteWindow)) /\ Cardinality(Within(MinuteWindow)) \in Nat
    <2>1. Within(MinuteWindow) \in SUBSET DOMAIN events /\ events \in Seq(Sample)
      BY DEF Within, RateInv, RateTypeOK
    <2> QED
      BY <2>1, SomeIndices
  <1>4. Cardinality(recent) <= Cardinality(Within(MinuteWindow))
    BY <1>2, <1>3, FS_Subset
  <1>5. Len(taps) > 0 => Cardinality(recent) = Len(taps)
    <2>1. Cardinality(recent) = IF d + 1 > Len(events) THEN 0 ELSE Len(events) - (d + 1) + 1
      <3>1. d + 1 \in Int /\ Len(events) \in Int
        BY <1>1
      <3> HIDE DEF d
      <3> QED
        BY <3>1, FS_Interval
    <2> QED
      BY <1>1, <2>1
  <1>6. Cardinality(Within(MinuteWindow)) < MaxPerMinute
    BY <1>3 DEF RateLimited
  <1> QED
    BY <1>1, <1>3, <1>4, <1>5, <1>6

\* A minute is within the retention.
LEMMA TickOlder ==
  ASSUME NEW e \in Int, NEW a \in Int, e <= a, a + 1 <= MinuteWindow
  PROVE  e + 1 <= a + 1 /\ e + 1 <= Retention
  OBVIOUS

\* A tick makes taps and samples older together; a sample it pops is older than any
\* tap it keeps.
LEMMA TickCounts ==
  ASSUME RateInv, TapsAreCounted, Tick
  PROVE  TapsAreCounted'
  <1>1. PICK n \in 0 .. Len(events) :
          /\ Prunes(n)
          /\ Len(events') = Len(events) - n
          /\ \A i \in 1 .. Len(events) - n : events'[i].age = events[i + n].age + 1
    BY TickEvents DEF RateInv, RateTypeOK
  <1>2. PICK m \in 0 .. Len(taps) :
          /\ Len(taps') = Len(taps) - m
          /\ \A i \in 1 .. Len(taps) - m : taps'[i] = taps[i + m] + 1
    BY TickTaps DEF RateInv, RateTypeOK
  <1>3. UNCHANGED stage
    BY DEF Tick
  <1>4. Untold' = Untold
    BY <1>3 DEF Untold
  <1> SUFFICES ASSUME stage # "stopped", NEW t \in 1 .. Len(taps') - Untold
               PROVE  /\ t + Untold + Len(events') - Len(taps') >= 1
                      /\ events'[t + Untold + Len(events') - Len(taps')].age <= taps'[t]
    BY <1>3, <1>4 DEF TapsAreCounted
  <1>5. /\ Len(events) \in Nat /\ Len(taps) \in Nat /\ Untold \in {0, 1}
        /\ n \in Int /\ m \in Int
    BY Lengths
  <1>6. PICK u \in 1 .. Len(taps) - Untold : u = t + m /\ t \in 1 .. Len(taps) - m
    BY <1>2, <1>5
  <1>7. PICK k \in Int : k = u + Untold + Len(events) - Len(taps)
    BY <1>5
  <1>8. k \in 1 .. Len(events) /\ events[k].age <= taps[u]
    <2>1. k >= 1 /\ events[k].age <= taps[u]
      BY <1>7, TapCounted
    <2> QED
      BY <1>5, <1>7, <2>1
  <1>9. taps'[t] = taps[u] + 1 /\ taps'[t] \in 0 .. MinuteWindow
    <2>1. taps' \in Seq(0 .. MinuteWindow) /\ t \in 1 .. Len(taps')
      BY <1>2, <1>6, TickKeepsTaps
    <2>2. taps'[t] \in 0 .. MinuteWindow
      BY <2>1, ElementOfSeq
    <2> QED
      BY <1>2, <1>6, <2>2
  <1>10. events[k].age \in 0 .. Retention /\ taps[u] \in 0 .. MinuteWindow
    <2>1. events[k].age \in 0 .. Retention
      BY <1>8, Lengths
    <2>2. u \in 1 .. Len(taps)
      BY <1>5, <1>6
    <2>3. taps[u] \in 0 .. MinuteWindow
      BY <2>2, Lengths
    <2> QED
      BY <2>1, <2>3
  <1>11. events[k].age + 1 <= taps'[t] /\ events[k].age + 1 <= Retention
    <2>1. events[k].age \in Int /\ taps[u] \in Int /\ events[k].age <= taps[u]
      BY <1>8, <1>10
    <2>2. taps[u] + 1 <= MinuteWindow
      BY <1>9
    <2> QED
      BY <1>9, <2>1, <2>2, TickOlder
  <1>12. ~ (k \in 1 .. n)
    <2>1. k \in 1 .. n => events[k].age + 1 > Retention
      BY <1>1 DEF Prunes, Expired
    <2> QED
      BY <1>10, <1>11, <2>1
  <1>13. PICK i \in 1 .. Len(events) - n : i = k - n
    BY <1>5, <1>8, <1>12
  <1>14. t + Untold + Len(events') - Len(taps') = i
    BY <1>1, <1>2, <1>5, <1>6, <1>7, <1>13
  <1>15. i + n = k
    BY <1>5, <1>13
  <1>16. events'[i].age = events[k].age + 1
    BY <1>1, <1>15
  <1>17. events'[i].age <= taps'[t]
    BY <1>11, <1>16, Zenon
  <1> QED
    BY <1>13, <1>14, <1>17

\* A sample pairs with the tap it is of; without one, each sample pairs with an
\* older tap.
LEMMA RecordCounts ==
  ASSUME RateInv, TapsAreCounted, NEW success \in BOOLEAN, Record(success)
  PROVE  TapsAreCounted'
  <1>1. /\ Len(events') = Len(events) + 1
        /\ \A i \in 1 .. Len(events) : events'[i] = events[i]
        /\ events'[Len(events) + 1].age = 0
    BY RecordEvents
  <1>2. stage \in {"approved", "tapped"} /\ stage' = "ready" /\ taps' = taps
    BY DEF Record
  <1>3. Untold' = 0
    BY <1>2 DEF Untold
  <1>4. Len(events) \in Nat /\ Len(taps) \in Nat /\ Untold \in {0, 1}
    BY Lengths
  <1> SUFFICES ASSUME NEW t \in 1 .. Len(taps)
               PROVE  /\ t + Len(events') - Len(taps) >= 1
                      /\ events'[t + Len(events') - Len(taps)].age <= taps[t]
    <2>1. ASSUME NEW t \in 1 .. Len(taps') - Untold'
          PROVE  t \in 1 .. Len(taps) /\ t + Untold' + Len(events') - Len(taps')
                   = t + Len(events') - Len(taps)
      BY <1>1, <1>2, <1>3, <1>4
    <2> QED
      BY <1>2, <2>1, Zenon DEF TapsAreCounted
  <1>5. taps[t] \in 0 .. MinuteWindow
    BY Lengths
  <1>6. CASE t = Len(taps)
    <2>1. t + Len(events') - Len(taps) = Len(events) + 1
      BY <1>1, <1>4, <1>6
    <2> QED
      BY <1>1, <1>4, <1>5, <2>1
  <1>7. CASE t # Len(taps)
    <2> DEFINE k == t + Untold + Len(events) - Len(taps)
    <2>1. t \in 1 .. Len(taps) - Untold
      BY <1>4, <1>7
    <2>2. k >= 1 /\ events[k].age <= taps[t]
      BY <1>2, <2>1, TapCounted
    <2>3. k \in 1 .. Len(events) /\ k \in Int
      BY <1>4, <2>1, <2>2
    <2>4. t + Len(events') - Len(taps) \in {k, k + 1}
      BY <1>1, <1>4
    <2>5. t + Len(events') - Len(taps) \in 1 .. Len(events)
      BY <1>1, <1>4, <1>7, <2>3, <2>4
    <2>6. events[t + Len(events') - Len(taps)].age <= events[k].age
      <3>1. DOMAIN events = 1 .. Len(events) /\ InOrder
        BY Lengths DEF RateInv
      <3>2. \A i, j \in 1 .. Len(events) : i <= j => events[i].age >= events[j].age
        BY <3>1 DEF InOrder
      <3>3. \A i \in 1 .. Len(events) : events[i].age \in 0 .. Retention
        BY Lengths
      <3>4. k <= t + Len(events') - Len(taps)
        BY <2>3, <2>4
      <3> QED
        BY <2>3, <2>5, <3>2, <3>3, <3>4
    <2>7. /\ events[k].age \in 0 .. Retention
          /\ events[t + Len(events') - Len(taps)].age \in 0 .. Retention
      BY <2>3, <2>5, Lengths
    <2>8. events'[t + Len(events') - Len(taps)] = events[t + Len(events') - Len(taps)]
      BY <1>1, <2>5
    <2>9. events'[t + Len(events') - Len(taps)].age <= taps[t]
      BY <1>5, <2>2, <2>6, <2>7, <2>8
    <2> QED
      BY <2>5, <2>9
  <1> QED
    BY <1>6, <1>7

\* A new tap has no sample yet.
LEMMA TapCounts ==
  ASSUME RateInv, TapsAreCounted, Tap
  PROVE  TapsAreCounted'
  <1>1. Len(taps') = Len(taps) + 1 /\ \A i \in 1 .. Len(taps) : taps'[i] = taps[i]
    BY TapTaps
  <1>2. stage = "approved" /\ stage' = "tapped" /\ events' = events
    BY DEF Tap
  <1>3. Untold' = 1 /\ Untold = 0
    BY <1>2 DEF Untold
  <1>4. Len(events) \in Nat /\ Len(taps) \in Nat
    BY Lengths
  <1> SUFFICES ASSUME NEW t \in 1 .. Len(taps)
               PROVE  /\ t + 1 + Len(events) - Len(taps') >= 1
                      /\ events[t + 1 + Len(events) - Len(taps')].age <= taps'[t]
    BY <1>1, <1>2, <1>3, <1>4 DEF TapsAreCounted
  <1>5. t + 1 + Len(events) - Len(taps') = t + Untold + Len(events) - Len(taps)
    BY <1>1, <1>3, <1>4
  <1>6. t \in 1 .. Len(taps) - Untold
    BY <1>3, <1>4
  <1> QED
    BY <1>1, <1>2, <1>5, <1>6, TapCounted

LEMMA CapStep ==
  ASSUME CapInv, [Next]_rateVars
  PROVE  CapInv'
  <1>1. RateInv /\ TapsAreCounted /\ RateInv'
    BY RateStep DEF CapInv
  <1>2. stage = "approved" => Len(taps) < MaxPerMinute
    BY DEF CapInv
  <1>3. Len(taps) <= MaxPerMinute /\ Len(taps) \in Nat
    BY <1>1, Lengths DEF CapInv, RateCap
  <1>4. CASE UNCHANGED <<events, taps>> /\ stage' \in {stage, "stopped"}
    <2>1. TapsAreCounted'
      BY <1>1, <1>4 DEF TapsAreCounted, Untold
    <2> QED
      BY <1>1, <1>2, <1>3, <1>4, <2>1 DEF CapInv, RateCap
  <1>5. CASE \E r \in Request : Approve(r)
    <2>1. PICK r \in Request : Approve(r)
      BY <1>5
    <2>2. ~ RateLimited
      BY <2>1 DEF Approve, Denied, Refused
    <2>3. stage = "ready" /\ stage' = "approved" /\ UNCHANGED <<events, taps>>
      BY <2>1 DEF Approve
    <2>4. Len(taps) < MaxPerMinute
      BY <1>1, <2>2, <2>3, RoomForATap
    <2>5. TapsAreCounted'
      BY <1>1, <2>3 DEF TapsAreCounted, Untold
    <2> QED
      BY <1>1, <1>3, <2>3, <2>4, <2>5 DEF CapInv, RateCap
  <1>6. CASE Tap
    <2>1. stage = "approved" /\ stage' = "tapped" /\ Len(taps') = Len(taps) + 1
      BY <1>1, <1>6, TapTaps DEF Tap
    <2> QED
      BY <1>1, <1>2, <1>3, <1>6, <2>1, TapCounts DEF CapInv, RateCap
  <1>7. CASE \E success \in BOOLEAN : Record(success)
    <2>1. stage' = "ready" /\ UNCHANGED taps
      BY <1>7 DEF Record
    <2> QED
      BY <1>1, <1>3, <1>7, <2>1, RecordCounts DEF CapInv, RateCap
  <1>8. CASE Tick
    <2>1. PICK m \in 0 .. Len(taps) : Len(taps') = Len(taps) - m
      BY <1>1, <1>8, TickTaps DEF RateInv, RateTypeOK
    <2>2. UNCHANGED stage
      BY <1>8 DEF Tick
    <2> QED
      BY <1>1, <1>2, <1>3, <1>8, <2>1, <2>2, TickCounts DEF CapInv, RateCap
  <1> QED
    BY <1>4, <1>5, <1>6, <1>7, <1>8 DEF Next, Deny, AskHuman, Stop, rateVars

\* Each tap is at least as old as the sample that counts for it, and the Keeper left
\* room for the tap it approved (keeper.py:136-141, orchestrator.py:248-291).
THEOREM CapInvariant == Spec => []CapInv
  <1>1. Init => CapInv
    <2> SUFFICES ASSUME Init PROVE CapInv
      OBVIOUS
    <2>1. Len(taps) = 0 /\ stage = "ready"
      BY DEF Init
    <2> QED
      BY <2>1, RateInit DEF CapInv, TapsAreCounted, RateCap, Untold
  <1> QED
    BY <1>1, CapStep, PTL DEF Spec

\* No window of a minute holds more taps than max_actions_per_minute, whatever time
\* passes between the decision, the tap and its sample (keeper.py:136,
\* metrics.py:177-179, orchestrator.py:258, 381).
THEOREM AtMostSoManyTaps == Spec => []RateCap
  <1>1. CapInv => RateCap
    BY DEF CapInv
  <1> QED
    BY <1>1, CapInvariant, PTL

-----------------------------------------------------------------------------
(* An action does not fail too often in a row.                             *)

\* The samples after a tick, and those they were.
LEMMA TickSamples ==
  ASSUME RateInv, Tick
  PROVE  \E n \in Nat :
           /\ Len(events') = Len(events) - n
           /\ DOMAIN events' = 1 .. Len(events) - n
           /\ \A i \in 1 .. Len(events) - n :
                /\ events'[i].action = events[i + n].action
                /\ ~ events'[i].success => ~ events[i + n].success
                /\ events'[i].retry <=> events[i + n].retry
  <1>1. events \in Seq(Sample)
    BY DEF RateInv, RateTypeOK
  <1>2. PICK n \in 0 .. Len(events) :
           /\ Len(events') = Len(events) - n
           /\ DOMAIN events' = 1 .. Len(events) - n
           /\ \A i \in 1 .. Len(events) - n :
                /\ events'[i].action = events[i + n].action
                /\ events'[i].success = events[i + n].success
                /\ events'[i].retry = events[i + n].retry
    BY <1>1, TickEvents, Zenon
  <1>3. n \in Nat
    BY <1>1, EventsShape
  <1>4. \A i \in 1 .. Len(events) - n :
          /\ ~ events'[i].success => ~ events[i + n].success
          /\ events'[i].retry <=> events[i + n].retry
    BY <1>2, Zenon
  <1> QED
    BY <1>2, <1>3, <1>4, Zenon

\* The samples after record_action.
LEMMA RecordSamples ==
  ASSUME RateInv, NEW success \in BOOLEAN, Record(success)
  PROVE  /\ Len(events') = Len(events) + 1
         /\ DOMAIN events' = 1 .. Len(events) + 1
         /\ \A i \in 1 .. Len(events) :
              /\ events'[i].action = events[i].action
              /\ ~ events'[i].success => ~ events[i].success
              /\ events'[i].retry <=> events[i].retry
         /\ events'[Len(events) + 1].action = planned
         /\ asRetry => events'[Len(events) + 1].retry
  <1>1. /\ Len(events') = Len(events) + 1
        /\ DOMAIN events' = 1 .. Len(events) + 1
        /\ \A i \in 1 .. Len(events) : events'[i] = events[i]
        /\ events'[Len(events) + 1].action = planned
        /\ events'[Len(events) + 1].retry = asRetry
    BY RecordEvents, Zenon
  <1>2. \A i \in 1 .. Len(events) :
          /\ events'[i].action = events[i].action
          /\ ~ events'[i].success => ~ events[i].success
          /\ events'[i].retry <=> events[i].retry
    BY <1>1, Zenon
  <1>3. asRetry => events'[Len(events) + 1].retry
    BY <1>1, Zenon
  <1> QED
    BY <1>1, <1>2, <1>3, Zenon

\* What is known of a is about a finite set of samples.
LEMMA CountsAreNumbers ==
  ASSUME RateInv, NEW a
  PROVE  /\ IsFiniteSet(Of(a)) /\ Retries(a) \in Nat
         /\ \A i, j : /\ IsFiniteSet(Run(a, i, j)) /\ Cardinality(Run(a, i, j)) \in Nat
                     /\ IsFiniteSet(Marked(a, i, j)) /\ Cardinality(Marked(a, i, j)) \in Nat
  <1>1. events \in Seq(Sample)
    BY DEF RateInv, RateTypeOK
  <1>2. Of(a) \in SUBSET DOMAIN events
    BY DEF Of
  <1>3. {i \in Failures(Of(a)) :
           events[i].retry /\ \A j \in Of(a) : j > i => ~ events[j].success}
         \in SUBSET DOMAIN events
    BY <1>2 DEF Failures
  <1>4. ASSUME NEW i, NEW j
        PROVE  /\ Run(a, i, j) \in SUBSET DOMAIN events
               /\ Marked(a, i, j) \in SUBSET DOMAIN events
    BY <1>2 DEF Run, Marked
  <1>5. IsFiniteSet(Of(a)) /\ Retries(a) \in Nat
    BY <1>1, <1>2, <1>3, SomeIndices DEF Retries
  <1> QED
    BY <1>1, <1>4, <1>5, SomeIndices

\* A run after a tick was a run before it.
LEMMA TickRuns ==
  ASSUME RateInv, NEW n \in Nat,
         DOMAIN events' = 1 .. Len(events) - n,
         \A i \in 1 .. Len(events) - n :
                /\ events'[i].action = events[i + n].action
                /\ ~ events'[i].success => ~ events[i + n].success
                /\ events'[i].retry <=> events[i + n].retry,
         NEW a, NEW i \in Nat \ {0}, NEW j \in Nat
  PROVE  /\ \A k \in Of(a)' : k \in Int /\ k + n \in Of(a)
         /\ \A k \in Of(a) : k > n => k - n \in Of(a)' /\ k \in Int
         /\ Failing(a, i, j)' => Failing(a, i + n, j + n)
         /\ \A k \in Marked(a, i, j)' : k \in Int /\ k + n \in Marked(a, i + n, j + n)
  <1>1. Len(events) \in Nat /\ DOMAIN events = 1 .. Len(events)
    BY Lengths
  <1>2. \A k \in Of(a)' : k \in 1 .. Len(events) - n /\ k + n \in Of(a)
    BY <1>1 DEF Of
  <1>3. \A k \in Of(a) : k > n => k - n \in Of(a)' /\ k \in Int
    <2> SUFFICES ASSUME NEW k \in Of(a), k > n PROVE k - n \in Of(a)' /\ k \in Int
      OBVIOUS
    <2>1. k \in 1 .. Len(events) /\ events[k].action = a
      BY <1>1 DEF Of
    <2>2. PICK q \in 1 .. Len(events) - n : q = k - n
      BY <1>1, <2>1
    <2>3. q + n = k
      BY <2>1, <2>2
    <2>4. events'[q].action = a
      BY <2>1, <2>2, <2>3
    <2> QED
      BY <2>1, <2>2, <2>4 DEF Of
  <1>4. Failing(a, i, j)' => Failing(a, i + n, j + n)
    <2> SUFFICES ASSUME Failing(a, i, j)', NEW k \in Run(a, i + n, j + n)
                 PROVE  ~ events[k].success
      BY DEF Failing
    <2>1. k \in Of(a) /\ i + n <= k /\ k <= j + n /\ k \in 1 .. Len(events)
      BY <1>1 DEF Run, Of
    <2>2. PICK q \in 1 .. Len(events) - n : q = k - n
      BY <1>1, <2>1
    <2>3. q + n = k /\ i <= q /\ q <= j /\ k > n
      BY <2>1, <2>2
    <2>4. q \in Of(a)'
      BY <1>3, <2>1, <2>2, <2>3
    <2>5. q \in Run(a, i, j)'
      BY <2>3, <2>4 DEF Run
    <2>6. ~ events'[q].success
      BY <2>5, Zenon DEF Failing
    <2>7. ~ events[q + n].success
      BY <2>2, <2>6, Zenon
    <2> QED
      BY <2>3, <2>7
  <1>5. ASSUME NEW k \in Marked(a, i, j)'
        PROVE  k \in Int /\ k + n \in Marked(a, i + n, j + n)
    <2>1. k \in Of(a)' /\ i <= k /\ k <= j
      BY DEF Marked, Run
    <2>2. events'[k].retry
      BY Zenon DEF Marked
    <2>3. k \in 1 .. Len(events) - n /\ k + n \in Of(a)
      BY <1>2, <2>1
    <2>4. events[k + n].retry
      BY <2>2, <2>3, Zenon
    <2>5. i + n <= k + n /\ k + n <= j + n
      BY <2>1, <2>3
    <2> QED
      BY <2>3, <2>4, <2>5 DEF Marked, Run
  <1> QED
    BY <1>2, <1>3, <1>4, <1>5

\* A tick keeps the marks in place.
LEMMA TickMarks ==
  ASSUME RateInv, SecondIsMarked, MarksAreFew, Tick
  PROVE  SecondIsMarked' /\ MarksAreFew'
  <1>1. Len(events) \in Nat /\ DOMAIN events = 1 .. Len(events)
    BY Lengths
  <1>2. PICK n \in Nat :
           /\ Len(events') = Len(events) - n
           /\ DOMAIN events' = 1 .. Len(events) - n
           /\ \A i \in 1 .. Len(events) - n :
                /\ events'[i].action = events[i + n].action
                /\ ~ events'[i].success => ~ events[i + n].success
                /\ events'[i].retry <=> events[i + n].retry
    BY TickSamples
  <1>3. SecondIsMarked'
    <2> SUFFICES ASSUME NEW i \in DOMAIN events', NEW j \in DOMAIN events', i < j,
                        events'[i].action = events'[j].action,
                        Failing(events[i].action, i, j)'
                 PROVE  events'[j].retry
      BY Zenon DEF SecondIsMarked
    <2>1. i \in Nat \ {0} /\ j \in Nat
      BY <1>1, <1>2
    <2>2. PICK a : a = events'[i].action
      OBVIOUS
    <2>3. Failing(a, i, j)'
      BY <2>2 DEF Failing, Run, Of
    <2>4. Failing(a, i + n, j + n)
      BY <1>2, <2>1, <2>3, TickRuns
    <2>5. i + n \in DOMAIN events /\ j + n \in DOMAIN events /\ i + n < j + n
      BY <1>1, <1>2, <2>1
    <2>6. events[i + n].action = a /\ events[j + n].action = a
      BY <1>2, <2>2
    <2>7. events[j + n].retry
      BY <2>4, <2>5, <2>6 DEF SecondIsMarked
    <2> QED
      BY <1>2, <2>7, Zenon
  <1>4. MarksAreFew'
    <2> SUFFICES ASSUME NEW a \in Action, NEW i \in 1 .. Len(events') + 1,
                        NEW j \in 0 .. Len(events'), Failing(a, i, j)'
                 PROVE  Cardinality(Marked(a, i, j)') <= MaxRetries
      BY DEF MarksAreFew
    <2>1. i \in Nat \ {0} /\ j \in Nat
      BY <1>1, <1>2
    <2>2. /\ Failing(a, i + n, j + n)
          /\ \A k \in Marked(a, i, j)' : k \in Int /\ k + n \in Marked(a, i + n, j + n)
      BY <1>2, <2>1, TickRuns
    <2>3. i + n \in 1 .. Len(events) + 1 /\ j + n \in 0 .. Len(events)
      BY <1>1, <1>2, <2>1
    <2>4. Cardinality(Marked(a, i + n, j + n)) <= MaxRetries
      BY <2>2, <2>3 DEF MarksAreFew
    <2>5. IsFiniteSet(Marked(a, i + n, j + n)) /\ Cardinality(Marked(a, i + n, j + n)) \in Nat
      BY CountsAreNumbers
    <2>6. Marked(a, i, j)' \in SUBSET Int
      BY <2>2
    <2>7. /\ IsFiniteSet(Marked(a, i, j)')
          /\ Cardinality(Marked(a, i, j)') <= Cardinality(Marked(a, i + n, j + n))
      <3>1. PICK S : S = Marked(a, i + n, j + n)
        OBVIOUS
      <3>2. PICK T : T = Marked(a, i, j)'
        OBVIOUS
      <3>3. n \in Int /\ T \in SUBSET Int /\ IsFiniteSet(S) /\ \A k \in T : k + n \in S
        BY <2>2, <2>5, <2>6, <3>1, <3>2
      <3>4. IsFiniteSet(T) /\ Cardinality(T) <= Cardinality(S)
        BY <3>3, ShiftCard
      <3> QED
        BY <3>1, <3>2, <3>4
    <2>8. Cardinality(Marked(a, i, j)') \in Nat
      BY <2>7, FS_CardinalityType
    <2> QED
      BY <2>4, <2>5, <2>7, <2>8
  <1> QED
    BY <1>3, <1>4

\* A tick may forget a failure, never make one.
LEMMA TickRetries ==
  ASSUME RateInv, NEW a, Tick
  PROVE  (IsRetry(a)' => IsRetry(a)) /\ Retries(a)' <= Retries(a)
  <1>1. Len(events) \in Nat /\ DOMAIN events = 1 .. Len(events)
    BY Lengths
  <1>2. PICK n \in Nat :
           /\ Len(events') = Len(events) - n
           /\ DOMAIN events' = 1 .. Len(events) - n
           /\ \A i \in 1 .. Len(events) - n :
                /\ events'[i].action = events[i + n].action
                /\ ~ events'[i].success => ~ events[i + n].success
                /\ events'[i].retry <=> events[i + n].retry
    BY TickSamples
  <1>3. /\ \A k \in Of(a)' : k \in Int /\ k + n \in Of(a)
        /\ \A k \in Of(a) : k > n => k - n \in Of(a)' /\ k \in Int
    <2>1. 1 \in Nat \ {0} /\ 1 \in Nat
      OBVIOUS
    <2> QED
      BY <1>2, <2>1, TickRuns
  <1>4. \A k \in Of(a)' : k \in 1 .. Len(events) - n
    BY <1>2 DEF Of
  <1>5. ASSUME NEW i \in Of(a)', \A j \in Of(a)' : j > i => ~ events'[j].success
        PROVE  \A j \in Of(a) : j > i + n => ~ events[j].success
    <2> SUFFICES ASSUME NEW j \in Of(a), j > i + n
                 PROVE  ~ events[j].success
      OBVIOUS
    <2>1. i \in 1 .. Len(events) - n /\ j \in 1 .. Len(events)
      BY <1>1, <1>4 DEF Of
    <2>2. PICK q \in Int : q = j - n
      BY <2>1
    <2>3. q + n = j /\ q > i /\ j > n
      BY <2>1, <2>2
    <2>4. q \in Of(a)'
      BY <1>3, <2>2, <2>3
    <2>5. q \in 1 .. Len(events) - n /\ ~ events'[q].success
      BY <1>4, <1>5, <2>3, <2>4
    <2>6. ~ events[q + n].success
      BY <1>2, <2>5
    <2> QED
      BY <2>3, <2>6
  <1>6. ASSUME IsRetry(a)'
        PROVE  IsRetry(a)
    <2>1. PICK i \in Of(a)' : \A j \in Of(a)' : j >= i => ~ events'[j].success
      BY <1>6, Zenon DEF IsRetry
    <2>2. i + n \in Of(a) /\ i \in 1 .. Len(events) - n
      BY <1>3, <1>4
    <2>3. ~ events'[i].success
      BY <2>1, <2>2
    <2>4. ~ events[i + n].success
      BY <1>2, <2>2, <2>3
    <2>5. \A j \in Of(a)' : j > i => ~ events'[j].success
      BY <1>4, <2>1, <2>2
    <2>6. \A j \in Of(a) : j > i + n => ~ events[j].success
      BY <1>5, <2>5
    <2>7. \A j \in Of(a) : j \in Int
      BY <1>1 DEF Of
    <2>8. \A j \in Of(a) : j >= i + n => ~ events[j].success
      BY <2>2, <2>4, <2>6, <2>7
    <2> QED
      BY <2>2, <2>8 DEF IsRetry
  <1>7. Retries(a)' <= Retries(a)
    <2> DEFINE S == {i \in Failures(Of(a)) :
                       events[i].retry /\ \A j \in Of(a) : j > i => ~ events[j].success}
               T == {i \in Failures(Of(a))' :
                       events'[i].retry /\ \A j \in Of(a)' : j > i => ~ events'[j].success}
    <2>1. ASSUME NEW i \in T
          PROVE  i \in Int /\ i + n \in S
      <3>1. i \in Of(a)' /\ ~ events'[i].success /\ events'[i].retry
        BY Zenon DEF Failures
      <3>2. \A j \in Of(a)' : j > i => ~ events'[j].success
        OBVIOUS
      <3>3. i \in 1 .. Len(events) - n /\ i + n \in Of(a) /\ i \in Int
        BY <1>3, <1>4, <3>1
      <3>4. ~ events[i + n].success /\ events[i + n].retry
        BY <1>2, <3>1, <3>3, Zenon
      <3>5. \A j \in Of(a) : j > i + n => ~ events[j].success
        BY <1>5, <3>1, <3>2
      <3> QED
        BY <3>3, <3>4, <3>5 DEF Failures
    <2>2. S \in SUBSET DOMAIN events /\ events \in Seq(Sample)
      BY DEF Failures, Of, RateInv, RateTypeOK
    <2>3. IsFiniteSet(S) /\ Cardinality(S) \in Nat
      <3> HIDE DEF S
      <3> QED
        BY <2>2, SomeIndices
    <2>4. T \in SUBSET Int
      BY <2>1
    <2>5. Cardinality(T) <= Cardinality(S)
      <3> HIDE DEF S, T
      <3>1. n \in Int /\ \A k \in T : k + n \in S
        BY <2>1
      <3> QED
        BY <2>3, <2>4, <3>1, ShiftCard
    <2> QED
      BY <2>5 DEF Retries
  <1> QED
    BY <1>6, <1>7

\* A new sample leaves the earlier runs as they were.
LEMMA RecordRuns ==
  ASSUME RateInv, NEW success \in BOOLEAN, Record(success), NEW a, NEW i \in Nat, NEW j \in Nat
  PROVE  /\ \A k \in Of(a) : k \in 1 .. Len(events) /\ k \in Of(a)'
         /\ \A k \in Of(a)' : k \in Of(a) \/ (k = Len(events) + 1 /\ a = planned)
         /\ \A k \in Run(a, i, j) : k \in Run(a, i, j)'
         /\ Failing(a, i, j)' => Failing(a, i, j)
         /\ \A k \in Marked(a, i, j)' : k # Len(events) + 1 => k \in Marked(a, i, j)
  <1>1. Len(events) \in Nat /\ DOMAIN events = 1 .. Len(events)
    BY Lengths
  <1>2. /\ DOMAIN events' = 1 .. Len(events) + 1
        /\ \A q \in 1 .. Len(events) :
              /\ events'[q].action = events[q].action
              /\ ~ events'[q].success => ~ events[q].success
              /\ events'[q].retry <=> events[q].retry
        /\ events'[Len(events) + 1].action = planned
    BY RecordSamples
  <1>3. \A k \in Of(a) : k \in 1 .. Len(events) /\ k \in Of(a)'
    BY <1>1, <1>2 DEF Of
  <1>4. \A k \in Of(a)' : k \in Of(a) \/ (k = Len(events) + 1 /\ a = planned)
    BY <1>1, <1>2 DEF Of
  <1>5. \A k \in Run(a, i, j) : k \in Run(a, i, j)'
    BY <1>3 DEF Run
  <1>6. ASSUME Failing(a, i, j)', NEW k \in Run(a, i, j)
        PROVE  ~ events[k].success
    <2>1. ~ events'[k].success
      BY <1>5, <1>6, Zenon DEF Failing
    <2>2. k \in 1 .. Len(events)
      BY <1>3 DEF Run
    <2> QED
      BY <1>2, <2>1, <2>2, Zenon
  <1>7. ASSUME NEW k \in Marked(a, i, j)', k # Len(events) + 1
        PROVE  k \in Marked(a, i, j)
    <2>1. k \in Of(a)' /\ i <= k /\ k <= j
      BY Zenon DEF Marked, Run
    <2>2. events'[k].retry
      BY Zenon DEF Marked
    <2>3. k \in Of(a) /\ k \in 1 .. Len(events)
      BY <1>3, <1>4, <1>7, <2>1
    <2>4. events[k].retry
      BY <1>2, <2>2, <2>3, Zenon
    <2> QED
      BY <2>1, <2>3, <2>4, Zenon DEF Marked, Run
  <1>8. Failing(a, i, j)' => Failing(a, i, j)
    BY <1>6, Zenon DEF Failing
  <1> QED
    BY <1>3, <1>4, <1>5, <1>7, <1>8

\* If all of the action under way from i on has failed, its new sample is marked.
LEMMA RecordSecond ==
  ASSUME RateInv, SecondIsMarked, stage \in {"approved", "tapped"} /\ IsRetry(planned) => asRetry,
         NEW success \in BOOLEAN, Record(success)
  PROVE  SecondIsMarked'
  <1>1. Len(events) \in Nat /\ DOMAIN events = 1 .. Len(events)
    BY Lengths
  <1>2. /\ DOMAIN events' = 1 .. Len(events) + 1
        /\ \A q \in 1 .. Len(events) :
              /\ events'[q].action = events[q].action
              /\ ~ events'[q].success => ~ events[q].success
              /\ events'[q].retry <=> events[q].retry
        /\ events'[Len(events) + 1].action = planned
        /\ asRetry => events'[Len(events) + 1].retry
    BY RecordSamples
  <1> SUFFICES ASSUME NEW i \in DOMAIN events', NEW j \in DOMAIN events', i < j,
                      events'[i].action = events'[j].action,
                      Failing(events[i].action, i, j)'
               PROVE  events'[j].retry
    BY Zenon DEF SecondIsMarked
  <1>3. PICK a : a = events'[i].action
    OBVIOUS
  <1>4. Failing(a, i, j)'
    BY <1>3 DEF Failing, Run, Of
  <1>5. i \in Nat /\ j \in Nat /\ i \in 1 .. Len(events)
    BY <1>1, <1>2
  <1>6. events[i].action = a
    BY <1>2, <1>3, <1>5
  <1>7. CASE j \in 1 .. Len(events)
    <2>1. events[j].action = a
      BY <1>2, <1>3, <1>7
    <2>2. Failing(a, i, j)
      BY <1>4, <1>5, RecordRuns
    <2>3. events[j].retry
      BY <1>1, <1>5, <1>6, <1>7, <2>1, <2>2 DEF SecondIsMarked
    <2> QED
      BY <1>2, <1>7, <2>3, Zenon
  <1>8. CASE j = Len(events) + 1
    <2>1. a = planned
      BY <1>2, <1>3, <1>8
    <2>2. i \in Of(a)
      BY <1>1, <1>5, <1>6 DEF Of
    <2>3. Failing(a, i, j)
      BY <1>4, <1>5, RecordRuns
    <2>4. ASSUME NEW k \in Of(a), k >= i
          PROVE  ~ events[k].success
      <3>1. k \in 1 .. Len(events)
        BY <1>1 DEF Of
      <3>2. k \in Run(a, i, j)
        BY <1>1, <1>8, <2>4, <3>1 DEF Run
      <3> QED
        BY <2>3, <3>2, Zenon DEF Failing
    <2>5. IsRetry(planned)
      BY <2>1, <2>2, <2>4, Zenon DEF IsRetry
    <2>6. stage \in {"approved", "tapped"}
      BY DEF Record
    <2>7. asRetry
      BY <2>5, <2>6
    <2> QED
      BY <1>2, <1>8, <2>7, Zenon
  <1> QED
    BY <1>1, <1>2, <1>7, <1>8

\* The Keeper left room for the failure that is recorded now.
LEMMA RecordFew ==
  ASSUME RateInv, MarksAreFew, Retries(planned) < MaxRetries,
         NEW success \in BOOLEAN, Record(success)
  PROVE  MarksAreFew'
  <1>1. Len(events) \in Nat /\ DOMAIN events = 1 .. Len(events) /\ events \in Seq(Sample)
    BY Lengths DEF RateInv, RateTypeOK
  <1>2. /\ Len(events') = Len(events) + 1
        /\ DOMAIN events' = 1 .. Len(events) + 1
        /\ \A q \in 1 .. Len(events) :
              /\ events'[q].action = events[q].action
              /\ ~ events'[q].success => ~ events[q].success
              /\ events'[q].retry <=> events[q].retry
    BY RecordSamples
  <1> SUFFICES ASSUME NEW a \in Action, NEW i \in 1 .. Len(events) + 2,
                      NEW j \in 0 .. Len(events) + 1, Failing(a, i, j)'
               PROVE  Cardinality(Marked(a, i, j)') <= MaxRetries
    BY <1>1, <1>2 DEF MarksAreFew
  <1>3. i \in Nat /\ j \in Nat
    BY <1>1
  <1>4. PICK T : T = Marked(a, i, j)'
    OBVIOUS
  <1>5. CASE i = Len(events) + 2
    <2>1. \A k \in Of(a)' : ~ (i <= k)
      BY <1>1, <1>2, <1>5 DEF Of
    <2>2. T = {}
      BY <1>4, <2>1 DEF Marked, Run
    <2> QED
      BY <1>4, <2>2, FS_EmptySet
  <1>6. CASE i \in 1 .. Len(events) + 1 /\ Len(events) + 1 \notin T
    <2>1. PICK q \in 0 .. Len(events) : q <= j /\ \A k \in 1 .. Len(events) : k <= j => k <= q
      <3>1. CASE j = Len(events) + 1
        BY <1>1, <3>1
      <3>2. CASE j # Len(events) + 1
        BY <1>1, <3>2
      <3> QED
        BY <3>1, <3>2
    <2>2. \A k \in T : k \in Marked(a, i, j)
      BY <1>3, <1>4, <1>6, RecordRuns, Zenon
    <2>3. Failing(a, i, j)
      BY <1>3, RecordRuns
    <2>4. Failing(a, i, q)
      BY <1>1, <2>1, <2>3 DEF Failing, Run, Of
    <2>5. Marked(a, i, j) \subseteq Marked(a, i, q)
      BY <1>1, <2>1 DEF Marked, Run, Of
    <2>6. Cardinality(Marked(a, i, q)) <= MaxRetries
      BY <1>6, <2>1, <2>4 DEF MarksAreFew
    <2>7. IsFiniteSet(Marked(a, i, q)) /\ Cardinality(Marked(a, i, q)) \in Nat
      BY CountsAreNumbers
    <2>8. T \subseteq Marked(a, i, q)
      BY <2>2, <2>5
    <2>9. /\ Cardinality(T) <= Cardinality(Marked(a, i, q))
          /\ Cardinality(T) \in Nat
      BY <2>7, <2>8, FS_Subset, FS_CardinalityType
    <2> QED
      BY <1>4, <2>6, <2>7, <2>9
  <1>7. CASE Len(events) + 1 \in T
    <2> DEFINE S == {k \in Failures(Of(a)) :
                       events[k].retry /\ \A h \in Of(a) : h > k => ~ events[h].success}
    <2>1. Len(events) + 1 \in Of(a)' /\ Len(events) + 1 \notin Of(a) /\ Len(events) + 1 <= j
      BY <1>1, <1>4, <1>7 DEF Marked, Run, Of
    <2>2. a = planned
      BY <1>3, <2>1, RecordRuns
    <2>3. ASSUME NEW k \in T, k # Len(events) + 1
          PROVE  k \in S
      <3>1. k \in Marked(a, i, j) /\ k \in Run(a, i, j)
        BY <1>3, <1>4, <2>3, RecordRuns DEF Marked
      <3>2. Failing(a, i, j)
        BY <1>3, RecordRuns
      <3>3. k \in Of(a) /\ i <= k /\ k \in 1 .. Len(events)
        BY <1>1, <3>1 DEF Run, Of
      <3>4. ~ events[k].success /\ events[k].retry
        BY <3>1, <3>2, Zenon DEF Failing, Marked
      <3>5. ASSUME NEW h \in Of(a), h > k
            PROVE  ~ events[h].success
        <4>1. h \in 1 .. Len(events)
          BY <1>1 DEF Of
        <4>2. h \in Run(a, i, j)
          BY <1>1, <2>1, <3>3, <3>5, <4>1 DEF Run
        <4> QED
          BY <3>2, <4>2, Zenon DEF Failing
      <3> QED
        BY <3>3, <3>4, <3>5, Zenon DEF Failures
    <2>4. S \in SUBSET DOMAIN events
      BY DEF Failures, Of
    <2>5. Cardinality(S) = Retries(a)
      BY DEF Retries
    <2> HIDE DEF S
    <2>6. IsFiniteSet(S) /\ Cardinality(S) \in Nat
      BY <1>1, <2>4, SomeIndices
    <2>7. T \subseteq S \union {Len(events) + 1}
      BY <2>3
    <2>8. /\ IsFiniteSet(S \union {Len(events) + 1})
          /\ Cardinality(S \union {Len(events) + 1}) <= Cardinality(S) + 1
          /\ Cardinality(S \union {Len(events) + 1}) \in Nat
      <3>1. Len(events) + 1 \notin S
        BY <1>1, <2>4
      <3>2. /\ IsFiniteSet(S \union {Len(events) + 1})
            /\ Cardinality(S \union {Len(events) + 1}) = Cardinality(S) + 1
        BY <2>6, <3>1, FS_AddElement
      <3> QED
        BY <2>6, <3>2
    <2>9. /\ Cardinality(T) <= Cardinality(S \union {Len(events) + 1})
          /\ Cardinality(T) \in Nat
      BY <2>7, <2>8, FS_Subset, FS_CardinalityType
    <2>10. Cardinality(S) < MaxRetries
      BY <2>2, <2>5
    <2> QED
      BY <1>4, <2>6, <2>8, <2>9, <2>10
  <1> QED
    BY <1>1, <1>5, <1>6, <1>7

\* The marks say what is_retry said, and the Keeper's limit leaves room.
LEMMA RetryStep ==
  ASSUME RetryInv, [Next]_rateVars
  PROVE  RetryInv'
  <1>1. RateInv /\ SecondIsMarked /\ MarksAreFew /\ RateInv'
    BY RateStep DEF RetryInv
  <1>2. ASSUME stage \in {"approved", "tapped"}
        PROVE  (IsRetry(planned) => asRetry) /\ Retries(planned) < MaxRetries
    BY <1>2 DEF RetryInv
  <1>3. CASE /\ UNCHANGED <<events, planned, asRetry>>
             /\ stage' \in {stage, "stopped"} \/ (stage = "approved" /\ stage' = "tapped")
    <2>1. SecondIsMarked' /\ MarksAreFew'
      BY <1>1, <1>3 DEF SecondIsMarked, MarksAreFew, Failing, Marked, Run, Of
    <2>2. stage' \in {"approved", "tapped"} => stage \in {"approved", "tapped"}
      BY <1>3
    <2>3. (IsRetry(planned)' <=> IsRetry(planned)) /\ Retries(planned)' = Retries(planned)
      BY <1>3 DEF IsRetry, Retries, Failures, Of
    <2>4. stage' \in {"approved", "tapped"} =>
            (IsRetry(planned)' => asRetry') /\ Retries(planned)' < MaxRetries
      BY <1>2, <1>3, <2>2, <2>3
    <2> QED
      BY <1>1, <2>1, <2>4, Zenon DEF RetryInv
  <1>4. CASE \E r \in Request : Approve(r)
    <2>1. PICK r \in Request : Approve(r)
      BY <1>4
    <2>2. /\ UNCHANGED events
          /\ planned' = r.action
          /\ asRetry' = IsRetry(r.action)
          /\ ~ RetryLimited(r.action)
      BY <2>1, Zenon DEF Approve, Denied
    <2>3. SecondIsMarked' /\ MarksAreFew'
      BY <1>1, <2>2 DEF SecondIsMarked, MarksAreFew, Failing, Marked, Run, Of
    <2>4. IsRetry(planned)' => asRetry'
      <3>1. IsRetry(planned)' => IsRetry(r.action)
        BY <2>2 DEF IsRetry, Of
      <3> QED
        BY <2>2, <3>1, Zenon
    <2>5. Retries(planned)' < MaxRetries
      <3>1. Retries(planned)' = Retries(r.action)
        BY <2>2 DEF Retries, Failures, Of
      <3>2. Retries(r.action) \in Nat
        BY <1>1, CountsAreNumbers
      <3> QED
        BY <2>2, <3>1, <3>2 DEF RetryLimited
    <2> QED
      BY <1>1, <2>3, <2>4, <2>5, Zenon DEF RetryInv
  <1>5. CASE \E success \in BOOLEAN : Record(success)
    <2>1. PICK success \in BOOLEAN : Record(success)
      BY <1>5
    <2>2. stage \in {"approved", "tapped"} /\ stage' = "ready"
      BY <2>1 DEF Record
    <2>3. SecondIsMarked'
      BY <1>1, <1>2, <2>1, <2>2, RecordSecond
    <2>4. MarksAreFew'
      BY <1>1, <1>2, <2>1, <2>2, RecordFew
    <2>5. stage' \notin {"approved", "tapped"}
      BY <2>2
    <2> QED
      BY <1>1, <2>3, <2>4, <2>5, Zenon DEF RetryInv
  <1>6. CASE Tick
    <2>1. SecondIsMarked' /\ MarksAreFew'
      BY <1>1, <1>6, TickMarks
    <2>2. stage' = stage /\ planned' = planned /\ asRetry' = asRetry
      BY <1>6, Zenon DEF Tick
    <2>3. PICK a : a = planned
      OBVIOUS
    <2>4. (IsRetry(a)' => IsRetry(a)) /\ Retries(a)' <= Retries(a)
      BY <1>1, <1>6, TickRetries
    <2>5. Retries(a) \in Nat /\ Retries(a)' \in Nat
      <3>1. Retries(a) \in Nat
        BY <1>1, CountsAreNumbers
      <3>2. events' \in Seq(Sample)
        BY <1>1 DEF RateInv, RateTypeOK
      <3>3. PICK T : T = {i \in Failures(Of(a))' :
                       events'[i].retry /\ \A j \in Of(a)' : j > i => ~ events'[j].success}
        OBVIOUS
      <3>4. T \in SUBSET (1 .. Len(events'))
        BY <3>2, <3>3, LenProperties DEF Failures, Of
      <3>5. IsFiniteSet(T) /\ Cardinality(T) \in Nat
        <4>1. PICK m \in Int : m = Len(events')
          BY <3>2, LenProperties
        <4>2. IsFiniteSet(1 .. m)
          BY FS_Interval
        <4> QED
          BY <3>4, <4>1, <4>2, FS_Subset, FS_CardinalityType
      <3> QED
        BY <3>1, <3>3, <3>5 DEF Retries
    <2>6. stage' \in {"approved", "tapped"} =>
            (IsRetry(planned)' => asRetry') /\ Retries(planned)' < MaxRetries
      <3> SUFFICES ASSUME stage' \in {"approved", "tapped"}
                   PROVE  (IsRetry(planned)' => asRetry') /\ Retries(planned)' < MaxRetries
        OBVIOUS
      <3>1. (IsRetry(a) => asRetry) /\ Retries(a) < MaxRetries
        BY <1>2, <2>2, <2>3
      <3>2. Retries(a)' < MaxRetries
        BY <2>4, <2>5, <3>1
      <3>3. (IsRetry(planned)' => IsRetry(a)') /\ Retries(planned)' = Retries(a)'
        BY <2>2, <2>3 DEF IsRetry, Retries, Failures, Of
      <3>4. IsRetry(planned)' => asRetry'
        BY <2>2, <2>4, <3>1, <3>3, Zenon
      <3> QED
        BY <3>2, <3>3, <3>4
    <2> QED
      BY <1>1, <2>1, <2>6, Zenon DEF RetryInv
  <1> QED
    BY <1>3, <1>4, <1>5, <1>6 DEF Next, Deny, AskHuman, Stop, Tap, rateVars

\* All but the first of a run of failures are marked.
LEMMA AllButTheFirst ==
  ASSUME RetryInv
  PROVE  RetryCap
  <1>1. RateInv /\ SecondIsMarked /\ MarksAreFew
    BY DEF RetryInv
  <1>2. Len(events) \in Nat /\ DOMAIN events = 1 .. Len(events)
    BY <1>1, Lengths
  <1> SUFFICES ASSUME NEW a \in Action, NEW i \in DOMAIN events, NEW j \in DOMAIN events,
                      Failing(a, i, j)
               PROVE  Cardinality(Run(a, i, j)) <= MaxRetries + 1
    BY DEF RetryCap
  <1>3. Cardinality(Marked(a, i, j)) <= MaxRetries
    <2>1. i \in 1 .. Len(events) + 1 /\ j \in 0 .. Len(events)
      BY <1>2
    <2> QED
      BY <1>1, <2>1 DEF MarksAreFew
  <1>4. /\ IsFiniteSet(Marked(a, i, j)) /\ Cardinality(Marked(a, i, j)) \in Nat
        /\ Cardinality(Run(a, i, j)) \in Nat
    BY <1>1, CountsAreNumbers
  <1>5. CASE Run(a, i, j) \subseteq Marked(a, i, j)
    <2>1. Run(a, i, j) = Marked(a, i, j)
      BY <1>5 DEF Marked
    <2> QED
      BY <1>3, <1>4, <2>1
  <1>6. CASE ~ (Run(a, i, j) \subseteq Marked(a, i, j))
    <2>1. PICK u \in Run(a, i, j) : u \notin Marked(a, i, j)
      BY <1>6
    <2>2. ASSUME NEW v \in Run(a, i, j), v # u
          PROVE  v \in Marked(a, i, j)
      <3>1. /\ u \in DOMAIN events /\ i <= u /\ u <= j /\ events[u].action = a
            /\ v \in DOMAIN events /\ i <= v /\ v <= j /\ events[v].action = a
        BY DEF Run, Of
      <3>2. ASSUME NEW p \in Run(a, i, j), NEW q \in Run(a, i, j), p < q
            PROVE  events[q].retry
        <4>1. /\ p \in DOMAIN events /\ i <= p /\ events[p].action = a
              /\ q \in DOMAIN events /\ q <= j /\ events[q].action = a
          BY DEF Run, Of
        <4>2. Failing(a, p, q)
          <5>1. Run(a, p, q) \subseteq Run(a, i, j)
            BY <1>2, <4>1 DEF Run, Of
          <5> QED
            BY <5>1, Zenon DEF Failing
        <4> QED
          BY <1>1, <3>2, <4>1, <4>2 DEF SecondIsMarked
      <3>3. ~ events[u].retry
        BY <2>1, Zenon DEF Marked
      <3>4. ~ (v < u)
        BY <3>2, <3>3
      <3>5. u < v
        BY <1>2, <2>2, <3>1, <3>4
      <3>6. events[v].retry
        BY <3>2, <3>5
      <3> QED
        BY <3>6, Zenon DEF Marked
    <2>3. Run(a, i, j) = Marked(a, i, j) \union {u}
      BY <2>2 DEF Marked
    <2>4. Cardinality(Run(a, i, j)) = Cardinality(Marked(a, i, j)) + 1
      BY <1>4, <2>1, <2>3, FS_AddElement
    <2> QED
      BY <1>3, <1>4, <2>4
  <1> QED
    BY <1>5, <1>6

\* The action under way carries the mark that is due to it, and the Keeper left room
\* for its failure (orchestrator.py:248, keeper.py:142-147).
THEOREM RetryInvariant == Spec => []RetryInv
  <1>1. Init => RetryInv
    <2> SUFFICES ASSUME Init PROVE RetryInv
      OBVIOUS
    <2>1. /\ DOMAIN events = {} /\ Len(events) = 0
          /\ stage \notin {"approved", "tapped"}
      BY DEF Init
    <2>2. \A a, i, j : Marked(a, i, j) = {}
      BY <2>1 DEF Marked, Run, Of
    <2>3. MarksAreFew
      BY <2>2, FS_EmptySet DEF MarksAreFew
    <2>4. SecondIsMarked
      BY <2>1 DEF SecondIsMarked
    <2> QED
      BY <2>1, <2>3, <2>4, RateInit, Zenon DEF RetryInv
  <1> QED
    BY <1>1, RetryStep, PTL DEF Spec

\* Within the retention no action fails more than 1 + max_retries_per_action times in
\* a row (metrics.py:287-309, keeper.py:142, orchestrator.py:248).
THEOREM NotTooOftenInARow == Spec => []RetryCap
  <1>1. RetryInv => RetryCap
    BY AllButTheFirst
  <1> QED
    BY <1>1, RetryInvariant, PTL

\* The windows count for the taps and the failures at every step: types, order, the
\* sample of each tap, the mark of each failure (metrics.py:164-179, 287-309).
THEOREM WindowsInvariant == Spec => []WindowsInv
  BY CapInvariant, RetryInvariant, PTL DEF WindowsInv
=============================================================================
