------------------------------ MODULE RateGate ------------------------------
(***************************************************************************)
(* The Keeper (executor/keeper.py) over the rate windows of RuntimeMetrics *)
(* (runtime/metrics.py), as run_once() uses them (orchestrator.py:248-281, *)
(* 300-386): the retry mark and the window are read when the action is     *)
(* planned, the tap is made later, and its sample is recorded later still. *)
(* Time passes in between.  That each tap gets its sample before the next  *)
(* plan is V0Loop's WritesAreRecorded.                                     *)
(*                                                                         *)
(* Times are ages, counted in ticks of the monotonic clock.                *)
(***************************************************************************)
EXTENDS Integers, Sequences, FiniteSets

CONSTANTS
  Action,         \* action names; the planner gives each one task_id
  Mode,           \* run_mode
  MinuteWindow,   \* RATE_WINDOW_SECONDS
  FailureWindow,  \* FAILURE_WINDOW_SECONDS
  Retention,      \* event_retention_seconds
  Cooldown,       \* retry_limit_cooldown_seconds
  MaxPerMinute,   \* max_actions_per_minute
  MaxRetries,     \* max_retries_per_action
  MinSamples,     \* circuit_breaker_min_samples
  RateNum,        \* circuit_breaker_failure_rate, a fraction
  RateDen,
  NoAction

ASSUME RateAssumption ==
  /\ Mode \in {"DRY_RUN", "ASSIST", "AUTO"}
  /\ MinuteWindow \in Nat
  /\ FailureWindow \in Nat
  /\ Retention \in Nat
  /\ MinuteWindow <= FailureWindow
  /\ FailureWindow <= Retention
  /\ Cooldown \in Nat \ {0}
  /\ MaxPerMinute \in Nat \ {0}
  /\ MaxRetries \in Nat \ {0}
  /\ MinSamples \in Nat
  /\ RateNum \in Nat
  /\ RateDen \in Nat \ {0}
  /\ NoAction \notin Action

VARIABLES
  events,     \* _events, oldest first, each with its age
  cooling,    \* _cooldowns: what is left of each, 0 for none
  stage,      \* where the cycle is
  planned,    \* the approved action
  asRetry,    \* its retry mark
  taps        \* history: the ages of the taps of the last MinuteWindow

rateVars == <<events, cooling, stage, planned, asRetry, taps>>

Sample == [action : Action, success : BOOLEAN, retry : BOOLEAN, age : 0 .. Retention]

\* What the Keeper is asked: the planner's actions are all of the automatic risk
\* levels and without premium currency or approval; the Keeper takes any.
Request == [action : Action, actionable : BOOLEAN, premium : BOOLEAN,
            risky : BOOLEAN, approved : BOOLEAN]

Init ==
  /\ events = <<>>
  /\ cooling = [a \in Action |-> 0]
  /\ stage = "ready"
  /\ planned = NoAction
  /\ asRetry = FALSE
  /\ taps = <<>>

-----------------------------------------------------------------------------
(* What is_retry() and rate_window() read.                                 *)

\* The indices of a's samples; a later sample has the greater index.
Of(a) == {i \in DOMAIN events : events[i].action = a}

Within(window) == {i \in DOMAIN events : events[i].age <= window}

Failures(I) == {i \in I : ~ events[i].success}

\* Mutant: the mark is taken from a's oldest sample.
IsRetry_Oldest(a) ==
  \E i \in Of(a) : ~ events[i].success /\ \A j \in Of(a) : j >= i

\* _is_retry_locked: a's latest sample is a failure, that is, from some sample of
\* its own on a has only failed.
IsRetry(a) == \E i \in Of(a) : \A j \in Of(a) : j >= i => ~ events[j].success

\* _consecutive_retries: the marked failures since a's last success.
Retries(a) ==
  Cardinality({i \in Failures(Of(a)) :
    events[i].retry /\ \A j \in Of(a) : j > i => ~ events[j].success})

-----------------------------------------------------------------------------
(* Keeper.evaluate, in the order of its tests.                             *)

\* Mutant: only what succeeded counts against the limit.
RateLimited_Successes ==
  Cardinality(Within(MinuteWindow) \ Failures(Within(MinuteWindow))) >= MaxPerMinute

RateLimited == Cardinality(Within(MinuteWindow)) >= MaxPerMinute

Refused(r) ==
  \/ Mode = "DRY_RUN"
  \/ ~ r.actionable
  \/ r.premium              \* allow_premium_currency is False in run_app
  \/ RateLimited

RetryLimited(a) == Retries(a) >= MaxRetries

Cooling(a) == cooling[a] > 0

BreakerOpen ==
  LET samples == Cardinality(Within(FailureWindow))
      failures == Cardinality(Failures(Within(FailureWindow)))
  IN  samples >= MinSamples /\ failures * RateDen > samples * RateNum

Denied(r) ==
  Refused(r) \/ RetryLimited(r.action) \/ Cooling(r.action) \/ BreakerOpen

NeedsHuman(r) == (Mode = "ASSIST" \/ r.risky) /\ ~ r.approved

-----------------------------------------------------------------------------

\* Mutant: every denial of a cooling or retry-limited action starts the cooldown.
StartsCooldown_Always(r) ==
  ~ Refused(r) /\ (RetryLimited(r.action) \/ Cooling(r.action))

\* The reason is RETRY_LIMIT and the action is not cooling down.
StartsCooldown(r) ==
  ~ Refused(r) /\ RetryLimited(r.action) /\ ~ Cooling(r.action)

Deny(r) ==
  /\ stage = "ready"
  /\ Denied(r)
  /\ cooling' = IF StartsCooldown(r) THEN [cooling EXCEPT ![r.action] = Cooldown]
                                     ELSE cooling
  /\ UNCHANGED <<events, stage, planned, asRetry, taps>>

AskHuman(r) ==
  /\ stage = "ready"
  /\ ~ Denied(r)
  /\ NeedsHuman(r)
  /\ stage' = "stopped"
  /\ UNCHANGED <<events, cooling, planned, asRetry, taps>>

Approve(r) ==
  /\ stage = "ready"
  /\ ~ Denied(r)
  /\ ~ NeedsHuman(r)
  /\ stage' = "approved"
  /\ planned' = r.action
  /\ asRetry' = IsRetry(r.action)
  /\ UNCHANGED <<events, cooling, taps>>

\* The writer makes the tap.
Tap ==
  /\ stage = "approved"
  /\ stage' = "tapped"
  /\ taps' = Append(taps, 0)
  /\ UNCHANGED <<events, cooling, planned, asRetry>>

\* record_action: a write that was dropped before it began is a failure too.
Record(success) ==
  /\ stage = "tapped" \/ (stage = "approved" /\ ~ success)
  /\ events' = Append(events, [action |-> planned, success |-> success,
                               retry |-> asRetry, age |-> 0])
  /\ stage' = "ready"
  /\ planned' = NoAction
  /\ asRetry' = FALSE
  /\ UNCHANGED <<cooling, taps>>

\* The emergency stop, Ctrl-C or the deadline ends the loop.
Stop ==
  /\ stage # "stopped"
  /\ stage' = "stopped"
  /\ UNCHANGED <<events, cooling, planned, asRetry, taps>>

\* Mutant: a sample is kept one tick too long.
Expired_OffByOne(age) == age > Retention + 1

\* _prune_events: older than the retention.
Expired(age) == age > Retention

\* One tick later, _prune_events pops the n oldest samples: it stops at the first
\* that has not expired.
Prunes(n) ==
  /\ \A i \in 1 .. n : Expired(events[i].age + 1)
  /\ n < Len(events) => ~ Expired(events[n + 1].age + 1)

\* The m oldest taps are no longer within the last MinuteWindow.
Forgets(m) ==
  /\ \A i \in 1 .. m : taps[i] + 1 > MinuteWindow
  /\ m < Len(taps) => taps[m + 1] + 1 <= MinuteWindow

\* One tick later.  _prune_events runs before every read and after every append,
\* so pruning here, as time passes, is what the readers see.
Tick ==
  /\ \E n \in 0 .. Len(events) :
       /\ Prunes(n)
       /\ events' = [i \in 1 .. Len(events) - n |->
                      [events[i + n] EXCEPT !.age = events[i + n].age + 1]]
  /\ \E m \in 0 .. Len(taps) :
       /\ Forgets(m)
       /\ taps' = [i \in 1 .. Len(taps) - m |-> taps[i + m] + 1]
  /\ cooling' = [a \in Action |-> IF cooling[a] > 0 THEN cooling[a] - 1 ELSE 0]
  /\ UNCHANGED <<stage, planned, asRetry>>

Next ==
  \/ \E r \in Request : Deny(r) \/ AskHuman(r) \/ Approve(r)
  \/ Tap
  \/ \E success \in BOOLEAN : Record(success)
  \/ Stop
  \/ Tick

\* Time goes on; nothing else needs to happen.
Spec == Init /\ [][Next]_rateVars /\ WF_rateVars(Tick)

-----------------------------------------------------------------------------
(* Properties                                                              *)

\* Each variable has its type, and no sample is older than the retention.
RateTypeOK ==
  /\ events \in Seq(Sample)
  /\ cooling \in [Action -> 0 .. Cooldown]
  /\ stage \in {"ready", "approved", "tapped", "stopped"}
  /\ planned \in Action \union {NoAction}
  /\ asRetry \in BOOLEAN
  /\ taps \in Seq(0 .. MinuteWindow)

\* Whatever time passes between the decision, the tap and its sample, no window of
\* a minute holds more taps than max_actions_per_minute (keeper.py:136,
\* metrics.py:177-179, orchestrator.py:258, 381).
RateCap == Len(taps) <= MaxPerMinute

\* a's samples from the i-th to the j-th of all, and that they are all failures.
Run(a, i, j) == {k \in Of(a) : i <= k /\ k <= j}
Failing(a, i, j) == \A k \in Run(a, i, j) : ~ events[k].success

\* Within the retention an action never fails more than 1 + max_retries_per_action
\* times in a row: the first failure, which carries no retry mark, and the marked
\* ones (metrics.py:287-309, keeper.py:142, orchestrator.py:248).
RetryCap ==
  \A a \in Action, i, j \in DOMAIN events :
    Failing(a, i, j) => Cardinality(Run(a, i, j)) <= MaxRetries + 1

\* The gate never closes for good: whatever was tried, failed and denied, and
\* however often the loop asks again, every action comes to be allowed again once
\* time has passed (keeper.py:136-162, metrics.py:196-203, 259-266).
GateReopens ==
  Mode = "AUTO" =>
    \A a \in Action :
      []<> ~ (RateLimited \/ RetryLimited(a) \/ Cooling(a) \/ BreakerOpen)

-----------------------------------------------------------------------------
(* The inductive invariants.                                               *)

\* Both windows are in the order of time: the oldest first.
InOrder ==
  /\ \A i, j \in DOMAIN events : i <= j => events[i].age >= events[j].age
  /\ \A i, j \in DOMAIN taps : i <= j => taps[i] >= taps[j]

RateInv ==
  /\ RateTypeOK
  /\ InOrder
  /\ stage \in {"approved", "tapped"} => planned \in Action

\* A tap whose sample is not recorded yet.
Untold == IF stage = "tapped" THEN 1 ELSE 0

\* Until the loop stops, the k-th latest tap that was recorded is at least as old
\* as the k-th latest sample: counting samples never misses a tap.
TapsAreCounted ==
  stage # "stopped" =>
    \A t \in 1 .. Len(taps) - Untold :
      LET k == t + Untold + Len(events) - Len(taps)
      IN  k >= 1 /\ events[k].age <= taps[t]

\* The Keeper left room for the tap it approved.
CapInv ==
  /\ RateInv
  /\ TapsAreCounted
  /\ stage = "approved" => Len(taps) < MaxPerMinute
  /\ RateCap

\* Of two failures of an action with no success between them the second is marked.
SecondIsMarked ==
  \A i, j \in DOMAIN events :
    i < j /\ events[i].action = events[j].action /\ Failing(events[i].action, i, j)
      => events[j].retry

\* The marked ones of a run; there are never too many in a run of failures.
Marked(a, i, j) == {k \in Run(a, i, j) : events[k].retry}

MarksAreFew ==
  \A a \in Action, i \in 1 .. Len(events) + 1, j \in 0 .. Len(events) :
    Failing(a, i, j) => Cardinality(Marked(a, i, j)) <= MaxRetries

\* The action under way carries its mark, and the Keeper left room for its failure.
RetryInv ==
  /\ RateInv
  /\ SecondIsMarked
  /\ MarksAreFew
  /\ stage \in {"approved", "tapped"} =>
       /\ IsRetry(planned) => asRetry
       /\ Retries(planned) < MaxRetries

\* Both caps hold for the taps and failures themselves, with all that it takes.
WindowsInv == CapInv /\ RetryInv
=============================================================================
