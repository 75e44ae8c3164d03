---------------------------- MODULE MetricsLease ----------------------------
(***************************************************************************)
(* The acceptance evidence of a device, kept in SQLite by                  *)
(* storage/session_store.py and held in memory by the RuntimeMetrics of    *)
(* whichever process owns the device's metrics lease (runtime/metrics.py). *)
(*                                                                         *)
(* Each method of the store is one transaction.  A process acquires the    *)
(* lease and then loads; it renews and then saves, at most once per        *)
(* persist interval unless it flushes; it may crash between any two.       *)
(* Time is the wall clock of lease_expires_at, in ticks.                   *)
(***************************************************************************)
EXTENDS Integers

CONSTANTS
  Process,      \* the processes that run the program on the device
  Nobody,       \* no row in v0_metrics_leases
  Gone,         \* an owner_id whose process is dead
  Lease,        \* lease_seconds
  Interval,     \* persist_interval_seconds
  Gap,          \* the longest a process takes from one metrics call to the next
                \* and to finish it: the code has no such bound, see Tick
  MaxEvidence,  \* bound on what is counted
  Environment   \* "storefail": a transaction may fail

ASSUME LeaseAssumption ==
  /\ Lease \in Nat /\ Interval \in Nat \ {0} /\ Gap \in Nat \ {0}
  /\ Interval + 3 * Gap <= Lease
  /\ MaxEvidence \in Nat
  /\ Nobody \notin Process /\ Gone \notin Process /\ Nobody # Gone
  /\ Environment \subseteq {"storefail"}

VARIABLES
  owner, left,    \* the lease row: owner_id, and time until lease_expires_at
  saved,          \* v0_acceptance: how much evidence is saved
  at,             \* where each process is
  tracker,        \* RuntimeMetrics._tracker
  unsavedFor,     \* time since _last_persist_at
  idle,           \* time since the metrics call under way, or the last one
  missed          \* history: the last renewal failed

leaseVars   == <<owner, left>>
processVars == <<at, tracker, unsavedFor, idle, missed>>
allVars     == <<leaseVars, saved, processVars>>

Place == {"out", "loading", "running", "renewing", "saving", "closing", "lastsave",
          "releasing"}
Live == {"running", "renewing", "saving"}

Init ==
  /\ owner = Nobody
  /\ left = 0
  /\ saved = 0
  /\ at = [p \in Process |-> "out"]
  /\ tracker = [p \in Process |-> 0]
  /\ unsavedFor = [p \in Process |-> 0]
  /\ idle = [p \in Process |-> 0]
  /\ missed = [p \in Process |-> FALSE]

\* Beyond its limit a time makes no difference.
Upto(n, limit) == IF n > limit THEN limit ELSE n

Move(p, from, to) == at[p] = from /\ at' = [at EXCEPT ![p] = to]

-----------------------------------------------------------------------------
(* RuntimeMetrics.__init__                                                 *)

\* No other owner's lease is running.
Free == owner = Nobody \/ left = 0

\* acquire_metrics_lease; on a conflict the program does not start.
Acquire(p) ==
  /\ Move(p, "out", "loading")
  /\ Free
  /\ owner' = p
  /\ left' = Lease
  /\ idle' = [idle EXCEPT ![p] = 0]
  /\ missed' = [missed EXCEPT ![p] = FALSE]
  /\ UNCHANGED <<saved, tracker, unsavedFor>>

\* Mutant: a new process starts to count from nothing.
Load_Fresh(p) ==
  /\ Move(p, "loading", "running")
  /\ tracker' = [tracker EXCEPT ![p] = 0]
  /\ unsavedFor' = [unsavedFor EXCEPT ![p] = 0]
  /\ UNCHANGED <<leaseVars, saved, idle, missed>>

\* load_acceptance
Load(p) ==
  /\ Move(p, "loading", "running")
  /\ tracker' = [tracker EXCEPT ![p] = saved]
  /\ unsavedFor' = [unsavedFor EXCEPT ![p] = 0]
  /\ UNCHANGED <<leaseVars, saved, idle, missed>>

-----------------------------------------------------------------------------
(* Counting and persisting.                                                *)

\* Mutant: the interval is never found to have passed.
Due_Never(p) == FALSE

Due(p) == unsavedFor[p] >= Interval

\* tick(), record_action() or an increment, with the _maybe_persist at its end.
Touch(p) ==
  /\ \/ Move(p, "running", "renewing") /\ Due(p)
     \/ Move(p, "running", "running") /\ ~ Due(p)
  /\ \E n \in 0 .. 1 :
       /\ tracker[p] + n <= MaxEvidence
       /\ tracker' = [tracker EXCEPT ![p] = @ + n]
  /\ idle' = [idle EXCEPT ![p] = 0]
  /\ UNCHANGED <<leaseVars, saved, unsavedFor, missed>>

\* flush(), and the persist of close().
Flush(p) ==
  /\ Move(p, "running", "renewing") \/ Move(p, "running", "closing")
  /\ idle' = [idle EXCEPT ![p] = 0]
  /\ UNCHANGED <<leaseVars, saved, tracker, unsavedFor, missed>>

\* Mutant: the renewal leaves lease_expires_at as it is.
Renew_KeepsExpiry(p) ==
  /\ owner = p
  /\ Move(p, "renewing", "saving") \/ Move(p, "closing", "lastsave")
  /\ missed' = [missed EXCEPT ![p] = FALSE]
  /\ UNCHANGED <<leaseVars, saved, tracker, unsavedFor, idle>>

\* Mutant: the new expiry counts from the old one instead of from now.
Renew_Adds(p) ==
  /\ owner = p
  /\ Move(p, "renewing", "saving") \/ Move(p, "closing", "lastsave")
  /\ left' = left + Lease
  /\ missed' = [missed EXCEPT ![p] = FALSE]
  /\ UNCHANGED <<owner, saved, tracker, unsavedFor, idle>>

\* renew_metrics_lease: whether the lease has expired is not asked.
Renew(p) ==
  /\ owner = p
  /\ Move(p, "renewing", "saving") \/ Move(p, "closing", "lastsave")
  /\ left' = Lease
  /\ missed' = [missed EXCEPT ![p] = FALSE]
  /\ UNCHANGED <<owner, saved, tracker, unsavedFor, idle>>

\* MetricsLeaseConflict: no later call can succeed either, and the program ends.
LeaseLost(p) ==
  /\ owner # p
  /\ Move(p, "renewing", "releasing") \/ Move(p, "closing", "releasing")
  /\ UNCHANGED <<leaseVars, saved, tracker, unsavedFor, idle, missed>>

\* save_acceptance: a transaction of its own, which does not look at the lease.
Save(p) ==
  /\ Move(p, "saving", "running") \/ Move(p, "lastsave", "releasing")
  /\ saved' = tracker[p]
  /\ unsavedFor' = [unsavedFor EXCEPT ![p] = Upto(idle[p], Interval)]
  /\ UNCHANGED <<leaseVars, tracker, idle, missed>>

\* The transaction raises: run() carries on, close() releases all the same.
StoreFails(p) ==
  /\ "storefail" \in Environment
  /\ \/ /\ Move(p, "renewing", "running") \/ Move(p, "closing", "releasing")
        /\ missed' = [missed EXCEPT ![p] = TRUE]
     \/ /\ Move(p, "saving", "running") \/ Move(p, "lastsave", "releasing")
        /\ UNCHANGED missed
  /\ UNCHANGED <<leaseVars, saved, tracker, unsavedFor, idle>>

\* release_metrics_lease deletes the row if it is its own.
Release(p) ==
  /\ Move(p, "releasing", "out")
  /\ owner' = IF owner = p THEN Nobody ELSE owner
  /\ left' = IF owner = p THEN 0 ELSE left
  /\ UNCHANGED <<saved, tracker, unsavedFor, idle, missed>>

\* The process dies; its row stays, and its next incarnation has a new owner_id.
Crash(p) ==
  /\ at[p] # "out"
  /\ at' = [at EXCEPT ![p] = "out"]
  /\ owner' = IF owner = p THEN Gone ELSE owner
  /\ UNCHANGED <<left, saved, tracker, unsavedFor, idle, missed>>

-----------------------------------------------------------------------------

\* One tick.  No process is held up for longer than Gap: one that were, between
\* renewing and saving, could write over what its successor has saved, as
\* save_acceptance does not ask who owns the lease.
Tick ==
  /\ \A p \in Process : at[p] # "out" => idle[p] < Gap
  /\ left' = IF left > 0 THEN left - 1 ELSE 0
  /\ idle' = [p \in Process |-> IF at[p] = "out" THEN 0 ELSE Upto(idle[p] + 1, Gap)]
  /\ unsavedFor' = [p \in Process |->
       IF at[p] = "out" THEN 0 ELSE Upto(unsavedFor[p] + 1, Interval)]
  /\ UNCHANGED <<owner, saved, at, tracker, missed>>

Step(p) ==
  \/ Acquire(p) \/ Load(p) \/ Touch(p) \/ Flush(p)
  \/ Renew(p) \/ LeaseLost(p) \/ Save(p) \/ StoreFails(p) \/ Release(p) \/ Crash(p)

Next == Tick \/ \E p \in Process : Step(p)

(***************************************************************************)
(* A process that runs keeps calling metrics, as every cycle does several  *)
(* times, and gets on with the calls it has begun; time goes on; and the   *)
(* store does not fail for ever.                                           *)
(***************************************************************************)
Fairness ==
  /\ WF_allVars(Tick)
  /\ \A p \in Process :
       /\ WF_allVars(Load(p)) /\ WF_allVars(Touch(p))
       /\ WF_allVars(Release(p))
       /\ SF_allVars(Renew(p)) /\ SF_allVars(LeaseLost(p)) /\ SF_allVars(Save(p))

Spec == Init /\ [][Next]_allVars /\ Fairness

-----------------------------------------------------------------------------
(* Properties                                                              *)

\* Each variable has its type, and a row that is gone has no time left.
LeaseTypeOK ==
  /\ owner \in Process \union {Nobody, Gone}
  /\ left \in 0 .. Lease
  /\ saved \in 0 .. MaxEvidence
  /\ at \in [Process -> Place]
  /\ tracker \in [Process -> 0 .. MaxEvidence]
  /\ unsavedFor \in [Process -> 0 .. Interval]
  /\ idle \in [Process -> 0 .. Gap]
  /\ missed \in [Process -> BOOLEAN]
  /\ owner = Nobody => left = 0

\* A process that runs, and whose renewals reach the store, owns the lease: no
\* second RuntimeMetrics of the device counts beside it (session_store.py:212,
\* metrics.py:89, 268-271).
OneOwner == \A p \in Process : at[p] \in Live /\ ~ missed[p] => owner = p

\* Saved evidence is never overwritten with less: neither a restart nor a second
\* process erases a run (session_store.py:293).
NeverErased == [][saved' >= saved]_allVars

\* What a process has counted is saved, unless it ends first (metrics.py:268-281).
EvidenceIsSaved ==
  \A p \in Process, n \in 1 .. MaxEvidence :
    (at[p] \in Live /\ tracker[p] >= n) ~> (saved >= n \/ at[p] \notin Live)
=============================================================================
