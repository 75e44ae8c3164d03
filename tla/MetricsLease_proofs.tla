------------------------- MODULE MetricsLease_proofs -------------------------
(***************************************************************************)
(* Theorems about MetricsLease, for any processes, lease, interval and     *)
(* bound on the evidence: while no process is held up longer than a third  *)
(* of what the lease leaves beside the persist interval, the lease is      *)
(* exclusive, and because it is, nothing saved is ever overwritten with    *)
(* less.                                                                   *)
(***************************************************************************)
EXTENDS MetricsLease, TLAPS

\* Where a process has RuntimeMetrics, or is making or closing one.
Counting == {"running", "renewing", "closing", "saving", "lastsave"}
Holding  == Counting \union {"loading"}

\* How much of the lease must be left to a process at each point, so that its next
\* renewal, at most two calls away, still finds the row its own.
EnoughLeft(p) ==
  /\ at[p] \in {"loading", "saving", "lastsave"} => left >= Lease - idle[p]
  /\ at[p] = "running" /\ unsavedFor[p] < Interval => left >= Lease - Gap - unsavedFor[p]
  /\ at[p] = "running" /\ unsavedFor[p] = Interval =>
       left >= Lease - Gap - Interval - idle[p] + 1
  /\ at[p] \in {"renewing", "closing"} => left >= Lease - 2 * Gap - Interval - idle[p] + 1

\* A process whose renewals reach the store owns the row, and in time.
Owns ==
  \A p \in Process : at[p] \in Holding /\ ~ missed[p] => owner = p /\ EnoughLeft(p)

\* Only a renewal that has just succeeded leads to a save, and nothing fails before
\* the first one.
Renewed == \A p \in Process : at[p] \in {"loading", "saving", "lastsave"} => ~ missed[p]

\* The owner of the row knows all that is saved.
KnowsSaved == \A p \in Process : at[p] \in Counting /\ owner = p => tracker[p] >= saved

LeaseInv == LeaseTypeOK /\ Owns /\ Renewed /\ KnowsSaved

-----------------------------------------------------------------------------

\* Nobody has the lease, and nothing is counted (session_store.py:71-105).
LEMMA InitLease == Init => LeaseInv
  BY LeaseAssumption DEF Init, LeaseInv, LeaseTypeOK, Owns, Renewed, KnowsSaved, Place,
     Holding, Counting

\* At every point at which a process holds the lease some time of it is left, so that
\* no other can take it (session_store.py:231-238).
LEMMA NotFree ==
  ASSUME LeaseInv, NEW p \in Process, at[p] \in Holding, ~ missed[p]
  PROVE  owner = p /\ left > 0
  <1> USE LeaseAssumption DEF LeaseInv, LeaseTypeOK
  <1>1. owner = p /\ EnoughLeft(p)
    BY DEF Owns
  <1>2. /\ left \in Nat /\ idle[p] \in 0 .. Gap /\ unsavedFor[p] \in 0 .. Interval
        /\ Lease \in Nat /\ Interval \in Nat \ {0} /\ Gap \in Nat \ {0}
        /\ Interval + 3 * Gap <= Lease
    OBVIOUS
  <1>3. at[p] \in {"loading", "saving", "lastsave", "running", "renewing", "closing"}
    BY DEF Holding, Counting
  <1>4. left > 0
    BY ONLY <1>1, <1>2, <1>3 DEF EnoughLeft
  <1> QED
    BY <1>1, <1>4

\* Taking the lease: it was free, so nobody else counts with it.
LEMMA AcquireKeeps ==
  ASSUME LeaseInv, NEW p \in Process, Acquire(p)
  PROVE  LeaseInv'
  <1> USE LeaseAssumption DEF LeaseInv, LeaseTypeOK, Acquire, Move
  <1>1. \A q \in Process : ~ (at[q] \in Holding /\ ~ missed[q])
    BY NotFree DEF Free
  <1>2. LeaseTypeOK'
    BY DEF Place
  <1>3. Owns'
    BY <1>1 DEF Owns, EnoughLeft, Holding, Counting
  <1>4. Renewed' /\ KnowsSaved'
    BY DEF Renewed, KnowsSaved, Counting
  <1> QED
    BY <1>2, <1>3, <1>4

\* The evidence is loaded; the interval begins here, though the lease began before.
LEMMA LoadKeeps ==
  ASSUME LeaseInv, NEW p \in Process, Load(p)
  PROVE  LeaseInv'
  <1> USE LeaseAssumption DEF LeaseInv, LeaseTypeOK, Load, Move, leaseVars
  <1>1. LeaseTypeOK'
    BY DEF Place
  <1>2. owner = p /\ left >= Lease - idle[p]
    BY DEF Owns, EnoughLeft, Holding, Renewed
  <1>3. \A q \in Process \ {p} : EnoughLeft(q)' <=> EnoughLeft(q)
    BY DEF EnoughLeft
  <1>4. EnoughLeft(p)'
    BY <1>2 DEF EnoughLeft
  <1>5. Owns'
    BY <1>2, <1>3, <1>4 DEF Owns, Holding, Counting
  <1>6. Renewed' /\ KnowsSaved'
    BY DEF Renewed, KnowsSaved, Counting
  <1> QED
    BY <1>1, <1>5, <1>6

\* A call of the metrics, and one that goes on to persist.
LEMMA CallKeeps ==
  ASSUME LeaseInv, NEW p \in Process, Touch(p) \/ Flush(p)
  PROVE  LeaseInv'
  <1> USE LeaseAssumption DEF LeaseInv, LeaseTypeOK, Touch, Flush, Move, leaseVars
  <1>1. LeaseTypeOK'
    BY DEF Place
  <1>2. /\ at[p] = "running" /\ at'[p] \in {"running", "renewing", "closing"}
        /\ at'[p] = "running" => unsavedFor[p] < Interval
        /\ idle'[p] = 0 /\ unsavedFor' = unsavedFor /\ left' = left /\ owner' = owner
        /\ missed' = missed /\ saved' = saved
        /\ tracker' \in [Process -> 0 .. MaxEvidence] /\ tracker'[p] >= tracker[p]
    BY DEF Due
  <1>3. \A q \in Process \ {p} : /\ EnoughLeft(q)' <=> EnoughLeft(q)
                                 /\ at'[q] = at[q] /\ tracker'[q] = tracker[q]
    BY DEF EnoughLeft
  <1>4. EnoughLeft(p) => EnoughLeft(p)'
    BY <1>2 DEF EnoughLeft
  <1>5. Owns'
    BY <1>2, <1>3, <1>4 DEF Owns, Holding, Counting
  <1>6. Renewed'
    BY <1>2, <1>3 DEF Renewed
  <1>7. KnowsSaved'
    <2>1. tracker[p] \in Nat /\ tracker'[p] \in Nat /\ saved \in Nat
      BY <1>2
    <2>2. at[p] \in Counting
      BY <1>2 DEF Counting
    <2>3. owner = p => tracker'[p] >= saved
      BY <1>2, <2>1, <2>2 DEF KnowsSaved
    <2> QED
      BY <1>2, <1>3, <2>3 DEF KnowsSaved
  <1> QED
    BY <1>1, <1>5, <1>6, <1>7

\* The renewal, the save and their failures.
LEMMA PersistKeeps ==
  ASSUME LeaseInv, NEW p \in Process, Renew(p) \/ LeaseLost(p) \/ Save(p) \/ StoreFails(p)
  PROVE  LeaseInv'
  <1> USE LeaseAssumption DEF LeaseInv, LeaseTypeOK, Move, leaseVars
  <1>1. LeaseTypeOK'
    <2>1. CASE Renew(p)
      <3>1. at' \in [Process -> Place] /\ owner' # Nobody /\ left' \in 0 .. Lease
        BY <2>1 DEF Renew, Place
      <3>2. missed' \in [Process -> BOOLEAN] /\ UNCHANGED <<owner, saved, tracker, unsavedFor, idle>>
        BY <2>1 DEF Renew
      <3> QED
        BY <3>1, <3>2
    <2>2. CASE LeaseLost(p)
      BY <2>2 DEF LeaseLost, Place
    <2>3. CASE Save(p)
      BY <2>3 DEF Save, Place, Upto
    <2>4. CASE StoreFails(p)
      BY <2>4 DEF StoreFails, Place
    <2> QED
      BY <2>1, <2>2, <2>3, <2>4
  <1>2. \A q \in Process \ {p} : at[q] \in Holding /\ ~ missed[q] => owner # p
    BY DEF Owns
  <1>3. /\ \A q \in Process \ {p} :
             /\ at'[q] = at[q] /\ missed'[q] = missed[q] /\ tracker'[q] = tracker[q]
             /\ left' = left => (EnoughLeft(q)' <=> EnoughLeft(q))
        /\ owner' = owner
        /\ left' = left \/ owner = p
    BY DEF Renew, LeaseLost, Save, StoreFails, EnoughLeft
  <1>4. at[p] \in {"saving", "lastsave"} => owner = p /\ left >= Lease - idle[p]
    BY DEF Owns, EnoughLeft, Renewed, Holding, Counting
  <1>5. at'[p] \in Holding /\ ~ missed'[p] => owner = p /\ EnoughLeft(p)'
    <2>1. CASE Renew(p)
      BY <2>1 DEF Renew, EnoughLeft
    <2>2. CASE LeaseLost(p)
      BY <2>2 DEF LeaseLost, Holding, Counting
    <2>3. CASE Save(p)
      BY <1>4, <2>3 DEF Save, EnoughLeft, Holding, Counting, Upto
    <2>4. CASE StoreFails(p)
      BY <1>4, <2>4 DEF StoreFails, EnoughLeft, Holding, Counting
    <2> QED
      BY <2>1, <2>2, <2>3, <2>4
  <1>6. Owns'
    BY <1>2, <1>3, <1>5 DEF Owns
  <1>7. Renewed'
    BY DEF Renewed, Renew, LeaseLost, Save, StoreFails
  <1>8. KnowsSaved'
    <2>1. CASE Save(p)
      BY <1>4, <2>1 DEF KnowsSaved, Save, Counting
    <2>2. CASE Renew(p) \/ LeaseLost(p) \/ StoreFails(p)
      BY <2>2 DEF KnowsSaved, Counting, Renew, LeaseLost, StoreFails
    <2> QED
      BY <2>1, <2>2
  <1> QED
    BY <1>1, <1>6, <1>7, <1>8

\* The row is given back, or left behind.
LEMMA EndKeeps ==
  ASSUME LeaseInv, NEW p \in Process, Release(p) \/ Crash(p)
  PROVE  LeaseInv'
  <1> USE LeaseAssumption DEF LeaseInv, LeaseTypeOK, Release, Crash, Move
  <1>1. LeaseTypeOK'
    BY DEF Place
  <1>2. /\ at'[p] = "out"
        /\ \A q \in Process \ {p} : at'[q] = at[q]
        /\ \A q \in Process \ {p} : owner = q => owner' = q /\ left' = left
        /\ \A q \in Process : owner' = q => owner = q
        /\ UNCHANGED <<idle, unsavedFor, missed, saved, tracker>>
    OBVIOUS
  <1>3. Owns'
    BY <1>2 DEF Owns, EnoughLeft, Holding, Counting
  <1>4. Renewed' /\ KnowsSaved'
    BY <1>2 DEF Renewed, KnowsSaved, Counting
  <1> QED
    BY <1>1, <1>3, <1>4

\* A tick takes from the lease what it adds to the times of the processes.
LEMMA TickKeeps ==
  ASSUME LeaseInv, Tick
  PROVE  LeaseInv'
  <1> USE LeaseAssumption DEF LeaseInv, LeaseTypeOK, Tick
  <1>1. LeaseTypeOK'
    BY DEF Upto
  <1>2. ASSUME NEW p \in Process, at[p] \in Holding, EnoughLeft(p), left > 0
        PROVE  EnoughLeft(p)'
    <2>1. /\ idle'[p] = idle[p] + 1
          /\ left' = left - 1
          /\ at' = at
          /\ unsavedFor'[p] = IF unsavedFor[p] = Interval THEN Interval ELSE unsavedFor[p] + 1
      BY <1>2 DEF Holding, Counting, Upto
    <2>2. /\ idle[p] \in Nat /\ unsavedFor[p] \in 0 .. Interval /\ left \in Nat
          /\ Lease \in Nat /\ Interval \in Nat \ {0} /\ Gap \in Nat \ {0}
      OBVIOUS
    <2> QED
      BY ONLY <1>2, <2>1, <2>2 DEF EnoughLeft
  <1>3. Owns'
    BY <1>2, NotFree DEF Owns
  <1>4. Renewed' /\ KnowsSaved'
    BY DEF Renewed, KnowsSaved
  <1> QED
    BY <1>1, <1>3, <1>4

\* Each step of a process, and the passing of time, keeps the invariant.
LEMMA LeaseKeeps == LeaseInv /\ [Next]_allVars => LeaseInv'
  <1> SUFFICES ASSUME LeaseInv, [Next]_allVars PROVE LeaseInv'
    OBVIOUS
  <1>1. CASE UNCHANGED allVars
    BY <1>1 DEF allVars, leaseVars, processVars, LeaseInv, LeaseTypeOK, Owns, EnoughLeft,
                Renewed, KnowsSaved
  <1>2. CASE Tick
    BY <1>2, TickKeeps
  <1>3. CASE \E p \in Process : Step(p)
    BY <1>3, AcquireKeeps, LoadKeeps, CallKeeps, PersistKeeps, EndKeeps DEF Step
  <1> QED
    BY <1>1, <1>2, <1>3 DEF Next

-----------------------------------------------------------------------------

\* The invariant holds, whatever crashes and fails.
THEOREM LeaseInvariant == Spec => []LeaseInv
  BY InitLease, LeaseKeeps, PTL DEF Spec

\* The types hold (session_store.py:205-290).
THEOREM LeaseTypes == Spec => []LeaseTypeOK
  <1>1. LeaseInv => LeaseTypeOK
    BY DEF LeaseInv
  <1> QED
    BY <1>1, LeaseInvariant, PTL

\* One RuntimeMetrics of a device counts at a time (session_store.py:212,
\* metrics.py:89, 268-281).
THEOREM LeaseIsExclusive == Spec => []OneOwner
  <1>1. LeaseInv => OneOwner
    BY DEF LeaseInv, Owns, OneOwner, Holding, Counting, Live
  <1> QED
    BY <1>1, LeaseInvariant, PTL

\* Saved evidence only grows (session_store.py:293).
THEOREM EvidenceOnlyGrows == Spec => NeverErased
  <1>1. LeaseInv /\ [Next]_allVars => [saved' >= saved]_allVars
    <2> SUFFICES ASSUME LeaseInv, [Next]_allVars PROVE saved' >= saved \/ UNCHANGED allVars
      OBVIOUS
    <2>1. saved \in Nat
      BY LeaseAssumption DEF LeaseInv, LeaseTypeOK
    <2>2. CASE \E p \in Process : Save(p)
      <3>1. PICK p \in Process : Save(p)
        BY <2>2
      <3>2. at[p] \in {"saving", "lastsave"} /\ saved' = tracker[p]
        BY <3>1 DEF Save, Move
      <3>3. owner = p
        BY <3>2 DEF LeaseInv, Owns, Renewed, Holding, Counting
      <3> QED
        BY <3>2, <3>3 DEF LeaseInv, KnowsSaved, Counting
    <2>3. CASE UNCHANGED allVars \/ saved' = saved
      BY <2>1, <2>3
    <2> QED
      BY <2>2, <2>3 DEF Next, Tick, Step, Acquire, Load, Touch, Flush, Renew, LeaseLost,
                       StoreFails, Release, Crash
  <1> QED
    BY <1>1, LeaseInvariant, PTL DEF Spec, NeverErased
=============================================================================
