--------------------------- MODULE ConstructionSite ---------------------------
(***************************************************************************)
(* The whole of the layout pipeline: the search, the plan, and             *)
(* ConstructionExecutor (layout/execution.py), which takes the plan step   *)
(* by step to the live city and scans it after each.  The identities that  *)
(* a scan does not show come from BuildingIdentityReconciler               *)
(* (city/identity.py).  Meanwhile the player may change the city.          *)
(***************************************************************************)
EXTENDS ConstructionPlan

CONSTANTS
  Kind,         \* what a scan tells buildings apart by, their fingerprint
  MaxChanges    \* bound: on the changes the player makes

ASSUME SiteAssumption ==
  /\ \A b, o \in Building : Kind[b] = Kind[o] => Size[b] = Size[o] /\ (b \in Movable <=> o \in Movable)
  /\ MaxChanges \in Nat

VARIABLES
  live,      \* the city in the game
  known,     \* current, the city as last scanned
  done,      \* how many steps of the plan are completed
  changes,   \* the changes that the player has made
  blind      \* history: the actions, since it was last as known, on a city that is not

siteVars == <<live, known, done, changes, blind>>
vars == <<searchVars, planVars, siteVars>>

Ended == {"raised", "COMPLETE", "BLOCKED_UNRESOLVED", "PRECONDITION_FAILED",
          "ACTION_FAILED", "VERIFICATION_FAILED", "STOPPED"}

Init ==
  /\ SearchInit
  /\ PlanInit
  /\ live = baseline
  /\ known = baseline
  /\ done = 0
  /\ changes = 0
  /\ blind = 0

-----------------------------------------------------------------------------
(* The game                                                                *)

\* Two maps that a scan does not tell apart.
Alike(c, d) ==
  /\ c.roads = d.roads
  /\ \A b \in Building : \E o \in Building : d.at[o] = c.at[b] /\ Kind[o] = Kind[b]

\* The step on the live city, where the game permits it: what is moved is the
\* building that stands there.
Effect(step) ==
  IF IsMove(step.id)
  THEN {Moved(live, o, step.to) :
          o \in {b \in Building :
                   /\ Kind[b] = Kind[step.id[2]]
                   /\ live.at[b] = step.from
                   /\ CanMove(live, b, step.to)}}
  ELSE IF IsBuild(step.id)
  THEN {[live EXCEPT !.roads = @ \union {p}] : p \in {step.to} \ Occupied(live, -1)}
  ELSE {[live EXCEPT !.roads = @ \ {step.to}]}

\* The player moves a building or works on the roads.
PlayerChanges ==
  /\ stage \in {"planned", "between", "acted"}
  /\ changes < MaxChanges
  /\ live' \in
       {Moved(live, b, p) : b \in Movable, p \in Point}
         \union {[live EXCEPT !.roads = @ \union {p}] : p \in Point}
         \union {[live EXCEPT !.roads = @ \ {p}] : p \in Point}
  /\ live' # live
  /\ Valid(live')
  /\ changes' = changes + 1
  /\ UNCHANGED <<searchVars, planVars, known, done, blind>>

-----------------------------------------------------------------------------
(* ConstructionExecutor.run                                                *)

Report(status) == stage' = status

TheStep == plan[done + 1]

Refuse ==
  /\ stage = "planned"
  /\ Unresolved # {}
  /\ Report("BLOCKED_UNRESOLVED")
  /\ UNCHANGED known

\* reconcile() finds every building where it has to be, or raises; the
\* buildings then have the identities, and the places, that were expected.
Recognised(expected) == Alike([expected EXCEPT !.roads = live.roads], live)

FirstScan ==
  /\ stage = "planned"
  /\ Unresolved = {}
  /\ IF Recognised(baseline)
     THEN /\ known' = [baseline EXCEPT !.roads = live.roads]
          /\ Report(IF known' = baseline THEN "between" ELSE "PRECONDITION_FAILED")
     ELSE Report("VERIFICATION_FAILED") /\ UNCHANGED known

ScanFails ==
  /\ stage \in {"planned", "acted"}
  /\ stage = "planned" => Unresolved = {}
  /\ Report("VERIFICATION_FAILED")
  /\ UNCHANGED known

\* Stopped before a step, or after the last.
Stop ==
  /\ stage = "between"
  /\ Report("STOPPED")
  /\ UNCHANGED known

Permitted ==
  /\ TheStep.after \subseteq {plan[i].id : i \in 1 .. done}
  /\ Applicable(known, TheStep)

Reject ==
  /\ stage = "between"
  /\ done < Len(plan)
  /\ ~ Permitted
  /\ Report("PRECONDITION_FAILED")
  /\ UNCHANGED known

\* adapter.execute() has its effect or has none, and returns or raises.
Act ==
  /\ stage = "between"
  /\ done < Len(plan)
  /\ Permitted
  /\ live' \in {live} \union Effect(TheStep)
  /\ blind' = IF Alike(known, live) THEN blind ELSE blind + 1
  /\ stage' \in {"acted", "ACTION_FAILED"}
  /\ UNCHANGED <<known, done, changes>>

\* Mutant: that the scan shows the step, and no more, is not looked at.
Verify_RoadsUnseen ==
  /\ stage = "acted"
  /\ LET expected == Applied(known, TheStep) IN
     IF Recognised(expected)
     THEN /\ known' = [expected EXCEPT !.roads = live.roads]
          /\ Report("between")
          /\ done' = done + 1
     ELSE Report("VERIFICATION_FAILED") /\ UNCHANGED <<known, done>>

\* Mutant: the step is taken as done without a fresh scan.
Verify_Unscanned ==
  /\ stage = "acted"
  /\ known' = Applied(known, TheStep)
  /\ Report("between")
  /\ done' = done + 1

Verify ==
  /\ stage = "acted"
  /\ LET expected == Applied(known, TheStep) IN
     IF Recognised(expected)
     THEN /\ known' = [expected EXCEPT !.roads = live.roads]
          /\ IF known' = expected
             THEN Report("between") /\ done' = done + 1
             ELSE Report("VERIFICATION_FAILED") /\ UNCHANGED done
     ELSE Report("VERIFICATION_FAILED") /\ UNCHANGED <<known, done>>

Complete ==
  /\ stage = "between"
  /\ done = Len(plan)
  /\ Report("COMPLETE")
  /\ UNCHANGED known

Finished == stage \in Ended /\ UNCHANGED vars

Plan == (StartPlan \/ PlanStep) /\ UNCHANGED siteVars

Run ==
  /\ UNCHANGED <<baseline, target, round, unrepaired, planVars>>
  /\ \/ Act
     \/ /\ Verify
        /\ blind' = IF Alike(known', live) THEN 0 ELSE blind
        /\ UNCHANGED <<live, changes>>
     \/ /\ Refuse \/ FirstScan \/ ScanFails \/ Stop \/ Reject \/ Complete
        /\ UNCHANGED <<live, done, changes, blind>>

Next ==
  \/ SearchStep /\ UNCHANGED <<planVars, siteVars>>
  \/ Plan
  \/ Run
  \/ PlayerChanges
  \/ Finished

\* The calls return: the solver's loop turns and the executor goes on.
Spec == Init /\ [][Next]_vars /\ WF_vars(Plan) /\ WF_vars(Run)

-----------------------------------------------------------------------------
(* Properties                                                              *)

\* The types, and that the live city is one that CityMap accepts.
SiteTypeOK ==
  /\ baseline \in Baselines
  /\ round \in 1 .. MaxRounds
  /\ stage \in {"buildings", "repairing", "roads", "ordering", "staging", "following",
                "planned", "between", "acted"} \union Ended
  /\ Valid(live)
  /\ Valid(known)
  /\ done \in 0 .. Len(plan)
  /\ changes \in 0 .. MaxChanges

\* Every plan can be built: the solver does not raise, and no step is refused,
\* unless the city was another when work began (construction.py:126-127).  Not
\* so where a building is to stand on a road, as a move does not wait for the
\* removal of the road: such a plan is never built to its end.
PlanExecutesOffRoads ==
  IF ReusesRoad
  THEN stage # "COMPLETE"
  ELSE /\ stage # "raised"
       /\ stage = "PRECONDITION_FAILED" => done = 0 /\ known # baseline

\* COMPLETE is reported of the proposed map, as scanned after the last step,
\* whatever the actions did and the player has changed.
CompleteIsTarget == stage = "COMPLETE" => known = target

\* A change nobody declared is noticed at the next scan: at most one action is
\* performed on a city that differs from the one known.
OneStepBlind ==
  /\ blind <= 1
  /\ stage = "between" /\ changes = 0 => Alike(known, live)

\* In a city left to the plan, a building with road access before and after
\* has it at each step between, also when it is put aside for a while.
ServedAllAlong ==
  changes = 0 =>
    \A b \in Building : Served(baseline, b) /\ Served(target, b) => Served(known, b)

\* StagingSolver.resolve() returns, and so does all that follows
\* (staging.py:77-128).
PlanEnds == stage = "ordering" ~> stage \in Ended

\* Cycles that one building put aside will open: no road is in them, none
\* waits for two, and no two wait for the same.
Simple ==
  /\ Builds \intersect Unresolved = {}
  /\ \A s \in Pending :
       /\ Cardinality(DependsOn(s) \intersect Pending) <= 1
       /\ Cardinality({t \in Pending : s \in DependsOn(t)}) <= 1

\* Such cycles are resolved, or given up, and the work ends.
SimpleCyclesEnd == stage = "staging" /\ Simple ~> stage \in Ended
-----------------------------------------------------------------------------
(* The inductive invariant.                                                *)

\* Until the plan is made nothing is done; then the city known is the draft that the
\* steps done make, each of which could be applied.
Working ==
  /\ stage \in Searching \union {"ordering", "staging", "following", "planned"}
       => done = 0 /\ known = baseline /\ (changes = 0 => live = baseline)
  /\ stage \in {"between", "acted", "COMPLETE"} =>
       /\ Unresolved = {}
       /\ known = drafts[done + 1]
       /\ \A i \in 1 .. done : Applicable(drafts[i], plan[i])
  /\ stage = "acted" => done < Len(plan) /\ Permitted
  /\ stage = "COMPLETE" => done = Len(plan)

\* In a city left to the plan the roads are those known, or the step has its effect.
RoadsKnown ==
  changes = 0 =>
    /\ stage = "between" => live.roads = known.roads
    /\ stage = "acted" => live.roads \in {known.roads, Applied(known, TheStep).roads}

SiteInv ==
  /\ SearchInv
  /\ PlanInv
  /\ PlanRuns
  /\ SiteTypeOK
  /\ Working
  /\ RoadsKnown
  /\ ServedAllAlong
  /\ stage = "raised" => ReusesRoad
  /\ stage = "PRECONDITION_FAILED" => ReusesRoad \/ (done = 0 /\ known # baseline)
=============================================================================
