--------------------------- MODULE ConstructionPlan ---------------------------
(***************************************************************************)
(* From the map proposed to the steps that build it: ConstructionPlanner   *)
(* (layout/construction.py) orders them by what they depend on, and        *)
(* StagingSolver (layout/staging.py) breaks the cycles of moves by putting *)
(* a building aside for a while.                                           *)
(*                                                                         *)
(* A step is named by three numbers that are ordered as the strings        *)
(* "move:b" < "road:add:x:y" < "road:remove:x:y" are.                      *)
(***************************************************************************)
EXTENDS LayoutSearch, Sequences

VARIABLES
  plan,    \* the steps ordered so far
  drafts,  \* the maps that they make of the baseline, one after the other
  turn     \* StagingSolver: the parity of its turns that change no position

planVars == <<plan, drafts, turn>>

Staging(b)  == <<0, b, 0>>
MoveOf(b)   == <<1, b, 0>>
RoadNew(p)  == <<2, p[1], p[2]>>
RoadGone(p) == <<3, p[1], p[2]>>

IsMove(s) == s[1] \in {0, 1}
IsBuild(s) == s[1] = 2

Earlier(s, t) ==
  \/ s[1] < t[1]
  \/ s[1] = t[1] /\ (s[2] < t[2] \/ (s[2] = t[2] /\ s[3] < t[3]))

\* The first of S: a set of one step, unless S is empty.
First(S) == {s \in S : \A t \in S \ {s} : Earlier(s, t)}

\* A step of the plan.  What a road step builds or removes is at both ends.
Step(s, from, to, after) == [id |-> s, from |-> from, to |-> to, after |-> after]

PlanInit == plan = <<>> /\ drafts = <<baseline>> /\ turn = FALSE

-----------------------------------------------------------------------------
(* What there is to do, and what waits for what                            *)

MovedOnes == {b \in Building : target.at[b] # baseline.at[b]}
Moves     == {MoveOf(b) : b \in MovedOnes}
Builds    == {RoadNew(p) : p \in target.roads \ baseline.roads}
Removes   == {RoadGone(p) : p \in baseline.roads \ target.roads}
Steps     == Moves \union Builds \union Removes

\* The buildings that stand, in the given map, on one of the cells.
Standing(S) == {MoveOf(b) : b \in {o \in MovedOnes : Cells(baseline, o) \intersect S # {}}}

\* Mutant: a move does not wait for the building that stands in its place.
DependsOn_Crowded(s) ==
  CASE s \in Moves   -> {t \in Builds : <<t[2], t[3]>> \in Beside(Cells(target, s[2]))}
    [] s \in Builds  -> Standing({<<s[2], s[3]>>})
    [] s \in Removes -> Moves \union Builds

\* Mutant: the removals only wait for the new roads.
DependsOn_EarlyRemoval(s) ==
  CASE s \in Moves   -> (Standing(Cells(target, s[2])) \ {s})
                          \union {t \in Builds : <<t[2], t[3]>> \in Beside(Cells(target, s[2]))}
    [] s \in Builds  -> Standing({<<s[2], s[3]>>})
    [] s \in Removes -> Builds

DependsOn(s) ==
  CASE s \in Moves   -> (Standing(Cells(target, s[2])) \ {s})
                          \union {t \in Builds : <<t[2], t[3]>> \in Beside(Cells(target, s[2]))}
    [] s \in Builds  -> Standing({<<s[2], s[3]>>})
    [] s \in Removes -> Moves \union Builds

Planned == {plan[i].id : i \in DOMAIN plan}
Unresolved == Steps \ Planned

\* The step as the planner makes it.
Original(s) ==
  IF IsMove(s) THEN Step(s, baseline.at[s[2]], target.at[s[2]], DependsOn(s))
  ELSE Step(s, <<s[2], s[3]>>, <<s[2], s[3]>>, DependsOn(s))

-----------------------------------------------------------------------------
(* A map, and a step of the plan on it                                     *)

\* ConstructionExecutor._apply_expected_step raises unless this holds.
Applicable(city, step) ==
  LET s == step.id IN
  CASE IsMove(s)  -> city.at[s[2]] = step.from /\ CanMove(city, s[2], step.to)
    [] IsBuild(s) -> step.to \in Point \ Occupied(city, -1)
    [] OTHER      -> step.to \in city.roads

Applied(city, step) ==
  LET s == step.id IN
  CASE IsMove(s)  -> Moved(city, s[2], step.to)
    [] IsBuild(s) -> [city EXCEPT !.roads = @ \union {step.to}]
    [] OTHER      -> [city EXCEPT !.roads = @ \ {step.to}]

\* The map after all the steps of the plan.
Now == drafts[Len(drafts)]

\* A step is appended to the plan.
Add(step) == plan' = Append(plan, step) /\ drafts' = Append(drafts, Applied(Now, step))

\* _replay_prefix tests a move as the executor does; a road it lays or takes away
\* untested, and CityMap raises if that is under a building or off the map.
Replayable(city, step) ==
  /\ IsMove(step.id)  => Applicable(city, step)
  /\ IsBuild(step.id) => step.to \in Point \ UNION {Cells(city, b) : b \in Building}

\* _replay_prefix does not raise.
Replays == \A i \in DOMAIN plan : Replayable(drafts[i], plan[i])

-----------------------------------------------------------------------------
(* ConstructionPlanner._topological_plan                                   *)

StartPlan ==
  /\ Searched
  /\ stage' = "ordering"
  /\ UNCHANGED <<baseline, target, round, unrepaired, planVars>>

\* The steps that wait for nothing.
Ready == {s \in Unresolved : DependsOn(s) \subseteq Planned}

\* s has waited for nothing for longer than t.
FreedBefore(s, t) ==
  \E i \in DOMAIN plan :
    /\ plan[i].id \in DependsOn(t)
    /\ \A j \in DOMAIN plan : plan[j].id \in DependsOn(s) => j < i

\* They queue up as they are freed, those freed together by their names.
Order ==
  /\ stage = "ordering"
  /\ \E s \in Ready :
       /\ \A t \in Ready \ {s} : FreedBefore(s, t) \/ (~ FreedBefore(t, s) /\ Earlier(s, t))
       /\ Add(Original(s))
  /\ UNCHANGED <<searchVars, turn>>

-----------------------------------------------------------------------------
(* StagingSolver.resolve                                                   *)

Pending == Moves \intersect Unresolved

Ordered ==
  /\ stage = "ordering"
  /\ Ready = {}
  /\ stage' = CASE Pending = {} -> "planned"
                [] Replays      -> "staging"
                [] OTHER        -> "raised"
  /\ UNCHANGED <<baseline, target, round, unrepaired, planVars>>

\* The steps, other than the moves still to be placed, that s waits for.
External(s) == DependsOn(s) \ Pending

Eligible == {s \in Pending : External(s) \subseteq Planned}

TakenByOthers(b) == UNION {Cells(Now, o) : o \in Building \ {b}}

\* _first_ready_move looks at the other buildings only.
CanGo == {s \in Eligible : Footprint(s[2], target.at[s[2]]) \intersect TakenByOthers(s[2]) = {}}

\* Mutant: the step says that the building is where it was at first.
GoNow_FromBaseline ==
  /\ stage = "staging"
  /\ \E s \in First(CanGo) : Add(Step(s, baseline.at[s[2]], target.at[s[2]], {}))
  /\ UNCHANGED <<searchVars, turn>>

GoNow ==
  /\ stage = "staging"
  /\ \E s \in First(CanGo) : Add(Step(s, Now.at[s[2]], target.at[s[2]], {}))
  /\ UNCHANGED <<searchVars, turn>>

\* Mutant: a building may be put aside where another is to stand.
StagingCells_Unreserved(b) ==
  {p \in Point :
     LET S == Footprint(b, p) IN
     /\ S \subseteq Point
     /\ S \intersect (Blocked \union Now.roads \union TakenByOthers(b)) = {}
     /\ Access(Now.roads, S)}

\* _find_staging_cell
StagingCells(b) ==
  {p \in Point :
     LET S == Footprint(b, p) IN
     /\ S \subseteq Point
     /\ S \intersect UNION {Cells(target, o) : o \in Building \ {b}} = {}
     /\ S \intersect (Blocked \union Now.roads \union TakenByOthers(b)) = {}
     /\ Access(Now.roads, S)}

Distance(p, q) ==
  LET Apart(i) == IF p[i] < q[i] THEN q[i] - p[i] ELSE p[i] - q[i] IN Apart(1) + Apart(2)

\* The nearest; of two, the one that is further up, or else further left.
Nearest(S, p) ==
  LET Key(q) == <<Distance(p, q), q[2], q[1]>>
  IN  {q \in S : \A r \in S \ {q} : Earlier(Key(q), Key(r))}

\* The pivot is put aside.  Where it already is the nearest cell, the solver
\* appends a move onto its own cell and comes round again with nothing changed;
\* those steps are left out of the plan, which nobody will see.
PutAside ==
  /\ stage = "staging"
  /\ CanGo = {}
  /\ \E s \in First(Eligible) : \E cell \in Nearest(StagingCells(s[2]), Now.at[s[2]]) :
       IF cell = Now.at[s[2]]
       THEN turn' = ~ turn /\ UNCHANGED <<plan, drafts>>
       ELSE Add(Step(Staging(s[2]), Now.at[s[2]], cell, {})) /\ UNCHANGED turn
  /\ UNCHANGED searchVars

\* All moves are placed, or there is no pivot, or no cell for it: the loop is
\* left and not entered again.
LoopEnds ==
  /\ stage = "staging"
  /\ CanGo = {}
  /\ \A s \in First(Eligible) : StagingCells(s[2]) = {}
  /\ stage' = "following"
  /\ UNCHANGED <<baseline, target, round, unrepaired, planVars>>

\* The other steps follow as their dependencies allow: in the order of their
\* names, as none waits for one with a later name.
CanFollow == {s \in Unresolved \ Moves : DependsOn(s) \subseteq Planned}

Follow ==
  /\ stage = "following"
  /\ \E s \in First(CanFollow) : Add(Original(s))
  /\ UNCHANGED <<searchVars, turn>>

Resolved ==
  /\ stage = "following"
  /\ CanFollow = {}
  /\ stage' = "planned"
  /\ UNCHANGED <<baseline, target, round, unrepaired, planVars>>

PlanStep == Order \/ Ordered \/ GoNow \/ PutAside \/ LoopEnds \/ Follow \/ Resolved
-----------------------------------------------------------------------------
(* The inductive invariants.                                               *)

Searching == {"buildings", "repairing", "roads"}

\* A building is to stand on what is a road in the given map.
ReusesRoad == \E b \in Building : Cells(target, b) \intersect baseline.roads # {}

Named == Steps \union {Staging(b) : b \in MovedOnes}

\* The names of the steps before the i-th.
Before(i) == {plan[j].id : j \in 1 .. i - 1}

\* Each step is planned once, after what it waits for, and brings about what its name
\* says; a building is put aside before it is moved.
StepsInOrder ==
  \A i \in DOMAIN plan :
    LET s == plan[i].id IN
    /\ plan[i].after \subseteq Before(i)
    /\ s \in Steps => s \notin Before(i)
    /\ s \notin Steps => MoveOf(s[2]) \notin Before(i)
    /\ s \in Moves => plan[i].to = target.at[s[2]]
    /\ s \in Builds \union Removes => plan[i].to = <<s[2], s[3]>>
    /\ s \in Removes => plan[i].after = Moves \union Builds

\* The roads of a draft are those built and not removed, and its buildings stand where
\* they were or, once moved, where they are to be.
DraftsFollow ==
  \A i \in DOMAIN drafts :
    /\ drafts[i].roads = (baseline.roads \union {p \in Point : RoadNew(p) \in Before(i)})
                           \ {p \in Point : RoadGone(p) \in Before(i)}
    /\ \A b \in Building :
         /\ MoveOf(b) \in Before(i) => drafts[i].at[b] = target.at[b]
         /\ MoveOf(b) \notin Before(i) /\ Staging(b) \notin Before(i)
              => drafts[i].at[b] = baseline.at[b]

PlanInv ==
  /\ plan \in Seq([id : Named, from : Point, to : Point, after : SUBSET Named])
  /\ drafts \in Seq(City)
  /\ Len(drafts) = Len(plan) + 1
  /\ drafts[1] = baseline
  /\ \A i \in DOMAIN plan : drafts[i + 1] = Applied(drafts[i], plan[i])
  /\ StepsInOrder
  /\ DraftsFollow
  /\ stage \in Searching => plan = <<>>
  /\ stage \in Searching \union {"ordering"} => Planned \subseteq Steps

\* The executor can take every step of the plan, in its order.
Executes == \A i \in DOMAIN plan : Applicable(drafts[i], plan[i])

\* As long as no building is to stand on a road, and none is left aside, each step
\* can be applied to the map that the steps before it make.
PlanRuns ==
  ~ ReusesRoad /\ stage \notin Searching /\ (stage \in {"ordering", "staging"} \/ Pending = {})
    => Executes /\ Valid(Now)
=============================================================================
