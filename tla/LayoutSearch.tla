----------------------------- MODULE LayoutSearch -----------------------------
(***************************************************************************)
(* JointLayoutOptimizer: rounds of relocating buildings                    *)
(* (layout/optimizer.py) and of reworking the roads                        *)
(* (layout/road_optimizer.py) on a copy of the map.                        *)
(*                                                                         *)
(* The scores choose which of the permitted changes is accepted, and here  *)
(* any may be; how many passes a round makes is left open.  A rework that  *)
(* does not raise the score is dropped as a whole: only those that are     *)
(* accepted are steps.                                                     *)
(***************************************************************************)
EXTENDS CityGrid

CONSTANTS
  Baselines,      \* the maps that the search may be given
  MaxRounds,      \* max_rounds
  MaxConnector    \* max_connector_length

ASSUME SearchAssumption ==
  /\ \A city \in Baselines : Valid(city)
  /\ MaxRounds \in Nat \ {0}
  /\ MaxConnector \in Nat \ {0}

VARIABLES
  baseline,   \* the map the search was given
  target,     \* the map it has come to
  round,      \* of JointLayoutOptimizer.optimize()
  unrepaired, \* the buildings whose road access is still to be looked at
  stage       \* what the pipeline is doing

searchVars == <<baseline, target, round, unrepaired, stage>>

SearchInit ==
  /\ baseline \in Baselines
  /\ target = baseline
  /\ round = 1
  /\ unrepaired = {}
  /\ stage = "buildings"

-----------------------------------------------------------------------------
(* LayoutOptimizer                                                         *)

\* _optimize_one
Relocate(b) ==
  /\ stage = "buildings"
  /\ \E origin \in Point \ {target.at[b]} :
       /\ CanMove(target, b, origin)
       /\ target' = Moved(target, b, origin)
  /\ UNCHANGED <<baseline, round, unrepaired, stage>>

-----------------------------------------------------------------------------
(* RoadTopologyOptimizer                                                   *)

\* The ways of n free cells from the building to the roads.
Ways(city, b, n) ==
  LET free == Point \ (Occupied(city, b) \union Cells(city, b))
  IN  {way \in [1 .. n -> free] :
         /\ way[1] \in Beside(Cells(city, b))
         /\ \A i \in 1 .. n - 1 : way[i + 1] \in Beside({way[i]})
         /\ Access(city.roads, {way[n]})}

\* _shortest_connector: of the shortest ones, any.
Connectors(city, b) ==
  UNION {{{way[i] : i \in 1 .. n} : way \in Ways(city, b, n)} :
           n \in {k \in 1 .. MaxConnector :
                    \A fewer \in 1 .. k - 1 : Ways(city, b, fewer) = {}}}

\* The roads are reworked, on a copy of the map.
ReworkRoads ==
  /\ stage = "buildings"
  /\ stage' = "repairing"
  /\ unrepaired' = Building
  /\ UNCHANGED <<baseline, target, round>>

\* One building of _repair_missing_access, in the order in which the map lists them;
\* where there is no way, it stays without.
RepairAccess ==
  /\ stage = "repairing"
  /\ \E b \in unrepaired :
       /\ \A o \in unrepaired : b <= o
       /\ unrepaired' = unrepaired \ {b}
       /\ IF Served(target, b) \/ Connectors(target, b) = {}
          THEN UNCHANGED target
          ELSE \E way \in Connectors(target, b) :
                 target' = [target EXCEPT !.roads = @ \union way]
  /\ UNCHANGED <<baseline, round, stage>>

Repaired ==
  /\ stage = "repairing"
  /\ unrepaired = {}
  /\ stage' = "roads"
  /\ UNCHANGED <<baseline, target, round, unrepaired>>

\* Mutant: that the roads stay connected is not looked at.
CanRemove_Splitting(city, p) ==
  /\ p \in city.roads
  /\ city.roads # {p}
  /\ \A b \in Building : Access(city.roads \ {p}, Cells(city, b))

\* _try_remove
CanRemove(city, p) ==
  /\ p \in city.roads
  /\ city.roads # {p}
  /\ Connected(city.roads \ {p})
  /\ \A b \in Building : Access(city.roads \ {p}, Cells(city, b))

RemoveRoad(p) ==
  /\ stage = "roads"
  /\ CanRemove(target, p)
  /\ target' = [target EXCEPT !.roads = @ \ {p}]
  /\ UNCHANGED <<baseline, round, unrepaired, stage>>

NextRound ==
  /\ stage = "roads"
  /\ round < MaxRounds
  /\ round' = round + 1
  /\ stage' = "buildings"
  /\ UNCHANGED <<baseline, target, unrepaired>>

SearchStep ==
  \/ \E b \in Building : Relocate(b)
  \/ \E p \in Point : RemoveRoad(p)
  \/ ReworkRoads \/ RepairAccess \/ Repaired \/ NextRound

\* Whence the search may end: after its last round, or one that brings too
\* little, the last rework being dropped or not.
Searched == stage \in {"buildings", "roads"}

-----------------------------------------------------------------------------
(* Properties                                                              *)

\* The layout proposed is a map CityMap accepts, its roads are connected if the
\* given ones were, and no building that had road access has lost it
\* (road_optimizer.py:150-159, optimizer.py:118-139; README.md:281-283).
TargetIsSound ==
  /\ Valid(target)
  /\ Connected(baseline.roads) => Connected(target.roads)
  /\ \A b \in Building : Served(baseline, b) => Served(target, b)

\* The inductive invariant: besides, only what may be moved is moved, it has road
\* access there, and no road is built on a blocked cell.
SearchInv ==
  /\ baseline \in Baselines
  /\ round \in 1 .. MaxRounds
  /\ unrepaired \subseteq Building
  /\ TargetIsSound
  /\ \A b \in Building : target.at[b] # baseline.at[b] => b \in Movable /\ Served(target, b)
  /\ target.roads \intersect Blocked \subseteq baseline.roads
=============================================================================
