------------------------ MODULE ConstructionSite_proofs ------------------------
(***************************************************************************)
(* Proofs about the layout pipeline, for any city, any layout that the     *)
(* search may find, and any player: the map proposed is sound, the plan    *)
(* can be built unless a building is to stand on a road, what is reported  *)
(* complete is the map proposed, and every undeclared change is noticed at *)
(* the next scan.                                                          *)
(*                                                                         *)
(* The invariant is SiteInv: of the search SearchInv, of the plan PlanInv  *)
(* and PlanRuns, of the work WorkInv.                                      *)
(***************************************************************************)
EXTENDS ConstructionSite, WellFoundedInduction, TLAPS

-----------------------------------------------------------------------------
(* Cells, roads and what stands beside what                                *)

LEMMA Last ==
  ASSUME NEW n \in Nat, NEW S \in SUBSET (1 .. n), S # {}
  PROVE  \E m \in S : \A k \in S : k <= m
<1>. DEFINE T == {k \in Nat : n - k \in S}
<1>1. IsWellFoundedOn(OpToRel(<, Nat), Nat)
  BY NatLessThanWellFounded
<1>2. PICK k0 \in S : TRUE
  OBVIOUS
<1>3. n - k0 \in T
  OBVIOUS
<1>4. PICK k \in T : \A y \in T : ~ (<<y, k>> \in OpToRel(<, Nat))
  <2>. HIDE DEF T
  <2>. QED BY <1>1, <1>3, WFMin, T \subseteq Nat DEF T
<1>5. \A y \in T : ~ (y < k)
  BY <1>4 DEF OpToRel
<1>6. n - k \in S
  OBVIOUS
<1>7. ASSUME NEW j \in S PROVE j <= n - k
  <2>1. n - j \in T
    OBVIOUS
  <2>2. ~ (n - j < k)
    BY <2>1, <1>5
  <2>3. j \in Nat /\ k \in Nat
    OBVIOUS
  <2>. QED BY <2>2, <2>3
<1>. QED BY <1>6, <1>7

LEMMA BesideEach ==
  ASSUME NEW S, NEW q
  PROVE  q \in Beside(S) <=> \E p \in S : q \in Beside({p})
  BY DEF Beside

LEMMA BesideBoth ==
  ASSUME NEW p \in Int \X Int, NEW q \in Int \X Int, q \in Beside({p})
  PROVE  p \in Beside({q})
<1>1. PICK a \in Int, b \in Int : p = <<a, b>>
  OBVIOUS
<1>2. PICK c \in Int, d \in Int : q = <<c, d>>
  OBVIOUS
<1>3. <<c, d>> \in {<<a - 1, b>>, <<a + 1, b>>, <<a, b - 1>>, <<a, b + 1>>}
  BY <1>1, <1>2 DEF Beside
<1>4. <<a, b>> \in {<<c - 1, d>>, <<c + 1, d>>, <<c, d - 1>>, <<c, d + 1>>}
  BY <1>3
<1>. QED BY <1>4, <1>1, <1>2 DEF Beside

LEMMA AccessBy ==
  ASSUME NEW R, NEW S
  PROVE  Access(R, S) <=> \E r \in R : r \in Beside(S)
  BY DEF Access

LEMMA AccessGrows ==
  ASSUME NEW R, NEW more, R \subseteq more, NEW S, Access(R, S)
  PROVE  Access(more, S)
  BY DEF Access

LEMMA PointsAreInt == Point \subseteq Int \X Int
  BY GridAssumption DEF Point

LEMMA MovedCells ==
  ASSUME NEW c \in City, NEW b \in Building, NEW p \in Point
  PROVE  /\ Moved(c, b, p) \in City
         /\ Moved(c, b, p).roads = c.roads
         /\ Moved(c, b, p).at[b] = p
         /\ Cells(Moved(c, b, p), b) = Footprint(b, p)
         /\ \A o \in Building \ {b} : /\ Moved(c, b, p).at[o] = c.at[o]
                                      /\ Cells(Moved(c, b, p), o) = Cells(c, o)
<1>1. c.at \in [Building -> Point]
  BY DEF City
<1>. QED BY <1>1 DEF Moved, Cells, City

\* Valid, for each building and each pair of them.
Spread(city) ==
  /\ city \in City
  /\ \A b \in Building :
       /\ Cells(city, b) \subseteq Point
       /\ Cells(city, b) \intersect city.roads = {}
       /\ Cells(city, b) \intersect Blocked = {}
       /\ \A o \in Building \ {b} : Cells(city, b) \intersect Cells(city, o) = {}

LEMMA ValidSpread ==
  ASSUME NEW c
  PROVE  Valid(c) <=> Spread(c)
<1>1. ASSUME Valid(c) PROVE Spread(c)
  BY <1>1 DEF Valid, Spread, Occupied
<1>2. ASSUME Spread(c) PROVE Valid(c)
  <2>. SUFFICES ASSUME NEW b \in Building, NEW p \in Cells(c, b), p \in Occupied(c, b)
                PROVE  FALSE
    BY <1>2 DEF Valid, Spread
  <2>. QED BY <1>2 DEF Spread, Occupied
<1>. QED BY <1>1, <1>2

LEMMA MoveKeepsValid ==
  ASSUME NEW c, Valid(c), NEW b \in Building, NEW p \in Point, CanPlace(c, b, p)
  PROVE  Valid(Moved(c, b, p))
<1>. DEFINE d == Moved(c, b, p)
<1>0. c \in City /\ Spread(c)
  BY ValidSpread DEF Spread
<1>1. /\ d \in City
      /\ d.roads = c.roads
      /\ Cells(d, b) = Footprint(b, p)
      /\ \A o \in Building \ {b} : Cells(d, o) = Cells(c, o)
  BY <1>0, MovedCells
<1>2. /\ Footprint(b, p) \subseteq Point
      /\ Footprint(b, p) \intersect c.roads = {}
      /\ Footprint(b, p) \intersect Blocked = {}
      /\ \A o \in Building \ {b} : Footprint(b, p) \intersect Cells(c, o) = {}
  BY DEF CanPlace, Occupied
<1>. HIDE DEF d
<1>3. Spread(d)
  BY <1>0, <1>1, <1>2 DEF Spread
<1>. QED BY <1>3, ValidSpread DEF d

LEMMA RoadsKeepValid ==
  ASSUME NEW c, Valid(c), NEW R \in SUBSET Point,
         \A b \in Building : Cells(c, b) \intersect R \subseteq c.roads
  PROVE  Valid([c EXCEPT !.roads = R])
<1>. DEFINE d == [c EXCEPT !.roads = R]
<1>0. c \in City /\ Spread(c)
  BY ValidSpread DEF Spread
<1>1. d \in City /\ d.roads = R /\ d.at = c.at
  BY <1>0 DEF City
<1>. HIDE DEF d
<1>2. \A b \in Building : Cells(d, b) = Cells(c, b)
  BY <1>1 DEF Cells
<1>3. Spread(d)
  BY <1>0, <1>1, <1>2 DEF Spread
<1>. QED BY <1>3, ValidSpread DEF d

-----------------------------------------------------------------------------
(* The search                                                              *)

\* A way of free cells to the roads: what _shortest_connector returns is one.
Way(roads, n, way) ==
  /\ n \in Nat \ {0}
  /\ way \in [1 .. n -> Point]
  /\ \A i \in 1 .. n - 1 : way[i + 1] \in Beside({way[i]})
  /\ Access(roads, {way[n]})

\* From the last cell of a way on which something still holds one comes to a cell, of
\* the way or of the roads, on which it no longer does.
LEMMA OnTheWay ==
  ASSUME NEW roads \in SUBSET Point, NEW n, NEW way, Way(roads, n, way),
         NEW S, NEW i0 \in 1 .. n, way[i0] \in S, \A q \in roads : q \notin S
  PROVE  \E i \in 1 .. n, q \in roads \union {way[j] : j \in 1 .. n} :
           way[i] \in S /\ q \notin S /\ q \in Beside({way[i]})
<1>0. n \in Nat \ {0} /\ way \in [1 .. n -> Point]
  BY DEF Way
<1>. DEFINE I == {i \in 1 .. n : way[i] \in S}
<1>1. PICK m \in I : \A k \in I : k <= m
  <2>1. i0 \in I /\ I \in SUBSET (1 .. n)
    OBVIOUS
  <2>. HIDE DEF I
  <2>. QED BY <2>1, <1>0, Last
<1>2. CASE m = n
  <2>1. PICK q \in roads : q \in Beside({way[n]})
    BY AccessBy DEF Way
  <2>. QED BY <1>0, <1>1, <1>2, <2>1
<1>3. CASE m # n
  <2>1. m \in 1 .. n - 1 /\ m + 1 \in 1 .. n
    BY <1>0, <1>1, <1>3
  <2>2. way[m + 1] \in Beside({way[m]})
    BY <2>1 DEF Way
  <2>3. way[m + 1] \notin S
    BY <2>1, <1>1
  <2>. QED BY <1>1, <2>1, <2>2, <2>3
<1>. QED BY <1>2, <1>3

\* A way to the roads leaves them connected (road_optimizer.py:110-148).
LEMMA WayConnects ==
  ASSUME NEW roads \in SUBSET Point, Connected(roads), NEW n, NEW way, Way(roads, n, way)
  PROVE  Connected(roads \union {way[i] : i \in 1 .. n})
<1>. DEFINE W == {way[i] : i \in 1 .. n}
            all == roads \union W
<1>0. W \subseteq Point /\ Point \subseteq Int \X Int
  BY PointsAreInt DEF Way
<1>. SUFFICES ASSUME NEW part \in (SUBSET all) \ {{}, all}
              PROVE  \E p \in part, q \in all \ part : q \in Beside({p})
  BY BesideEach DEF Connected
<1>1. CASE part \intersect roads = {}
  <2>1. PICK i0 \in 1 .. n : way[i0] \in part
    BY <1>1
  <2>2. PICK i \in 1 .. n, q \in all : way[i] \in part /\ q \notin part /\ q \in Beside({way[i]})
    <3>1. \E i \in 1 .. n, q \in roads \union {way[j] : j \in 1 .. n} :
            way[i] \in part /\ q \notin part /\ q \in Beside({way[i]})
      <4>1. \A q \in roads : q \notin part
        BY <1>1
      <4>. HIDE DEF all, W
      <4>. QED BY <2>1, <4>1, OnTheWay
    <3>. QED BY <3>1
  <2>. QED BY <2>2
<1>2. CASE roads \subseteq part
  <2>1. PICK i0 \in 1 .. n : way[i0] \notin part
    BY <1>2
  <2>. DEFINE S == all \ part
  <2>2. way[i0] \in S /\ \A q \in roads : q \notin S
    BY <1>2, <2>1
  <2>3. PICK i \in 1 .. n, q \in all : way[i] \in S /\ q \notin S /\ q \in Beside({way[i]})
    <3>1. \E i \in 1 .. n, q \in roads \union {way[j] : j \in 1 .. n} :
            way[i] \in S /\ q \notin S /\ q \in Beside({way[i]})
      <4>. HIDE DEF S, all, W
      <4>. QED BY <2>2, OnTheWay
    <3>. HIDE DEF S
    <3>. QED BY <3>1
  <2>4. way[i] \in Beside({q})
    BY <1>0, <2>3, BesideBoth
  <2>. QED BY <2>3, <2>4
<1>3. CASE part \intersect roads # {} /\ ~ (roads \subseteq part)
  <2>1. part \intersect roads \in (SUBSET roads) \ {{}, roads}
    BY <1>3
  <2>2. PICK q \in Beside(part \intersect roads) : q \in roads \ (part \intersect roads)
    BY <2>1 DEF Connected
  <2>3. PICK p \in part \intersect roads : q \in Beside({p})
    BY <2>2, BesideEach
  <2>. QED BY <2>2, <2>3
<1>. QED BY <1>1, <1>2, <1>3

LEMMA ConnectorIsWay ==
  ASSUME NEW city, NEW b \in Building, NEW cells \in Connectors(city, b)
  PROVE  \E n, way : /\ Way(city.roads, n, way)
                     /\ cells = {way[i] : i \in 1 .. n}
                     /\ cells \intersect (Occupied(city, b) \union Cells(city, b)) = {}
<1>1. PICK n \in 1 .. MaxConnector :
        cells \in {{way[i] : i \in 1 .. n} : way \in Ways(city, b, n)}
  BY DEF Connectors
<1>2. PICK way \in Ways(city, b, n) : cells = {way[i] : i \in 1 .. n}
  BY <1>1
<1>3. n \in Nat \ {0}
  BY SearchAssumption
<1>4. Way(city.roads, n, way)
  BY <1>2, <1>3 DEF Ways, Way
<1>5. \A i \in 1 .. n : way[i] \notin Occupied(city, b) \union Cells(city, b)
  BY <1>2, <1>3 DEF Ways
<1>. QED BY <1>2, <1>4, <1>5

LEMMA ServedWhere ==
  ASSUME NEW c, NEW d, NEW b \in Building, c.at[b] = d.at[b], c.roads \subseteq d.roads,
         Served(c, b)
  PROVE  Served(d, b)
  BY DEF Served, Cells, Access

\* A building moved has road access, and takes none from another (optimizer.py:118-139).
LEMMA RelocateKeeps ==
  ASSUME SearchInv, NEW b \in Building, Relocate(b)
  PROVE  SearchInv'
<1>0. /\ Valid(target) /\ target \in City
      /\ UNCHANGED <<baseline, round, unrepaired, stage>>
  BY DEF SearchInv, TargetIsSound, Relocate, Valid
<1>1. PICK origin \in Point : /\ b \in Movable /\ CanPlace(target, b, origin)
                              /\ target' = Moved(target, b, origin)
  BY DEF Relocate, CanMove
<1>2. Valid(target')
  BY <1>0, <1>1, MoveKeepsValid
<1>3. /\ target'.roads = target.roads
      /\ target'.at[b] = origin
      /\ \A o \in Building \ {b} : target'.at[o] = target.at[o]
  BY <1>0, <1>1, MovedCells
<1>4. Served(target', b)
  BY <1>1, <1>3 DEF Served, CanPlace, Cells
<1>5. ASSUME NEW o \in Building, Served(target, o) PROVE Served(target', o)
  BY <1>3, <1>4, <1>5, ServedWhere
<1>6. TargetIsSound'
  BY <1>0, <1>2, <1>3, <1>5 DEF SearchInv, TargetIsSound, Served, Cells
<1>. QED BY <1>0, <1>1, <1>3, <1>4, <1>5, <1>6 DEF SearchInv, Served, Cells

\* More roads, or fewer, but not where something stands.
LEMMA NewRoads ==
  ASSUME SearchInv, NEW R \in SUBSET Point,
         \A b \in Building : Cells(target, b) \intersect R \subseteq target.roads,
         Connected(target.roads) => Connected(R),
         \A b \in Building : Served(target, b) => Access(R, Cells(target, b)),
         R \intersect Blocked \subseteq target.roads,
         target' = [target EXCEPT !.roads = R], UNCHANGED <<baseline, round>>,
         unrepaired' \subseteq Building
  PROVE  SearchInv'
<1>0. Valid(target) /\ target \in City
  BY DEF SearchInv, TargetIsSound, Valid
<1>1. Valid(target')
  BY <1>0, RoadsKeepValid
<1>2. target'.roads = R /\ target'.at = target.at
  BY <1>0 DEF City
<1>3. ASSUME NEW o \in Building, Served(target, o) PROVE Served(target', o)
  BY <1>2, <1>3 DEF Served, Cells
<1>4. TargetIsSound'
  BY <1>1, <1>2, <1>3 DEF SearchInv, TargetIsSound, Served, Cells
<1>5. ASSUME NEW o \in Building, target'.at[o] # baseline'.at[o]
      PROVE  o \in Movable /\ Served(target', o)
  BY <1>2, <1>3, <1>5 DEF SearchInv
<1>6. target'.roads \intersect Blocked \subseteq baseline'.roads
  BY <1>2 DEF SearchInv
<1>. QED BY <1>4, <1>5, <1>6 DEF SearchInv, Served, Cells

\* Where a road is led to a building no other stands, and the roads stay connected
\* (road_optimizer.py:96-148).
LEMMA RepairKeeps ==
  ASSUME SearchInv, RepairAccess
  PROVE  SearchInv'
<1>0. Valid(target) /\ target \in City /\ Spread(target)
  BY ValidSpread DEF SearchInv, TargetIsSound, Valid
<1>1. PICK b \in unrepaired :
        /\ unrepaired' = unrepaired \ {b}
        /\ IF Served(target, b) \/ Connectors(target, b) = {}
           THEN UNCHANGED target
           ELSE \E way \in Connectors(target, b) :
                  target' = [target EXCEPT !.roads = @ \union way]
  BY DEF RepairAccess
<1>2. b \in Building /\ unrepaired' \subseteq Building /\ UNCHANGED <<baseline, round, stage>>
  BY <1>1 DEF SearchInv, RepairAccess
<1>3. CASE UNCHANGED target
  BY <1>2, <1>3 DEF SearchInv, TargetIsSound, Served, Cells
<1>4. CASE ~ (UNCHANGED target)
  <2>1. PICK cells \in Connectors(target, b) :
          target' = [target EXCEPT !.roads = target.roads \union cells]
    BY <1>1, <1>4
  <2>2. PICK n, way : /\ Way(target.roads, n, way)
                      /\ cells = {way[i] : i \in 1 .. n}
                      /\ cells \intersect (Occupied(target, b) \union Cells(target, b)) = {}
    BY <1>2, ConnectorIsWay
  <2>. DEFINE R == target.roads \union cells
  <2>3. target.roads \in SUBSET Point /\ R \in SUBSET Point
    BY <1>0, <2>2 DEF Way, City
  <2>4. Connected(target.roads) => Connected(R)
    BY <2>2, <2>3, WayConnects
  <2>5. \A o \in Building : Cells(target, o) \intersect R \subseteq target.roads
    BY <2>2 DEF Occupied
  <2>6. R \intersect Blocked \subseteq target.roads
    BY <2>2 DEF Occupied
  <2>7. \A o \in Building : Served(target, o) => Access(R, Cells(target, o))
    BY DEF Served, Access
  <2>8. target' = [target EXCEPT !.roads = R]
    BY <2>1
  <2>. HIDE DEF R
  <2>. QED BY <1>2, <2>3, <2>4, <2>5, <2>6, <2>7, <2>8, NewRoads
<1>. QED BY <1>3, <1>4

\* A road is only removed if all have access without it (road_optimizer.py:150-159).
LEMMA RemoveKeeps ==
  ASSUME SearchInv, NEW p, RemoveRoad(p)
  PROVE  SearchInv'
<1>0. Valid(target) /\ target \in City
  BY DEF SearchInv, TargetIsSound, Valid
<1>. DEFINE R == target.roads \ {p}
<1>1. R \in SUBSET Point
  BY <1>0 DEF City
<1>2. /\ Connected(R)
      /\ \A b \in Building : Access(R, Cells(target, b))
      /\ target' = [target EXCEPT !.roads = R]
      /\ UNCHANGED <<baseline, round>>
      /\ unrepaired' \subseteq Building
  BY DEF RemoveRoad, CanRemove, SearchInv
<1>3. R \intersect Blocked \subseteq target.roads
      /\ \A b \in Building : Cells(target, b) \intersect R \subseteq target.roads
  OBVIOUS
<1>. HIDE DEF R
<1>. QED BY <1>1, <1>2, <1>3, NewRoads

LEMMA SearchStart == Init => SearchInv
<1>. SUFFICES ASSUME Init PROVE SearchInv
  OBVIOUS
<1>1. Valid(baseline)
  BY SearchAssumption DEF Init, SearchInit
<1>. QED BY <1>1, SearchAssumption DEF Init, SearchInit, SearchInv, TargetIsSound

LEMMA SearchStays ==
  ASSUME SearchInv, UNCHANGED <<baseline, target, round, unrepaired>>
  PROVE  SearchInv'
  BY DEF SearchInv, TargetIsSound, Served, Cells

LEMMA SearchKeeps ==
  ASSUME SearchInv, SearchStep
  PROVE  SearchInv'
<1>1. CASE \E b \in Building : Relocate(b)
  BY <1>1, RelocateKeeps
<1>2. CASE \E p \in Point : RemoveRoad(p)
  BY <1>2, RemoveKeeps
<1>3. CASE RepairAccess
  BY <1>3, RepairKeeps
<1>4. CASE ReworkRoads
  BY <1>4 DEF ReworkRoads, SearchInv, TargetIsSound, Served, Cells
<1>5. CASE Repaired
  BY <1>5, SearchStays DEF Repaired
<1>6. CASE NextRound
  <2>1. round' \in 1 .. MaxRounds
    BY <1>6, SearchAssumption DEF NextRound, SearchInv
  <2>. QED BY <1>6, <2>1 DEF NextRound, SearchInv, TargetIsSound, Served, Cells
<1>. QED BY <1>1, <1>2, <1>3, <1>4, <1>5, <1>6 DEF SearchStep

\* From then on the map proposed is not touched.
LEMMA SearchOver ==
  ASSUME SearchInv, Plan \/ Run \/ PlayerChanges \/ Finished \/ UNCHANGED vars
  PROVE  SearchInv'
<1>1. UNCHANGED <<baseline, target, round, unrepaired>>
  BY DEF Plan, StartPlan, PlanStep, Order, Ordered, GoNow, PutAside, LoopEnds, Follow, Resolved,
         Run, PlayerChanges, Finished, vars, searchVars
<1>. QED BY <1>1, SearchStays

THEOREM SearchInvariant == Spec => []SearchInv
<1>1. SearchInv /\ [Next]_vars => SearchInv'
  BY SearchKeeps, SearchOver DEF Next
<1>. QED BY SearchStart, <1>1, PTL DEF Spec

\* The map proposed is one that CityMap accepts, its roads as connected as they were, and
\* no building has lost its road access (road_optimizer.py:150-159, optimizer.py:118-139).
THEOREM SoundTarget == Spec => []TargetIsSound
<1>1. SearchInv => TargetIsSound
  BY DEF SearchInv
<1>. QED BY SearchInvariant, <1>1, PTL

-----------------------------------------------------------------------------
(* The names of the steps                                                  *)

LEMMA MoveNames ==
  \A b, o : /\ MoveOf(b) = MoveOf(o) <=> b = o
           /\ Staging(b) = Staging(o) <=> b = o
           /\ MoveOf(b) # Staging(o)
           /\ MoveOf(b)[2] = b /\ Staging(b)[2] = b
           /\ IsMove(MoveOf(b)) /\ IsMove(Staging(b))
  BY DEF MoveOf, Staging, IsMove

LEMMA OtherNames ==
  /\ \A b, p : /\ MoveOf(b) # RoadNew(p) /\ MoveOf(b) # RoadGone(p)
               /\ Staging(b) # RoadNew(p) /\ Staging(b) # RoadGone(p)
  /\ \A p, q : RoadNew(p) # RoadGone(q)
  BY DEF MoveOf, Staging, RoadNew, RoadGone

LEMMA RoadNames ==
  \A p, q \in Point :
    /\ RoadNew(p) = RoadNew(q) <=> p = q
    /\ RoadGone(p) = RoadGone(q) <=> p = q
    /\ ~ IsMove(RoadNew(p)) /\ IsBuild(RoadNew(p))
    /\ ~ IsMove(RoadGone(p)) /\ ~ IsBuild(RoadGone(p))
    /\ <<RoadNew(p)[2], RoadNew(p)[3]>> = p /\ <<RoadGone(p)[2], RoadGone(p)[3]>> = p
<1>1. ASSUME NEW p \in Point
      PROVE  /\ <<RoadNew(p)[2], RoadNew(p)[3]>> = p /\ <<RoadGone(p)[2], RoadGone(p)[3]>> = p
             /\ ~ IsMove(RoadNew(p)) /\ IsBuild(RoadNew(p))
             /\ ~ IsMove(RoadGone(p)) /\ ~ IsBuild(RoadGone(p))
  <2>1. PICK x \in Int, y \in Int : p = <<x, y>>
    BY PointsAreInt
  <2>. QED BY <2>1 DEF RoadNew, RoadGone, IsMove, IsBuild
<1>2. ASSUME NEW p \in Point, NEW q \in Point
      PROVE  /\ RoadNew(p) = RoadNew(q) <=> p = q
             /\ RoadGone(p) = RoadGone(q) <=> p = q
  BY <1>1
<1>. QED BY <1>1, <1>2

LEMMA StepKinds ==
  ASSUME target \in City, baseline \in City
  PROVE  /\ \A s \in Moves : s[2] \in MovedOnes /\ s = MoveOf(s[2]) /\ IsMove(s)
         /\ \A s \in Builds : /\ ~ IsMove(s) /\ IsBuild(s)
                              /\ <<s[2], s[3]>> \in target.roads \ baseline.roads
                              /\ s = RoadNew(<<s[2], s[3]>>)
         /\ \A s \in Removes : /\ ~ IsMove(s) /\ ~ IsBuild(s)
                               /\ <<s[2], s[3]>> \in baseline.roads \ target.roads
                               /\ s = RoadGone(<<s[2], s[3]>>)
         /\ \A b : MoveOf(b) \in Named <=> b \in MovedOnes
         /\ \A b : MoveOf(b) \in Steps <=> b \in MovedOnes
         /\ \A b : Staging(b) \in Named <=> b \in MovedOnes
         /\ \A b : Staging(b) \notin Steps
         /\ \A p \in Point : RoadNew(p) \in Named <=> p \in target.roads \ baseline.roads
         /\ \A p \in Point : RoadGone(p) \in Named <=> p \in baseline.roads \ target.roads
         /\ \A s \in Named \ Steps : s[2] \in MovedOnes /\ s = Staging(s[2]) /\ IsMove(s)
<1>1. target.roads \subseteq Point /\ baseline.roads \subseteq Point
  BY DEF City
<1>2. \A s \in Moves : s[2] \in MovedOnes /\ s = MoveOf(s[2]) /\ IsMove(s)
  BY DEF Moves, MoveOf, IsMove
<1>3. ASSUME NEW s \in Builds
      PROVE  /\ ~ IsMove(s) /\ IsBuild(s)
             /\ <<s[2], s[3]>> \in target.roads \ baseline.roads
             /\ s = RoadNew(<<s[2], s[3]>>)
  <2>1. PICK p \in target.roads \ baseline.roads : s = RoadNew(p)
    BY DEF Builds
  <2>. QED BY <1>1, <2>1, RoadNames
<1>4. ASSUME NEW s \in Removes
      PROVE  /\ ~ IsMove(s) /\ ~ IsBuild(s)
             /\ <<s[2], s[3]>> \in baseline.roads \ target.roads
             /\ s = RoadGone(<<s[2], s[3]>>)
  <2>1. PICK p \in baseline.roads \ target.roads : s = RoadGone(p)
    BY DEF Removes
  <2>. QED BY <1>1, <2>1, RoadNames
<1>5. ASSUME NEW b
      PROVE  /\ MoveOf(b) \in Named <=> b \in MovedOnes
             /\ MoveOf(b) \in Steps <=> b \in MovedOnes
             /\ Staging(b) \in Named <=> b \in MovedOnes
             /\ Staging(b) \notin Steps
  <2>1. MoveOf(b) \in Moves <=> b \in MovedOnes
    BY DEF Moves, MoveOf
  <2>2. MoveOf(b) \notin Builds \union Removes /\ Staging(b) \notin Builds \union Removes
    BY <1>1, OtherNames DEF Builds, Removes
  <2>3. Staging(b) \notin Moves /\ MoveOf(b) \notin {Staging(o) : o \in MovedOnes}
    BY DEF Moves, MoveOf, Staging
  <2>4. Staging(b) \in {Staging(o) : o \in MovedOnes} <=> b \in MovedOnes
    BY DEF Staging
  <2>. QED BY <2>1, <2>2, <2>3, <2>4 DEF Named, Steps
<1>6. ASSUME NEW p \in Point
      PROVE  /\ RoadNew(p) \in Named <=> p \in target.roads \ baseline.roads
             /\ RoadGone(p) \in Named <=> p \in baseline.roads \ target.roads
  <2>1. RoadNew(p) \in Builds <=> p \in target.roads \ baseline.roads
    BY <1>1, RoadNames DEF Builds
  <2>2. RoadGone(p) \in Removes <=> p \in baseline.roads \ target.roads
    BY <1>1, RoadNames DEF Removes
  <2>3. RoadNew(p) \notin Removes /\ RoadGone(p) \notin Builds
    BY <1>1, OtherNames DEF Builds, Removes
  <2>4. \A b : /\ RoadNew(p) # MoveOf(b) /\ RoadNew(p) # Staging(b)
               /\ RoadGone(p) # MoveOf(b) /\ RoadGone(p) # Staging(b)
    BY OtherNames
  <2>. QED BY <2>1, <2>2, <2>3, <2>4 DEF Named, Steps, Moves
<1>7. \A s \in Named \ Steps : s[2] \in MovedOnes /\ s = Staging(s[2]) /\ IsMove(s)
  BY DEF Named, Staging, IsMove
<1>. QED BY <1>2, <1>3, <1>4, <1>5, <1>6, <1>7

LEMMA MapsAreCities ==
  ASSUME SearchInv
  PROVE  /\ target \in City /\ Valid(target) /\ Spread(target)
         /\ baseline \in City /\ Valid(baseline) /\ Spread(baseline)
  BY ValidSpread, SearchAssumption DEF SearchInv, TargetIsSound, Valid

LEMMA AppliedCases ==
  ASSUME NEW c, NEW step
  PROVE  /\ IsMove(step.id) => Applied(c, step) = Moved(c, step.id[2], step.to)
         /\ ~ IsMove(step.id) /\ IsBuild(step.id) =>
              Applied(c, step) = [c EXCEPT !.roads = @ \union {step.to}]
         /\ ~ IsMove(step.id) /\ ~ IsBuild(step.id) =>
              Applied(c, step) = [c EXCEPT !.roads = @ \ {step.to}]
<1>. DEFINE mv == step.id[1] \in {0, 1}
            bd == step.id[1] = 2
<1>1. Applied(c, step) =
        CASE mv -> Moved(c, step.id[2], step.to)
          [] bd -> [c EXCEPT !.roads = @ \union {step.to}]
          [] OTHER -> [c EXCEPT !.roads = @ \ {step.to}]
  BY DEF Applied, IsMove, IsBuild
<1>2. mv => ~ bd
  OBVIOUS
<1>3. (IsMove(step.id) <=> mv) /\ (IsBuild(step.id) <=> bd)
  BY DEF IsMove, IsBuild
<1>. HIDE DEF mv, bd
<1>. QED BY <1>1, <1>2, <1>3

LEMMA ApplicableCases ==
  ASSUME NEW c, NEW step
  PROVE  /\ IsMove(step.id) =>
              (Applicable(c, step) <=> c.at[step.id[2]] = step.from /\ CanMove(c, step.id[2], step.to))
         /\ ~ IsMove(step.id) /\ IsBuild(step.id) =>
              (Applicable(c, step) <=> step.to \in Point \ Occupied(c, -1))
         /\ ~ IsMove(step.id) /\ ~ IsBuild(step.id) => (Applicable(c, step) <=> step.to \in c.roads)
<1>. DEFINE mv == step.id[1] \in {0, 1}
            bd == step.id[1] = 2
<1>1. Applicable(c, step) <=>
        CASE mv -> c.at[step.id[2]] = step.from /\ CanMove(c, step.id[2], step.to)
          [] bd -> step.to \in Point \ Occupied(c, -1)
          [] OTHER -> step.to \in c.roads
  BY DEF Applicable, IsMove, IsBuild
<1>2. mv => ~ bd
  OBVIOUS
<1>3. (IsMove(step.id) <=> mv) /\ (IsBuild(step.id) <=> bd)
  BY DEF IsMove, IsBuild
<1>. HIDE DEF mv, bd
<1>. QED BY <1>1, <1>2, <1>3

\* What the executor can do, the replay can (staging.py:243-266, execution.py:203-236).
LEMMA ExecutesReplays == Executes => Replays
<1>. SUFFICES ASSUME Executes, NEW i \in DOMAIN plan PROVE Replayable(drafts[i], plan[i])
  BY DEF Replays
<1>1. Applicable(drafts[i], plan[i])
  BY DEF Executes
<1>2. ASSUME ~ IsMove(plan[i].id), IsBuild(plan[i].id)
      PROVE  plan[i].to \in Point \ UNION {Cells(drafts[i], b) : b \in Building}
  <2>1. plan[i].to \in Point \ Occupied(drafts[i], -1)
    BY <1>1, <1>2, ApplicableCases
  <2>2. \A b \in Building : plan[i].to \notin Cells(drafts[i], b)
    BY <2>1, GridAssumption DEF Occupied
  <2>. QED BY <2>1, <2>2
<1>3. IsBuild(plan[i].id) => ~ IsMove(plan[i].id)
  BY DEF IsBuild, IsMove
<1>. QED BY <1>1, <1>2, <1>3 DEF Replayable

\* What a step that can be applied makes of a map is a map (map_model.py:231-284).
LEMMA AppliedIsValid ==
  ASSUME NEW c, Valid(c), NEW step, step.to \in Point, IsMove(step.id) => step.id[2] \in Building,
         Applicable(c, step)
  PROVE  Valid(Applied(c, step))
<1>0. c \in City
  BY DEF Valid
<1>1. CASE IsMove(step.id)
  <2>1. Applied(c, step) = Moved(c, step.id[2], step.to) /\ step.id[2] \in Building
    BY <1>1, AppliedCases
  <2>2. CanPlace(c, step.id[2], step.to)
    BY <1>1, ApplicableCases DEF CanMove
  <2>. QED BY <2>1, <2>2, MoveKeepsValid
<1>2. CASE ~ IsMove(step.id) /\ IsBuild(step.id)
  <2>. DEFINE R == c.roads \union {step.to}
  <2>1. step.to \notin Occupied(c, -1)
    BY <1>2, ApplicableCases
  <2>2. \A b \in Building : step.to \notin Cells(c, b)
    BY <2>1, GridAssumption DEF Occupied
  <2>3. R \in SUBSET Point /\ \A b \in Building : Cells(c, b) \intersect R \subseteq c.roads
    BY <1>0, <2>2 DEF City
  <2>4. Applied(c, step) = [c EXCEPT !.roads = R]
    BY <1>2, AppliedCases
  <2>. HIDE DEF R
  <2>. QED BY <2>3, <2>4, RoadsKeepValid
<1>3. CASE ~ IsMove(step.id) /\ ~ IsBuild(step.id)
  <2>. DEFINE R == c.roads \ {step.to}
  <2>3. R \in SUBSET Point /\ \A b \in Building : Cells(c, b) \intersect R \subseteq c.roads
    BY <1>0 DEF City
  <2>4. Applied(c, step) = [c EXCEPT !.roads = R]
    BY <1>3, AppliedCases
  <2>. HIDE DEF R
  <2>. QED BY <2>3, <2>4, RoadsKeepValid
<1>. QED BY <1>1, <1>2, <1>3

LEMMA AppliedFields ==
  ASSUME NEW c \in City, NEW step, step.to \in Point
  PROVE  /\ Applied(c, step) \in City
         /\ IsMove(step.id) => /\ Applied(c, step).roads = c.roads
                               /\ step.id[2] \in Building =>
                                    Applied(c, step).at[step.id[2]] = step.to
                               /\ \A o \in Building \ {step.id[2]} :
                                    Applied(c, step).at[o] = c.at[o]
         /\ ~ IsMove(step.id) => Applied(c, step).at = c.at
         /\ ~ IsMove(step.id) /\ IsBuild(step.id) =>
              Applied(c, step).roads = c.roads \union {step.to}
         /\ ~ IsMove(step.id) /\ ~ IsBuild(step.id) =>
              Applied(c, step).roads = c.roads \ {step.to}
<1>1. CASE IsMove(step.id)
  <2>. DEFINE b == step.id[2]
  <2>1. Applied(c, step) = Moved(c, b, step.to)
    BY <1>1, AppliedCases
  <2>2. c.at \in [Building -> Point]
    BY DEF City
  <2>3. /\ Moved(c, b, step.to).roads = c.roads
        /\ Moved(c, b, step.to).at = [c.at EXCEPT ![b] = step.to]
        /\ Moved(c, b, step.to) \in City
    BY <2>2 DEF Moved, City
  <2>. HIDE DEF b
  <2>4. /\ b \in Building => Moved(c, b, step.to).at[b] = step.to
        /\ \A o \in Building \ {b} : Moved(c, b, step.to).at[o] = c.at[o]
    BY <2>2, <2>3
  <2>. QED BY <1>1, <2>1, <2>3, <2>4 DEF b
<1>2. CASE ~ IsMove(step.id) /\ IsBuild(step.id)
  BY <1>2, AppliedCases DEF City
<1>3. CASE ~ IsMove(step.id) /\ ~ IsBuild(step.id)
  BY <1>3, AppliedCases DEF City
<1>. QED BY <1>1, <1>2, <1>3

-----------------------------------------------------------------------------
(* The plan                                                                *)

LEMMA DependsCases ==
  ASSUME SearchInv, NEW s
  PROVE  /\ s \in Moves =>
              DependsOn(s) = (Standing(Cells(target, s[2])) \ {s})
                               \union {t \in Builds : <<t[2], t[3]>> \in Beside(Cells(target, s[2]))}
         /\ s \in Builds => DependsOn(s) = Standing({<<s[2], s[3]>>})
         /\ s \in Removes => DependsOn(s) = Moves \union Builds
         /\ s \in Steps => DependsOn(s) \subseteq Moves \union Builds
<1>. DEFINE mv == s \in Moves
            bd == s \in Builds
            rm == s \in Removes
            dm == (Standing(Cells(target, s[2])) \ {s})
                    \union {t \in Builds : <<t[2], t[3]>> \in Beside(Cells(target, s[2]))}
            db == Standing({<<s[2], s[3]>>})
            dr == Moves \union Builds
<1>1. DependsOn(s) = CASE mv -> dm [] bd -> db [] rm -> dr
  BY DEF DependsOn
<1>2. mv => ~ bd /\ ~ rm
  BY MapsAreCities, StepKinds
<1>3. bd => ~ rm
  BY MapsAreCities, StepKinds
<1>4. dm \subseteq Moves \union Builds /\ db \subseteq Moves /\ (s \in Steps <=> mv \/ bd \/ rm)
  BY DEF Standing, Moves, Steps
<1>5. dr = Moves \union Builds
  OBVIOUS
<1>. HIDE DEF mv, bd, rm, dm, db, dr
<1>6. /\ mv => DependsOn(s) = dm
      /\ bd => DependsOn(s) = db
      /\ rm => DependsOn(s) = dr
  BY <1>1, <1>2, <1>3
<1>7. s \in Steps => DependsOn(s) \subseteq Moves \union Builds
  BY <1>4, <1>5, <1>6
<1>. QED BY <1>6, <1>7 DEF mv, bd, rm, dm, db, dr

LEMMA OriginalFields ==
  ASSUME SearchInv, NEW s \in Steps
  PROVE  /\ Original(s).id = s /\ Original(s).after = DependsOn(s)
         /\ Original(s) \in [id : Named, from : Point, to : Point, after : SUBSET Named]
         /\ s \in Moves => /\ Original(s).from = baseline.at[s[2]]
                           /\ Original(s).to = target.at[s[2]]
         /\ s \in Builds \union Removes => Original(s).to = <<s[2], s[3]>>
<1>0. /\ target \in City /\ baseline \in City
      /\ MovedOnes \subseteq Building
      /\ s \in Named /\ DependsOn(s) \in SUBSET Named
  BY MapsAreCities, DependsCases DEF MovedOnes, Named, Steps
<1>1. CASE s \in Moves
  <2>1. s[2] \in Building /\ IsMove(s)
    BY <1>0, <1>1, StepKinds
  <2>2. baseline.at[s[2]] \in Point /\ target.at[s[2]] \in Point
    BY <1>0, <2>1 DEF City
  <2>3. Original(s) = Step(s, baseline.at[s[2]], target.at[s[2]], DependsOn(s))
    BY <2>1 DEF Original
  <2>4. s \notin Builds \union Removes
    BY <1>0, <2>1, StepKinds
  <2>. QED BY <1>0, <2>2, <2>3, <2>4 DEF Step
<1>2. CASE s \in Builds \union Removes
  <2>1. ~ IsMove(s) /\ <<s[2], s[3]>> \in Point
    BY <1>0, <1>2, StepKinds DEF City
  <2>2. Original(s) = Step(s, <<s[2], s[3]>>, <<s[2], s[3]>>, DependsOn(s))
    BY <2>1 DEF Original
  <2>3. s \notin Moves
    BY <1>0, <2>1, StepKinds
  <2>. QED BY <1>0, <2>1, <2>2, <2>3 DEF Step
<1>. QED BY <1>1, <1>2 DEF Steps

\* Nothing that there is to do changes while it is planned or done.
LEMMA NothingNew ==
  ASSUME UNCHANGED <<baseline, target>>
  PROVE  /\ MovedOnes' = MovedOnes /\ Moves' = Moves /\ Builds' = Builds /\ Removes' = Removes
         /\ Steps' = Steps /\ Named' = Named /\ ReusesRoad' = ReusesRoad
         /\ \A s : DependsOn(s)' = DependsOn(s)
<1>1. MovedOnes' = MovedOnes /\ Builds' = Builds /\ Removes' = Removes
  BY DEF MovedOnes, Builds, Removes
<1>2. Moves' = Moves
  BY <1>1 DEF Moves
<1>3. Steps' = Steps /\ Named' = Named
  BY <1>1, <1>2 DEF Steps, Named
<1>4. ASSUME NEW s PROVE DependsOn(s)' = DependsOn(s)
  BY <1>1, <1>2 DEF DependsOn, Standing, Cells
<1>5. ReusesRoad' = ReusesRoad
  BY DEF ReusesRoad, Cells
<1>. QED BY <1>1, <1>2, <1>3, <1>4, <1>5

LEMMA PlanStays ==
  ASSUME UNCHANGED <<baseline, target, plan, drafts>>
  PROVE  /\ Planned' = Planned /\ Unresolved' = Unresolved /\ Pending' = Pending /\ Now' = Now
         /\ Executes' = Executes /\ StepsInOrder' = StepsInOrder /\ DraftsFollow' = DraftsFollow
         /\ Named' = Named /\ Steps' = Steps /\ \A i : Before(i)' = Before(i)
<1>1. Planned' = Planned /\ Now' = Now /\ \A i : Before(i)' = Before(i)
  BY DEF Planned, Now, Before
<1>2. Unresolved' = Unresolved /\ Pending' = Pending
  BY <1>1, NothingNew DEF Unresolved, Pending
<1>3. Executes' = Executes
  BY DEF Executes
<1>4. StepsInOrder' = StepsInOrder
  BY <1>1, NothingNew DEF StepsInOrder
<1>5. DraftsFollow' = DraftsFollow
  BY <1>1 DEF DraftsFollow
<1>. QED BY <1>1, <1>2, <1>3, <1>4, <1>5, NothingNew

LEMMA BeforeEnd ==
  ASSUME PlanInv
  PROVE  /\ Before(Len(plan) + 1) = Planned
         /\ Len(drafts) = Len(plan) + 1 /\ Now = drafts[Len(plan) + 1] /\ Now \in City
         /\ Planned \subseteq Named
<1>1. /\ plan \in Seq([id : Named, from : Point, to : Point, after : SUBSET Named])
      /\ drafts \in Seq(City)
      /\ Len(drafts) = Len(plan) + 1
  BY DEF PlanInv
<1>2. DOMAIN plan = 1 .. Len(plan) /\ Len(plan) \in Nat
  BY <1>1
<1>3. 1 .. (Len(plan) + 1) - 1 = DOMAIN plan
  BY <1>2
<1>4. Before(Len(plan) + 1) = Planned
  BY <1>3 DEF Before, Planned
<1>5. Now = drafts[Len(plan) + 1] /\ Now \in City
  BY <1>1, <1>2 DEF Now
<1>6. \A i \in DOMAIN plan : plan[i].id \in Named
  <2>. DEFINE Each == [id : Named, from : Point, to : Point, after : SUBSET Named]
  <2>1. \A t \in Each : t.id \in Named
    OBVIOUS
  <2>2. plan \in Seq(Each)
    BY <1>1
  <2>. HIDE DEF Each
  <2>3. \A i \in DOMAIN plan : plan[i] \in Each
    BY <2>2
  <2>. QED BY <2>1, <2>3
<1>. QED BY <1>1, <1>4, <1>5, <1>6 DEF Planned

\* What may be said of a step that is added to the plan.
InTurn(step) ==
  /\ step \in [id : Named, from : Point, to : Point, after : SUBSET Named]
  /\ step.after \subseteq Planned
  /\ step.id \in Steps => step.id \notin Planned
  /\ step.id \notin Steps => MoveOf(step.id[2]) \notin Planned
  /\ step.id \in Moves => step.to = target.at[step.id[2]]
  /\ step.id \in Builds \union Removes => step.to = <<step.id[2], step.id[3]>>
  /\ step.id \in Removes => step.after = Moves \union Builds

\* The draft that a further step makes is as its name says.
LEMMA DraftFollows ==
  ASSUME SearchInv, PlanInv, NEW step, InTurn(step)
  PROVE  LET next == Applied(Now, step)
             names == Planned \union {step.id} IN
         /\ next.roads = (baseline.roads \union {p \in Point : RoadNew(p) \in names})
                           \ {p \in Point : RoadGone(p) \in names}
         /\ \A b \in Building :
              /\ MoveOf(b) \in names => next.at[b] = target.at[b]
              /\ MoveOf(b) \notin names /\ Staging(b) \notin names => next.at[b] = baseline.at[b]
<1>. DEFINE s == step.id
            next == Applied(Now, step)
            names == Planned \union {s}
<1>. SUFFICES
       /\ next.roads = (baseline.roads \union {p \in Point : RoadNew(p) \in names})
                         \ {p \in Point : RoadGone(p) \in names}
       /\ \A b \in Building :
            /\ MoveOf(b) \in names => next.at[b] = target.at[b]
            /\ MoveOf(b) \notin names /\ Staging(b) \notin names => next.at[b] = baseline.at[b]
  OBVIOUS
<1>0. /\ target \in City /\ baseline \in City /\ Now \in City
      /\ s \in Named /\ step.to \in Point
      /\ MovedOnes \subseteq Building
  BY MapsAreCities, BeforeEnd DEF InTurn, MovedOnes
<1>1. /\ Now.roads = (baseline.roads \union {p \in Point : RoadNew(p) \in Planned})
                        \ {p \in Point : RoadGone(p) \in Planned}
      /\ \A b \in Building :
           /\ MoveOf(b) \in Planned => Now.at[b] = target.at[b]
           /\ MoveOf(b) \notin Planned /\ Staging(b) \notin Planned => Now.at[b] = baseline.at[b]
  <2>1. Len(plan) + 1 \in DOMAIN drafts
    BY DEF PlanInv
  <2>. QED BY <2>1, BeforeEnd DEF PlanInv, DraftsFollow
<1>2. CASE s \in Moves
  <2>1. s[2] \in Building /\ s = MoveOf(s[2]) /\ IsMove(s) /\ step.to = target.at[s[2]]
    BY <1>0, <1>2, StepKinds DEF InTurn
  <2>2. /\ next.roads = Now.roads
        /\ next.at[s[2]] = target.at[s[2]]
        /\ \A o \in Building \ {s[2]} : next.at[o] = Now.at[o]
    BY <1>0, <2>1, AppliedFields
  <2>3. /\ \A p \in Point : RoadNew(p) # s /\ RoadGone(p) # s
        /\ \A o : o # s[2] => MoveOf(o) # s
    <3>. HIDE DEF s
    <3>. QED BY <2>1, MoveNames, OtherNames
  <2>. HIDE DEF next, s
  <2>. QED BY <1>1, <2>1, <2>2, <2>3 DEF names
<1>3. CASE s \in Named \ Steps
  <2>1. s[2] \in Building /\ s = Staging(s[2]) /\ IsMove(s) /\ MoveOf(s[2]) \notin Planned
    BY <1>0, <1>3, StepKinds DEF InTurn
  <2>2. /\ next.roads = Now.roads
        /\ \A o \in Building \ {s[2]} : next.at[o] = Now.at[o]
    BY <1>0, <2>1, AppliedFields
  <2>3. /\ \A p \in Point : RoadNew(p) # s /\ RoadGone(p) # s
        /\ \A o : MoveOf(o) # s
    <3>. HIDE DEF s
    <3>. QED BY <2>1, MoveNames, OtherNames
  <2>. HIDE DEF next, s
  <2>. QED BY <1>1, <2>1, <2>2, <2>3 DEF names
<1>4. CASE s \in Builds
  <2>. DEFINE p0 == <<s[2], s[3]>>
  <2>1. /\ ~ IsMove(s) /\ IsBuild(s) /\ s = RoadNew(p0) /\ step.to = p0
        /\ p0 \in target.roads \ baseline.roads
    BY <1>0, <1>4, StepKinds DEF InTurn
  <2>2. next.roads = Now.roads \union {p0} /\ next.at = Now.at
    BY <1>0, <2>1, AppliedFields
  <2>3. p0 \in Point /\ RoadGone(p0) \notin names
    <3>1. p0 \in Point
      BY <2>1, <1>0 DEF City
    <3>2. RoadGone(p0) \notin Named
      BY <2>1, <3>1, <1>0, StepKinds
    <3>. QED BY <3>1, <3>2, <1>0, BeforeEnd
  <2>4. /\ \A p \in Point : (RoadNew(p) = s <=> p = p0) /\ RoadGone(p) # s
        /\ \A o : MoveOf(o) # s /\ Staging(o) # s
    <3>. HIDE DEF s, p0
    <3>. QED BY <2>1, <2>3, OtherNames, RoadNames
  <2>. HIDE DEF next, s, p0
  <2>. QED BY <1>1, <2>1, <2>2, <2>3, <2>4 DEF names
<1>5. CASE s \in Removes
  <2>. DEFINE p0 == <<s[2], s[3]>>
  <2>1. /\ ~ IsMove(s) /\ ~ IsBuild(s) /\ s = RoadGone(p0) /\ step.to = p0
        /\ p0 \in baseline.roads \ target.roads
    BY <1>0, <1>5, StepKinds DEF InTurn
  <2>2. next.roads = Now.roads \ {p0} /\ next.at = Now.at
    BY <1>0, <2>1, AppliedFields
  <2>3. p0 \in Point
    BY <2>1, <1>0 DEF City
  <2>4. /\ \A p \in Point : (RoadGone(p) = s <=> p = p0) /\ RoadNew(p) # s
        /\ \A o : MoveOf(o) # s /\ Staging(o) # s
    <3>. HIDE DEF s, p0
    <3>. QED BY <2>1, <2>3, OtherNames, RoadNames
  <2>. HIDE DEF next, s, p0
  <2>. QED BY <1>1, <2>1, <2>2, <2>3, <2>4 DEF names
<1>. QED BY <1>0, <1>2, <1>3, <1>4, <1>5 DEF Steps

\* A step added in its turn keeps the plan in order, and adds the draft it makes.
LEMMA AddKeeps ==
  ASSUME SearchInv, PlanInv, stage \notin Searching, NEW step, InTurn(step), Add(step),
         UNCHANGED searchVars, stage = "ordering" => step.id \in Steps
  PROVE  PlanInv' /\ Planned' = Planned \union {step.id} /\ Now' = Applied(Now, step)
<1>. PICK n \in Nat : n = Len(plan)
  BY DEF PlanInv
<1>. DEFINE Each == [id : Named, from : Point, to : Point, after : SUBSET Named]
<1>0. /\ plan \in Seq(Each) /\ drafts \in Seq(City) /\ Len(drafts) = n + 1 /\ n \in Nat
      /\ step \in Each
      /\ UNCHANGED <<baseline, target, stage>>
      /\ Applied(Now, step) \in City
  BY AppliedFields, BeforeEnd DEF PlanInv, InTurn, searchVars
<1>1. plan' = Append(plan, step) /\ drafts' = Append(drafts, Applied(Now, step))
  BY DEF Add
<1>2. /\ plan' \in Seq(Each) /\ drafts' \in Seq(City) /\ Len(plan') = n + 1
      /\ Len(drafts') = n + 2
      /\ DOMAIN plan' = 1 .. n + 1 /\ DOMAIN drafts' = 1 .. n + 2
      /\ DOMAIN plan = 1 .. n /\ DOMAIN drafts = 1 .. n + 1
      /\ \A i \in 1 .. n : plan'[i] = plan[i]
      /\ plan'[n + 1] = step
      /\ \A i \in 1 .. n + 1 : drafts'[i] = drafts[i]
      /\ drafts'[n + 2] = Applied(Now, step)
  <2>. HIDE DEF Each
  <2>1. n = Len(plan)
    OBVIOUS
  <2>2. plan' \in Seq(Each) /\ drafts' \in Seq(City) /\ Len(plan') = n + 1 /\ Len(drafts') = n + 2
    BY <1>0, <1>1, <2>1
  <2>. QED BY <1>0, <1>1, <2>1, <2>2
<1>3. /\ MovedOnes' = MovedOnes /\ Moves' = Moves /\ Builds' = Builds /\ Removes' = Removes
      /\ Steps' = Steps /\ Named' = Named
  BY <1>0, NothingNew
<1>4. \A i \in 1 .. n + 1 : Before(i)' = Before(i)
  BY <1>2 DEF Before
<1>5. Before(n + 1) = Planned /\ Now = drafts[n + 1]
  BY BeforeEnd
<1>6. Planned' = Planned \union {step.id}
  BY <1>2 DEF Planned
<1>7. Before(n + 2)' = Planned \union {step.id}
  <2>1. 1 .. (n + 2) - 1 = DOMAIN plan'
    BY <1>0, <1>2
  <2>2. Before(n + 2)' = Planned'
    BY <2>1 DEF Before, Planned
  <2>. QED BY <1>6, <2>2
<1>8. Now' = Applied(Now, step)
  BY <1>2 DEF Now
<1>9. drafts'[1] = baseline'
  BY <1>0, <1>2 DEF PlanInv
<1>10. ASSUME NEW i \in DOMAIN plan' PROVE drafts'[i + 1] = Applied(drafts'[i], plan'[i])
  <2>1. CASE i \in 1 .. n
    <3>1. i + 1 \in 1 .. n + 1 /\ i \in 1 .. n + 1
      BY <1>0, <2>1
    <3>2. drafts[i + 1] = Applied(drafts[i], plan[i])
      BY <1>2, <2>1 DEF PlanInv
    <3>. QED BY <1>2, <2>1, <3>1, <3>2
  <2>2. CASE i = n + 1
    <3>1. (n + 1) + 1 = n + 2 /\ n + 1 \in 1 .. n + 1
      BY <1>0
    <3>. QED BY <1>2, <1>5, <2>2, <3>1
  <2>. QED BY <1>2, <2>1, <2>2
<1>11. StepsInOrder'
  <2>. SUFFICES ASSUME NEW i \in 1 .. n + 1
                PROVE LET t == plan'[i].id IN
                      /\ plan'[i].after \subseteq Before(i)
                      /\ t \in Steps => t \notin Before(i)
                      /\ t \notin Steps => MoveOf(t[2]) \notin Before(i)
                      /\ t \in Moves => plan'[i].to = target.at[t[2]]
                      /\ t \in Builds \union Removes => plan'[i].to = <<t[2], t[3]>>
                      /\ t \in Removes => plan'[i].after = Moves \union Builds
    BY <1>0, <1>2, <1>3, <1>4 DEF StepsInOrder
  <2>1. CASE i \in 1 .. n
    <3>1. plan'[i] = plan[i] /\ i \in DOMAIN plan
      BY <1>2, <2>1
    <3>. QED BY <3>1 DEF PlanInv, StepsInOrder
  <2>2. CASE i = n + 1
    <3>1. plan'[i] = step /\ Before(i) = Planned
      BY <1>2, <1>5, <2>2
    <3>. QED BY <3>1 DEF InTurn
  <2>. QED BY <1>0, <2>1, <2>2
<1>12. DraftsFollow'
  <2>. SUFFICES ASSUME NEW i \in 1 .. n + 2
                PROVE /\ drafts'[i].roads =
                           (baseline.roads \union {p \in Point : RoadNew(p) \in Before(i)'})
                             \ {p \in Point : RoadGone(p) \in Before(i)'}
                      /\ \A b \in Building :
                           /\ MoveOf(b) \in Before(i)' => drafts'[i].at[b] = target.at[b]
                           /\ MoveOf(b) \notin Before(i)' /\ Staging(b) \notin Before(i)'
                                => drafts'[i].at[b] = baseline.at[b]
    BY <1>0, <1>2 DEF DraftsFollow
  <2>1. CASE i \in 1 .. n + 1
    <3>1. drafts'[i] = drafts[i] /\ Before(i)' = Before(i) /\ i \in DOMAIN drafts
      BY <1>2, <1>4, <2>1
    <3>. QED BY <3>1 DEF PlanInv, DraftsFollow
  <2>2. CASE i = n + 2
    <3>0. Before(i)' = Before(n + 2)'
      BY <2>2
    <3>1. drafts'[i] = Applied(Now, step) /\ Before(i)' = Planned \union {step.id}
      BY <1>2, <1>7, <2>2, <3>0
    <3>. QED BY <3>1, DraftFollows
  <2>. QED BY <1>0, <2>1, <2>2
<1>13. /\ stage' \notin Searching
       /\ stage' \in Searching \union {"ordering"} => Planned' \subseteq Steps'
  BY <1>0, <1>3, <1>6 DEF PlanInv
<1>14. \A i \in DOMAIN plan' : drafts'[i + 1] = Applied(drafts'[i], plan'[i])
  BY <1>10
<1>15. plan' \in Seq([id : Named', from : Point, to : Point, after : SUBSET Named'])
  BY <1>2, <1>3
<1>16. Len(drafts') = Len(plan') + 1
  BY <1>0, <1>2
<1>. HIDE DEF Each
<1>17. PlanInv'
  BY <1>2, <1>9, <1>11, <1>12, <1>13, <1>14, <1>15, <1>16 DEF PlanInv, Applied, Moved, Searching
<1>. QED BY <1>6, <1>8, <1>17

\* What the names of the steps taken tell of a draft.
LEMMA DraftTells ==
  ASSUME SearchInv, PlanInv, NEW i \in DOMAIN drafts
  PROVE  /\ drafts[i] \in City
         /\ Before(i) \subseteq Planned /\ Before(i) \subseteq Named
         /\ drafts[i].roads \subseteq baseline.roads \union target.roads
         /\ \A q \in target.roads : q \in baseline.roads \/ RoadNew(q) \in Before(i) => q \in drafts[i].roads
         /\ \A q \in baseline.roads : RoadGone(q) \notin Before(i) => q \in drafts[i].roads
         /\ \A q \in drafts[i].roads : q \in baseline.roads \/ RoadNew(q) \in Before(i)
         /\ \A b \in Building : MoveOf(b) \in Before(i) => drafts[i].at[b] = target.at[b]
         /\ \A b \in Building :
              Staging(b) \notin Before(i) /\ MoveOf(b) \notin Before(i)
                => drafts[i].at[b] = baseline.at[b]
         /\ \A b \in Building \ MovedOnes : /\ MoveOf(b) \notin Before(i)
                                            /\ drafts[i].at[b] = baseline.at[b]
                                            /\ baseline.at[b] = target.at[b]
<1>0. /\ target \in City /\ baseline \in City /\ target.roads \subseteq Point
      /\ baseline.roads \subseteq Point
      /\ drafts \in Seq(City) /\ Len(drafts) = Len(plan) + 1 /\ Len(plan) \in Nat
      /\ DOMAIN plan = 1 .. Len(plan)
  BY MapsAreCities DEF PlanInv, City
<1>1. drafts[i] \in City /\ i \in 1 .. Len(plan) + 1
  BY <1>0
<1>2. Before(i) \subseteq Planned
  <2>1. 1 .. i - 1 \subseteq DOMAIN plan
    BY <1>0, <1>1
  <2>. QED BY <2>1 DEF Before, Planned
<1>3. Before(i) \subseteq Named
  BY <1>2, BeforeEnd
<1>4. /\ drafts[i].roads = (baseline.roads \union {p \in Point : RoadNew(p) \in Before(i)})
                             \ {p \in Point : RoadGone(p) \in Before(i)}
      /\ \A b \in Building :
           /\ MoveOf(b) \in Before(i) => drafts[i].at[b] = target.at[b]
           /\ MoveOf(b) \notin Before(i) /\ Staging(b) \notin Before(i)
                => drafts[i].at[b] = baseline.at[b]
  BY DEF PlanInv, DraftsFollow
<1>5. \A p \in Point : /\ RoadNew(p) \in Before(i) => p \in target.roads
                       /\ RoadGone(p) \in Before(i) => p \notin target.roads
  BY <1>0, <1>3, StepKinds
<1>6. ASSUME NEW b \in Building \ MovedOnes
      PROVE  /\ MoveOf(b) \notin Before(i)
             /\ drafts[i].at[b] = baseline.at[b] /\ baseline.at[b] = target.at[b]
  <2>1. MoveOf(b) \notin Before(i) /\ Staging(b) \notin Before(i)
    BY <1>0, <1>3, <1>6, StepKinds
  <2>. QED BY <1>4, <1>6, <2>1 DEF MovedOnes
<1>7. /\ drafts[i].roads \subseteq baseline.roads \union target.roads
      /\ \A q \in target.roads : q \in baseline.roads \/ RoadNew(q) \in Before(i) => q \in drafts[i].roads
      /\ \A q \in baseline.roads : RoadGone(q) \notin Before(i) => q \in drafts[i].roads
      /\ \A q \in drafts[i].roads : q \in baseline.roads \/ RoadNew(q) \in Before(i)
  BY <1>0, <1>4, <1>5
<1>. QED BY <1>1, <1>2, <1>3, <1>4, <1>6, <1>7

LEMMA NowTells ==
  ASSUME SearchInv, PlanInv
  PROVE  /\ Now \in City /\ Planned \subseteq Named
         /\ Now.roads \subseteq baseline.roads \union target.roads
         /\ \A q \in target.roads : q \in baseline.roads \/ RoadNew(q) \in Planned => q \in Now.roads
         /\ \A q \in baseline.roads : RoadGone(q) \notin Planned => q \in Now.roads
         /\ \A q \in Now.roads : q \in baseline.roads \/ RoadNew(q) \in Planned
         /\ \A b \in Building : MoveOf(b) \in Planned => Now.at[b] = target.at[b]
         /\ \A b \in Building :
              Staging(b) \notin Planned /\ MoveOf(b) \notin Planned
                => Now.at[b] = baseline.at[b]
         /\ \A b \in Building \ MovedOnes : Now.at[b] = target.at[b]
<1>1. Len(plan) + 1 \in DOMAIN drafts
  BY DEF PlanInv
<1>. QED BY <1>1, DraftTells, BeforeEnd

\* Where the roads that it waits for are built, a building is served in its new place, and
\* no road is in its way.
LEMMA RoadsWait ==
  ASSUME SearchInv, PlanInv, ~ ReusesRoad, NEW b \in MovedOnes,
         DependsOn(MoveOf(b)) \intersect Builds \subseteq Planned
  PROVE  /\ b \in Movable /\ target.at[b] \in Point
         /\ Cells(target, b) = Footprint(b, target.at[b]) /\ Cells(target, b) \subseteq Point
         /\ Cells(target, b) \intersect Now.roads = {}
         /\ Cells(target, b) \intersect Blocked = {}
         /\ Access(Now.roads, Cells(target, b))
<1>0. /\ b \in Building /\ Spread(target) /\ target \in City /\ baseline \in City
      /\ target.at[b] # baseline.at[b]
      /\ target.roads \subseteq Point
  BY MapsAreCities DEF MovedOnes, City
<1>1. b \in Movable /\ Served(target, b)
  BY <1>0 DEF SearchInv
<1>2. Cells(target, b) \intersect baseline.roads = {}
  BY <1>0 DEF ReusesRoad
<1>3. Cells(target, b) \intersect Now.roads = {}
  BY <1>0, <1>2, NowTells DEF Spread
<1>4. PICK q \in target.roads : q \in Beside(Cells(target, b))
  BY <1>1, AccessBy DEF Served
<1>5. q \in Now.roads
  <2>1. CASE q \in baseline.roads
    BY <2>1, NowTells
  <2>2. CASE q \notin baseline.roads
    <3>1. RoadNew(q) \in Builds
      BY <2>2 DEF Builds
    <3>2. <<RoadNew(q)[2], RoadNew(q)[3]>> = q
      BY <1>0, RoadNames
    <3>3. MoveOf(b) \in Moves /\ MoveOf(b)[2] = b
      BY MoveNames DEF Moves
    <3>4. RoadNew(q) \in DependsOn(MoveOf(b))
      <4>1. Cells(target, MoveOf(b)[2]) = Cells(target, b)
        BY <3>3
      <4>2. <<RoadNew(q)[2], RoadNew(q)[3]>> \in Beside(Cells(target, MoveOf(b)[2]))
        BY <1>4, <3>2, <4>1
      <4>3. RoadNew(q) \in {t \in Builds : <<t[2], t[3]>> \in Beside(Cells(target, MoveOf(b)[2]))}
        BY <3>1, <4>2
      <4>4. DependsOn(MoveOf(b)) =
              (Standing(Cells(target, MoveOf(b)[2])) \ {MoveOf(b)})
                \union {t \in Builds : <<t[2], t[3]>> \in Beside(Cells(target, MoveOf(b)[2]))}
        BY <3>3, DependsCases
      <4>. QED BY <4>3, <4>4
    <3>. QED BY <3>1, <3>4, NowTells
  <2>. QED BY <2>1, <2>2
<1>6. Access(Now.roads, Cells(target, b))
  BY <1>4, <1>5, AccessBy
<1>7. target.at[b] \in Point
  BY <1>0 DEF City
<1>. QED BY <1>0, <1>1, <1>3, <1>6, <1>7 DEF Spread, Cells

\* A step that waits for nothing can be taken, where every building stands as it is to
\* stand, or is still where it was.
LEMMA OriginalApplies ==
  ASSUME SearchInv, PlanInv, ~ ReusesRoad, NEW s \in Unresolved, DependsOn(s) \subseteq Planned,
         \A o \in Building : \/ Now.at[o] = target.at[o]
                             \/ MoveOf(o) \notin Planned /\ Now.at[o] = baseline.at[o],
         s \in Moves => Now.at[s[2]] = baseline.at[s[2]]
  PROVE  Applicable(Now, Original(s))
<1>0. /\ s \in Steps /\ s \notin Planned
      /\ Spread(target) /\ target \in City /\ baseline \in City
      /\ target.roads \subseteq Point
  BY MapsAreCities DEF Unresolved, City
\* Nobody is left where the step is to be.
<1>1. ASSUME NEW S, Standing(S) \ {s} \subseteq Planned, NEW o \in Building, s # MoveOf(o),
             S \intersect Cells(target, o) = {}
      PROVE  S \intersect Cells(Now, o) = {}
  <2>1. CASE Now.at[o] = target.at[o]
    BY <1>1, <2>1 DEF Cells
  <2>2. CASE Now.at[o] # target.at[o]
    <3>1. MoveOf(o) \notin Planned /\ Now.at[o] = baseline.at[o] /\ o \in MovedOnes
      BY <2>2 DEF MovedOnes
    <3>2. MoveOf(o) \notin Standing(S)
      BY <1>1, <3>1
    <3>3. S \intersect Cells(baseline, o) = {}
      BY <3>1, <3>2 DEF Standing
    <3>. QED BY <3>1, <3>3 DEF Cells
  <2>. QED BY <2>1, <2>2
<1>2. CASE s \in Moves
  <2>. DEFINE b == s[2]
              S == Cells(target, b)
  <2>1. b \in MovedOnes /\ s = MoveOf(b) /\ IsMove(s) /\ b \in Building
    BY <1>0, <1>2, StepKinds DEF MovedOnes
  <2>2. Standing(S) \ {s} \subseteq Planned
    BY <1>2, DependsCases
  <2>3. ASSUME NEW o \in Building \ {b} PROVE S \intersect Cells(Now, o) = {}
    <3>1. s # MoveOf(o)
      <4>. HIDE DEF b
      <4>. QED BY <2>1, <2>3, MoveNames
    <3>2. S \intersect Cells(target, o) = {}
      BY <1>0, <2>1, <2>3 DEF Spread
    <3>. QED BY <1>1, <2>2, <3>1, <3>2
  <2>4. DependsOn(MoveOf(b)) \intersect Builds \subseteq Planned
    BY <2>1
  <2>5. /\ b \in Movable /\ S = Footprint(b, target.at[b]) /\ S \subseteq Point
        /\ S \intersect Now.roads = {} /\ S \intersect Blocked = {} /\ Access(Now.roads, S)
    <3>. HIDE DEF b
    <3>. QED BY <2>1, <2>4, RoadsWait
  <2>6. S \intersect Occupied(Now, b) = {}
    BY <2>3, <2>5 DEF Occupied
  <2>7. CanMove(Now, b, target.at[b])
    BY <2>5, <2>6 DEF CanMove, CanPlace
  <2>8. Original(s).id = s /\ Original(s).from = baseline.at[b] /\ Original(s).to = target.at[b]
    BY <1>0, <1>2, OriginalFields
  <2>. QED BY <1>2, <2>1, <2>7, <2>8, ApplicableCases
<1>3. CASE s \in Builds
  <2>. DEFINE p == <<s[2], s[3]>>
  <2>1. /\ ~ IsMove(s) /\ IsBuild(s) /\ p \in target.roads \ baseline.roads /\ s = RoadNew(p)
    BY <1>0, <1>3, StepKinds
  <2>2. p \in Point /\ p \notin Now.roads
    <3>. HIDE DEF p
    <3>. QED BY <1>0, <2>1, NowTells
  <2>3. p \notin Blocked
    BY <2>1 DEF SearchInv
  <2>4. Standing({p}) \ {s} \subseteq Planned
    BY <1>3, DependsCases
  <2>5. ASSUME NEW o \in Building PROVE p \notin Cells(Now, o)
    <3>1. s # MoveOf(o)
      <4>. HIDE DEF p
      <4>. QED BY <2>1, OtherNames
    <3>2. {p} \intersect Cells(target, o) = {}
      BY <1>0, <2>1 DEF Spread
    <3>3. {p} \intersect Cells(Now, o) = {}
      BY <1>1, <2>4, <3>1, <3>2
    <3>. QED BY <3>3
  <2>6. p \notin Occupied(Now, -1)
    BY <2>2, <2>3, <2>5 DEF Occupied
  <2>7. Original(s).id = s /\ Original(s).to = p
    BY <1>0, <1>3, OriginalFields
  <2>. QED BY <2>1, <2>2, <2>6, <2>7, ApplicableCases
<1>4. CASE s \in Removes
  <2>. DEFINE p == <<s[2], s[3]>>
  <2>1. /\ ~ IsMove(s) /\ ~ IsBuild(s) /\ p \in baseline.roads /\ s = RoadGone(p)
    BY <1>0, <1>4, StepKinds
  <2>2. p \in Now.roads
    <3>. HIDE DEF p
    <3>. QED BY <1>0, <2>1, NowTells
  <2>3. Original(s).id = s /\ Original(s).to = p
    BY <1>0, <1>4, OriginalFields
  <2>. QED BY <2>1, <2>2, <2>3, ApplicableCases
<1>. QED BY <1>0, <1>2, <1>3, <1>4 DEF Steps

LEMMA OriginalInTurn ==
  ASSUME SearchInv, NEW s \in Unresolved, DependsOn(s) \subseteq Planned
  PROVE  InTurn(Original(s)) /\ Original(s).id = s /\ s \in Steps
<1>1. s \in Steps /\ s \notin Planned
  BY DEF Unresolved
<1>2. s \in Removes => DependsOn(s) = Moves \union Builds
  BY DependsCases
<1>. QED BY <1>1, <1>2, OriginalFields DEF InTurn

\* The map stays one that CityMap accepts, and the plan one that can be replayed.
LEMMA AddRuns ==
  ASSUME SearchInv, PlanInv, stage \notin Searching, NEW step, InTurn(step), Add(step),
         UNCHANGED searchVars, stage = "ordering" => step.id \in Steps,
         Executes, Valid(Now), Applicable(Now, step)
  PROVE  Executes' /\ Valid(Now)'
<1>1. Now' = Applied(Now, step)
  BY AddKeeps
<1>2. step.to \in Point /\ step.id \in Named
  BY DEF InTurn
<1>3. IsMove(step.id) => step.id[2] \in Building
  <2>1. step.id \in Moves \union Builds \union Removes \union (Named \ Steps)
    BY <1>2 DEF Steps
  <2>. QED BY <2>1, MapsAreCities, StepKinds DEF MovedOnes
<1>4. Valid(Applied(Now, step))
  BY <1>2, <1>3, AppliedIsValid
<1>5. Valid(Now)'
  BY <1>1, <1>4 DEF Valid, City, Cells, Occupied
<1>6. PICK n \in Nat : n = Len(plan)
  BY DEF PlanInv
<1>7. /\ DOMAIN plan = 1 .. n /\ DOMAIN plan' = 1 .. n + 1
      /\ \A i \in 1 .. n : plan'[i] = plan[i] /\ drafts'[i] = drafts[i]
      /\ plan'[n + 1] = step /\ drafts'[n + 1] = Now
  <2>1. plan' = Append(plan, step) /\ drafts' = Append(drafts, Applied(Now, step))
    BY DEF Add
  <2>2. /\ plan \in Seq([id : Named, from : Point, to : Point, after : SUBSET Named])
        /\ drafts \in Seq(City) /\ Len(drafts) = n + 1
    BY <1>6 DEF PlanInv
  <2>3. Now = drafts[n + 1]
    BY <2>2 DEF Now
  <2>4. Len(plan') = n + 1 /\ DOMAIN plan' = 1 .. n + 1 /\ DOMAIN plan = 1 .. n
    BY <1>6, <2>1, <2>2
  <2>5. \A i \in 1 .. n : plan'[i] = plan[i] /\ drafts'[i] = drafts[i]
    BY <1>6, <2>1, <2>2
  <2>6. plan'[n + 1] = step /\ drafts'[n + 1] = drafts[n + 1]
    BY <1>6, <2>1, <2>2
  <2>. QED BY <2>3, <2>4, <2>5, <2>6
<1>8. ASSUME NEW i \in DOMAIN plan' PROVE Applicable(drafts'[i], plan'[i])
  <2>1. CASE i \in 1 .. n
    BY <1>7, <2>1 DEF Executes
  <2>2. CASE i = n + 1
    BY <1>7, <2>2
  <2>. QED BY <1>7, <2>1, <2>2
<1>9. Executes'
  BY <1>8 DEF Executes, Applicable, IsMove, IsBuild, CanMove, CanPlace, Occupied, Cells
<1>. QED BY <1>5, <1>9

LEMMA PlanUntouched ==
  ASSUME PlanInv, UNCHANGED <<baseline, target, plan, drafts>>,
         stage' \in Searching => stage \in Searching,
         stage' = "ordering" => stage \in Searching \union {"ordering"}
  PROVE  PlanInv'
<1>1. /\ Planned' = Planned /\ StepsInOrder' = StepsInOrder /\ DraftsFollow' = DraftsFollow
      /\ Named' = Named /\ Steps' = Steps
  BY PlanStays
<1>. QED BY <1>1 DEF PlanInv, Searching, Applied, Moved

LEMMA StartPlanKeeps ==
  ASSUME SearchInv, PlanInv, StartPlan
  PROVE  PlanInv' /\ PlanRuns' /\ stage' # "raised"
<1>1. /\ stage \in Searching /\ stage' = "ordering" /\ plan = <<>>
      /\ UNCHANGED <<baseline, target, plan, drafts>>
  BY DEF StartPlan, Searched, planVars, Searching, PlanInv
<1>2. PlanInv'
  BY <1>1, PlanUntouched DEF Searching
<1>3. Executes
  BY <1>1 DEF Executes
<1>4. Now = baseline
  BY <1>1 DEF PlanInv, Now
<1>5. Valid(Now)
  BY <1>4, MapsAreCities
<1>6. Executes' /\ Valid(Now)'
  BY <1>1, <1>3, <1>5, PlanStays DEF Valid, City, Cells, Occupied
<1>. QED BY <1>1, <1>2, <1>6 DEF PlanRuns

LEMMA OrderKeeps ==
  ASSUME SearchInv, PlanInv, PlanRuns, Order
  PROVE  PlanInv' /\ PlanRuns' /\ stage' # "raised"
<1>1. PICK s \in Ready : Add(Original(s))
  BY DEF Order
<1>2. /\ s \in Unresolved /\ DependsOn(s) \subseteq Planned /\ stage = "ordering"
      /\ UNCHANGED searchVars /\ UNCHANGED <<baseline, target, stage>>
      /\ stage \notin Searching
  BY DEF Ready, Order, searchVars, Searching
<1>3. InTurn(Original(s)) /\ Original(s).id = s /\ s \in Steps
  BY <1>2, OriginalInTurn
<1>4. PlanInv'
  BY <1>1, <1>2, <1>3, AddKeeps
<1>5. ASSUME ~ ReusesRoad PROVE Executes' /\ Valid(Now)'
  <2>1. Executes /\ Valid(Now)
    BY <1>2, <1>5 DEF PlanRuns
  <2>2. \A o : Staging(o) \notin Planned
    BY <1>2, MapsAreCities, StepKinds DEF PlanInv
  <2>3. \A o \in Building : \/ Now.at[o] = target.at[o]
                            \/ MoveOf(o) \notin Planned /\ Now.at[o] = baseline.at[o]
    BY <2>2, NowTells
  <2>4. s \in Moves => Now.at[s[2]] = baseline.at[s[2]]
    <3>1. SUFFICES ASSUME s \in Moves PROVE Now.at[s[2]] = baseline.at[s[2]]
      OBVIOUS
    <3>2. s = MoveOf(s[2]) /\ s[2] \in Building /\ s \notin Planned
      BY <1>2, <3>1, MapsAreCities, StepKinds DEF Unresolved, MovedOnes
    <3>. QED BY <2>2, <3>2, NowTells
  <2>5. Applicable(Now, Original(s))
    BY <1>2, <1>5, <2>3, <2>4, OriginalApplies
  <2>. QED BY <1>1, <1>2, <1>3, <2>1, <2>5, AddRuns
<1>6. ReusesRoad' = ReusesRoad
  BY <1>2, NothingNew
<1>. QED BY <1>2, <1>4, <1>5, <1>6 DEF PlanRuns

LEMMA OrderedKeeps ==
  ASSUME SearchInv, PlanInv, PlanRuns, Ordered
  PROVE  PlanInv' /\ PlanRuns' /\ (stage' = "raised" => ReusesRoad')
<1>1. /\ stage = "ordering" /\ UNCHANGED <<baseline, target, plan, drafts>>
      /\ stage \notin Searching
  BY DEF Ordered, planVars, Searching
<1>2. /\ stage' \in {"planned", "staging", "raised"}
      /\ stage' = "raised" => ~ Replays /\ Pending # {}
      /\ stage' = "planned" => Pending = {}
  <2>1. stage' = CASE Pending = {} -> "planned" [] Replays -> "staging" [] OTHER -> "raised"
    BY DEF Ordered
  <2>2. CASE Pending = {}
    <3>1. stage' = "planned" \/ (stage' = "staging" /\ Replays)
      BY <2>1, <2>2 DEF Replays
    <3>. QED BY <3>1, <2>2
  <2>3. CASE Pending # {} /\ Replays
    BY <2>1, <2>3 DEF Replays
  <2>4. CASE Pending # {} /\ ~ Replays
    BY <2>1, <2>4 DEF Replays
  <2>. QED BY <2>2, <2>3, <2>4
<1>3. PlanInv'
  BY <1>1, <1>2, PlanUntouched DEF Searching
<1>4. ~ ReusesRoad => Executes /\ Valid(Now)
  BY <1>1 DEF PlanRuns
<1>5. /\ Pending' = Pending /\ Now' = Now /\ Executes' = Executes /\ ReusesRoad' = ReusesRoad
  BY <1>1, PlanStays, NothingNew
<1>6. Valid(Now)' = Valid(Now)
  BY <1>5 DEF Valid, City, Cells, Occupied
<1>7. PlanRuns'
  BY <1>4, <1>5, <1>6 DEF PlanRuns
<1>. QED BY <1>2, <1>3, <1>4, <1>5, <1>7, ExecutesReplays

\* A step that the solver places: a move, or a building put aside.
LEMMA PlacedKeeps ==
  ASSUME SearchInv, PlanInv, PlanRuns, stage = "staging", UNCHANGED searchVars,
         NEW step, InTurn(step), Add(step), ~ ReusesRoad => Applicable(Now, step)
  PROVE  PlanInv' /\ PlanRuns' /\ stage' # "raised"
<1>1. UNCHANGED <<baseline, target, stage>> /\ stage \notin Searching /\ stage # "ordering"
  BY DEF searchVars, Searching
<1>2. PlanInv'
  BY <1>1, AddKeeps
<1>3. ASSUME ~ ReusesRoad PROVE Executes' /\ Valid(Now)'
  <2>1. Executes /\ Valid(Now)
    BY <1>1, <1>3 DEF PlanRuns
  <2>. QED BY <1>1, <1>3, <2>1, AddRuns
<1>4. ReusesRoad' = ReusesRoad
  BY <1>1, NothingNew
<1>. QED BY <1>1, <1>2, <1>3, <1>4 DEF PlanRuns

LEMMA PendingOnes ==
  ASSUME SearchInv, PlanInv, NEW s \in Pending
  PROVE  LET b == s[2] IN
         /\ b \in MovedOnes /\ b \in Building /\ s = MoveOf(b) /\ IsMove(s) /\ s \notin Planned
         /\ s \in Named /\ Now.at[b] \in Point /\ target.at[b] \in Point
<1>1. s \in Moves /\ s \notin Planned /\ s \in Named
  BY DEF Pending, Unresolved, Named
<1>2. s[2] \in MovedOnes /\ s = MoveOf(s[2]) /\ IsMove(s) /\ s[2] \in Building
  BY <1>1, MapsAreCities, StepKinds DEF MovedOnes
<1>3. Now.at[s[2]] \in Point /\ target.at[s[2]] \in Point
  BY <1>2, MapsAreCities, NowTells DEF City
<1>. QED BY <1>1, <1>2, <1>3

LEMMA GoNowKeeps ==
  ASSUME SearchInv, PlanInv, PlanRuns, GoNow
  PROVE  PlanInv' /\ PlanRuns' /\ stage' # "raised"
<1>1. PICK s \in CanGo : Add(Step(s, Now.at[s[2]], target.at[s[2]], {}))
  BY DEF GoNow, First
<1>2. /\ s \in Pending /\ External(s) \subseteq Planned
      /\ Footprint(s[2], target.at[s[2]]) \intersect TakenByOthers(s[2]) = {}
      /\ stage = "staging" /\ UNCHANGED searchVars
  BY DEF CanGo, Eligible, GoNow
<1>. DEFINE b == s[2]
            step == Step(s, Now.at[b], target.at[b], {})
<1>3. /\ b \in MovedOnes /\ b \in Building /\ s = MoveOf(b) /\ IsMove(s) /\ s \notin Planned
      /\ s \in Named /\ Now.at[b] \in Point /\ target.at[b] \in Point
  BY <1>2, PendingOnes
<1>4. s \in Moves /\ s \in Steps /\ s \notin Builds /\ s \notin Removes
  BY <1>2, <1>3, MapsAreCities, StepKinds DEF Pending, Steps
<1>5. /\ step.id = s /\ step.to = target.at[b] /\ step.from = Now.at[b] /\ step.after = {}
      /\ step \in [id : Named, from : Point, to : Point, after : SUBSET Named]
  BY <1>3 DEF Step
<1>6. InTurn(step)
  BY <1>3, <1>4, <1>5 DEF InTurn
<1>7. ASSUME ~ ReusesRoad PROVE Applicable(Now, step)
  <2>1. DependsOn(s) \intersect Builds \subseteq Planned
    <3>1. Builds \intersect Pending = {}
      BY MapsAreCities, StepKinds DEF Pending
    <3>. QED BY <1>2, <3>1 DEF External
  <2>2. /\ b \in Movable /\ Cells(target, b) = Footprint(b, target.at[b])
        /\ Cells(target, b) \subseteq Point /\ Cells(target, b) \intersect Now.roads = {}
        /\ Cells(target, b) \intersect Blocked = {} /\ Access(Now.roads, Cells(target, b))
    <3>. HIDE DEF b
    <3>. QED BY <1>3, <1>7, <2>1, RoadsWait
  <2>3. Footprint(b, target.at[b]) \intersect Occupied(Now, b) = {}
    BY <1>2, <2>2 DEF Occupied, TakenByOthers
  <2>4. CanMove(Now, b, target.at[b])
    BY <2>2, <2>3 DEF CanMove, CanPlace
  <2>. QED BY <1>3, <1>5, <2>4, ApplicableCases
<1>8. Add(step)
  BY <1>1
<1>. HIDE DEF step
<1>. QED BY <1>2, <1>6, <1>7, <1>8, PlacedKeeps

LEMMA PutAsideKeeps ==
  ASSUME SearchInv, PlanInv, PlanRuns, PutAside
  PROVE  PlanInv' /\ PlanRuns' /\ stage' # "raised"
<1>0. PICK s \in Eligible : \E cell \in StagingCells(s[2]) :
        IF cell = Now.at[s[2]]
        THEN turn' = ~ turn /\ UNCHANGED <<plan, drafts>>
        ELSE Add(Step(Staging(s[2]), Now.at[s[2]], cell, {})) /\ UNCHANGED turn
  BY DEF PutAside, First, Nearest
<1>1. PICK cell \in StagingCells(s[2]) :
        \/ UNCHANGED <<plan, drafts>>
        \/ Add(Step(Staging(s[2]), Now.at[s[2]], cell, {}))
  BY <1>0
<1>2. s \in Pending /\ stage = "staging" /\ UNCHANGED searchVars
      /\ UNCHANGED <<baseline, target, stage>>
  BY DEF Eligible, PutAside, searchVars
<1>. DEFINE b == s[2]
            step == Step(Staging(b), Now.at[b], cell, {})
<1>3. CASE UNCHANGED <<plan, drafts>>
  <2>1. PlanInv'
    BY <1>2, <1>3, PlanUntouched
  <2>2. /\ Pending' = Pending /\ Now' = Now /\ Executes' = Executes /\ ReusesRoad' = ReusesRoad
    BY <1>2, <1>3, PlanStays, NothingNew
  <2>3. Valid(Now)' = Valid(Now)
    BY <2>2 DEF Valid, City, Cells, Occupied
  <2>. QED BY <1>2, <2>1, <2>2, <2>3 DEF PlanRuns
<1>4. CASE Add(step)
  <2>1. /\ b \in MovedOnes /\ b \in Building /\ s = MoveOf(b) /\ s \notin Planned
        /\ Now.at[b] \in Point
    BY <1>2, PendingOnes
  <2>2. Staging(b) \in Named /\ Staging(b) \notin Steps /\ Staging(b)[2] = b /\ IsMove(Staging(b))
    <3>. HIDE DEF b
    <3>. QED BY <2>1, MapsAreCities, StepKinds, MoveNames
  <2>3. cell \in Point
    BY DEF StagingCells
  <2>4. /\ step.id = Staging(b) /\ step.to = cell /\ step.from = Now.at[b] /\ step.after = {}
        /\ step \in [id : Named, from : Point, to : Point, after : SUBSET Named]
    BY <2>1, <2>2, <2>3 DEF Step
  <2>5. InTurn(step)
    BY <2>1, <2>2, <2>4 DEF InTurn, Steps
  <2>6. b \in Movable
    BY <2>1 DEF SearchInv, MovedOnes
  <2>7. CanPlace(Now, b, cell)
    <3>1. /\ Footprint(b, cell) \subseteq Point
          /\ Footprint(b, cell) \intersect (Blocked \union Now.roads \union TakenByOthers(b)) = {}
          /\ Access(Now.roads, Footprint(b, cell))
      BY DEF StagingCells
    <3>. QED BY <3>1 DEF CanPlace, Occupied, TakenByOthers
  <2>8. Applicable(Now, step)
    BY <2>2, <2>4, <2>6, <2>7, ApplicableCases DEF CanMove
  <2>. HIDE DEF step
  <2>. QED BY <1>2, <1>4, <2>5, <2>8, PlacedKeeps
<1>. QED BY <1>1, <1>3, <1>4

LEMMA FollowKeeps ==
  ASSUME SearchInv, PlanInv, PlanRuns, Follow
  PROVE  PlanInv' /\ PlanRuns' /\ stage' # "raised"
<1>1. PICK s \in CanFollow : Add(Original(s))
  BY DEF Follow, First
<1>2. /\ s \in Unresolved /\ s \notin Moves /\ DependsOn(s) \subseteq Planned
      /\ stage = "following" /\ UNCHANGED searchVars /\ UNCHANGED <<baseline, target, stage>>
      /\ stage \notin Searching
  BY DEF CanFollow, Follow, searchVars, Searching
<1>3. InTurn(Original(s)) /\ Original(s).id = s /\ s \in Steps
  BY <1>2, OriginalInTurn
<1>4. PlanInv' /\ Planned' = Planned \union {s}
  BY <1>1, <1>2, <1>3, AddKeeps
<1>5. ReusesRoad' = ReusesRoad /\ Moves' = Moves /\ Steps' = Steps
  BY <1>2, NothingNew
<1>6. Pending' = Pending
  BY <1>2, <1>4, <1>5 DEF Pending, Unresolved
<1>7. ASSUME ~ ReusesRoad, Pending = {} PROVE Executes' /\ Valid(Now)'
  <2>1. Executes /\ Valid(Now)
    BY <1>2, <1>7 DEF PlanRuns
  <2>2. ASSUME NEW o \in Building PROVE Now.at[o] = target.at[o]
    <3>1. CASE o \in MovedOnes
      <4>1. MoveOf(o) \in Planned
        BY <1>7, <3>1 DEF Pending, Unresolved, Moves, Steps
      <4>. QED BY <4>1, NowTells
    <3>2. CASE o \notin MovedOnes
      BY <3>2, NowTells
    <3>. QED BY <3>1, <3>2
  <2>3. Applicable(Now, Original(s))
    BY <1>2, <1>7, <2>2, OriginalApplies
  <2>. QED BY <1>1, <1>2, <1>3, <2>1, <2>3, AddRuns
<1>. QED BY <1>2, <1>4, <1>5, <1>6, <1>7 DEF PlanRuns

LEMMA SolverLeaves ==
  ASSUME SearchInv, PlanInv, PlanRuns, LoopEnds \/ Resolved
  PROVE  PlanInv' /\ PlanRuns' /\ stage' # "raised"
<1>1. /\ UNCHANGED <<baseline, target, plan, drafts>>
      /\ \/ stage = "staging" /\ stage' = "following"
         \/ stage = "following" /\ stage' = "planned"
  BY DEF LoopEnds, Resolved, planVars
<1>2. PlanInv'
  BY <1>1, PlanUntouched DEF Searching
<1>3. /\ Pending' = Pending /\ Now' = Now /\ Executes' = Executes /\ ReusesRoad' = ReusesRoad
  BY <1>1, PlanStays, NothingNew
<1>4. Valid(Now)' = Valid(Now)
  BY <1>3 DEF Valid, City, Cells, Occupied
<1>. QED BY <1>1, <1>2, <1>3, <1>4 DEF PlanRuns, Searching

\* Whatever the planner and the solver do, the steps are in order, and where no building is
\* to stand on a road each can be applied to what the others made
\* (construction.py:47-167, staging.py:32-146).
LEMMA PlanKeeps ==
  ASSUME SearchInv, PlanInv, PlanRuns, Plan
  PROVE  PlanInv' /\ PlanRuns' /\ (stage' = "raised" => ReusesRoad')
<1>1. StartPlan \/ PlanStep
  BY DEF Plan
<1>. QED BY <1>1, StartPlanKeeps, OrderKeeps, OrderedKeeps, GoNowKeeps, PutAsideKeeps,
         FollowKeeps, SolverLeaves DEF PlanStep

LEMMA InitPlan == Init => PlanInv /\ PlanRuns
<1>. SUFFICES ASSUME Init PROVE PlanInv /\ PlanRuns
  OBVIOUS
<1>1. /\ plan = <<>> /\ drafts = <<baseline>> /\ stage = "buildings" /\ Valid(baseline)
      /\ target = baseline
  BY SearchAssumption DEF Init, PlanInit, SearchInit
<1>2. /\ DOMAIN plan = {} /\ Len(plan) = 0 /\ Len(drafts) = 1 /\ DOMAIN drafts = {1}
      /\ drafts[1] = baseline /\ baseline \in City /\ Before(1) = {} /\ Planned = {}
  BY <1>1 DEF Valid, Before, Planned
<1>3. /\ plan \in Seq([id : Named, from : Point, to : Point, after : SUBSET Named])
      /\ drafts \in Seq(City)
  BY <1>1, <1>2
<1>4. StepsInOrder
  BY <1>2 DEF StepsInOrder
<1>5. DraftsFollow
  BY <1>2 DEF DraftsFollow, City
<1>6. Len(drafts) = Len(plan) + 1
  BY <1>2
<1>7. PlanInv
  BY <1>1, <1>2, <1>3, <1>4, <1>5, <1>6 DEF PlanInv
<1>. QED BY <1>1, <1>7 DEF PlanRuns, Searching

\* While the search goes on there is no plan.
LEMMA SearchBeforePlan ==
  ASSUME PlanInv, SearchStep, UNCHANGED planVars, baseline \in City
  PROVE  PlanInv' /\ PlanRuns' /\ stage' # "raised" /\ stage \in Searching /\ stage' \in Searching
<1>1. stage \in Searching /\ stage' \in Searching /\ UNCHANGED baseline
  BY DEF SearchStep, Relocate, RemoveRoad, ReworkRoads, RepairAccess, Repaired,
              NextRound, Searching
<1>2. /\ plan = <<>> /\ UNCHANGED <<plan, drafts>> /\ drafts \in Seq(City)
      /\ Len(drafts) = Len(plan) + 1 /\ drafts[1] = baseline
  BY <1>1 DEF PlanInv, planVars
<1>3. /\ plan' = <<>> /\ DOMAIN plan' = {} /\ Len(plan') = 0
      /\ DOMAIN drafts' = {1} /\ drafts'[1] = baseline' /\ baseline' \in City /\ drafts' \in Seq(City)
      /\ Len(drafts') = Len(plan') + 1
  BY <1>1, <1>2
<1>4. Before(1)' = {} /\ Planned' = {}
  BY <1>3 DEF Before, Planned
<1>5. StepsInOrder'
  BY <1>3 DEF StepsInOrder
<1>6. DraftsFollow'
  BY <1>3, <1>4 DEF DraftsFollow, City
<1>7. plan' \in Seq([id : Named', from : Point, to : Point, after : SUBSET Named'])
  BY <1>3
<1>8. PlanInv'
  BY <1>3, <1>4, <1>5, <1>6, <1>7 DEF PlanInv
<1>. QED BY <1>1, <1>8 DEF PlanRuns, Searching

LEMMA PlanMade ==
  ASSUME PlanInv, PlanRuns, UNCHANGED <<baseline, target, plan, drafts>>,
         \/ UNCHANGED stage
         \/ /\ stage \in {"planned", "between", "acted"}
            /\ stage' \in {"between", "acted"} \union Ended
  PROVE  PlanInv' /\ PlanRuns'
<1>1. PlanInv'
  BY PlanUntouched DEF Searching, Ended
<1>2. /\ Pending' = Pending /\ Now' = Now /\ Executes' = Executes /\ ReusesRoad' = ReusesRoad
  BY PlanStays, NothingNew
<1>3. Valid(Now)' = Valid(Now)
  BY <1>2 DEF Valid, City, Cells, Occupied
<1>. QED BY <1>1, <1>2, <1>3 DEF PlanRuns, Searching, Ended

-----------------------------------------------------------------------------
(* The work                                                                *)

LEMMA TheStepFits ==
  ASSUME SearchInv, PlanInv, NEW i \in DOMAIN plan
  PROVE  /\ plan[i].to \in Point /\ plan[i].id \in Named /\ plan[i].after \subseteq Named
         /\ IsMove(plan[i].id) => plan[i].id[2] \in Building
         /\ drafts[i + 1] = Applied(drafts[i], plan[i])
         /\ i \in DOMAIN drafts /\ i + 1 \in DOMAIN drafts
         /\ plan[i].id \in Moves \union Builds \union Removes \union (Named \ Steps)
<1>1. /\ plan \in Seq([id : Named, from : Point, to : Point, after : SUBSET Named])
      /\ drafts \in Seq(City) /\ Len(drafts) = Len(plan) + 1
      /\ drafts[i + 1] = Applied(drafts[i], plan[i])
  BY DEF PlanInv
<1>2. /\ plan[i].to \in Point /\ plan[i].id \in Named /\ plan[i].after \subseteq Named
  <2>. DEFINE Each == [id : Named, from : Point, to : Point, after : SUBSET Named]
  <2>1. \A t \in Each : t.to \in Point /\ t.id \in Named /\ t.after \subseteq Named
    OBVIOUS
  <2>2. plan \in Seq(Each)
    BY <1>1
  <2>. HIDE DEF Each
  <2>3. plan[i] \in Each
    BY <2>2
  <2>. QED BY <2>1, <2>3
<1>3. i \in DOMAIN drafts /\ i + 1 \in DOMAIN drafts
  BY <1>1
<1>4. plan[i].id \in Moves \union Builds \union Removes \union (Named \ Steps)
  BY <1>2 DEF Steps
<1>5. IsMove(plan[i].id) => plan[i].id[2] \in Building
  BY <1>4, MapsAreCities, StepKinds DEF MovedOnes
<1>. QED BY <1>1, <1>2, <1>3, <1>4, <1>5

\* A building that has road access before and after a plan does not lose it in a step: a
\* road is removed when all else is done (construction.py:95-118).
LEMMA ServedOn ==
  ASSUME SearchInv, PlanInv, NEW i \in DOMAIN plan, Applicable(drafts[i], plan[i]),
         NEW b \in Building, Served(target, b), Served(drafts[i], b)
  PROVE  Served(drafts[i + 1], b)
<1>. DEFINE s == plan[i].id
<1>0. /\ plan[i].to \in Point /\ s \in Named
      /\ IsMove(s) => s[2] \in Building
      /\ drafts[i + 1] = Applied(drafts[i], plan[i])
      /\ i \in DOMAIN drafts /\ drafts[i] \in City
      /\ s \in Moves \union Builds \union Removes \union (Named \ Steps)
  BY TheStepFits, DraftTells
<1>1. CASE IsMove(s)
  <2>1. CanPlace(drafts[i], s[2], plan[i].to) /\ s[2] \in Building
    BY <1>0, <1>1, ApplicableCases DEF CanMove
  <2>2. /\ drafts[i + 1].roads = drafts[i].roads
        /\ drafts[i + 1].at[s[2]] = plan[i].to
        /\ \A o \in Building \ {s[2]} : drafts[i + 1].at[o] = drafts[i].at[o]
    BY <1>0, <1>1, <2>1, AppliedFields
  <2>3. CASE s[2] = b
    BY <2>1, <2>2, <2>3 DEF CanPlace, Served, Cells
  <2>4. CASE s[2] # b
    BY <2>2, <2>4 DEF Served, Cells
  <2>. QED BY <2>3, <2>4
<1>2. CASE ~ IsMove(s) /\ IsBuild(s)
  BY <1>0, <1>2, AppliedFields, ServedWhere
<1>3. CASE ~ IsMove(s) /\ ~ IsBuild(s)
  <2>. DEFINE p == <<s[2], s[3]>>
  <2>1. s \in Removes
    BY <1>0, <1>3, MapsAreCities, StepKinds
  <2>2. /\ plan[i].after = Moves \union Builds /\ plan[i].after \subseteq Before(i)
        /\ plan[i].to = p
    BY <2>1 DEF PlanInv, StepsInOrder
  <2>3. p \notin target.roads
    BY <2>1, MapsAreCities, StepKinds
  <2>4. drafts[i + 1].roads = drafts[i].roads \ {p} /\ drafts[i + 1].at = drafts[i].at
    BY <1>0, <1>3, <2>2, AppliedFields
  <2>5. drafts[i].at[b] = target.at[b]
    <3>1. CASE b \in MovedOnes
      <4>1. MoveOf(b) \in Before(i)
        BY <2>2, <3>1 DEF Moves
      <4>. QED BY <1>0, <4>1, DraftTells
    <3>2. CASE b \notin MovedOnes
      BY <1>0, <3>2, DraftTells
    <3>. QED BY <3>1, <3>2
  <2>6. ASSUME NEW q \in target.roads PROVE q \in drafts[i].roads
    <3>1. q \notin baseline.roads => RoadNew(q) \in Before(i)
      BY <2>2 DEF Builds
    <3>. QED BY <1>0, <3>1, DraftTells
  <2>. HIDE DEF p
  <2>7. target.roads \subseteq drafts[i + 1].roads
    BY <2>3, <2>4, <2>6
  <2>. QED BY <2>4, <2>5, <2>7, ServedWhere
<1>. QED BY <1>1, <1>2, <1>3

\* A city that a scan finds as expected, but for the roads, is one that CityMap accepts.
LEMMA RecognisedIsValid ==
  ASSUME NEW c, Valid(c), Valid(live), Recognised(c)
  PROVE  Valid([c EXCEPT !.roads = live.roads])
<1>. DEFINE d == [c EXCEPT !.roads = live.roads]
<1>0. c \in City /\ Spread(c) /\ live \in City /\ Spread(live)
  BY ValidSpread DEF Spread
<1>1. d \in City /\ d.roads = live.roads /\ d.at = c.at
  BY <1>0 DEF City
<1>2. Alike(d, live)
  BY DEF Recognised
<1>. HIDE DEF d
<1>3. \A b \in Building : Cells(d, b) = Cells(c, b)
  BY <1>1 DEF Cells
<1>4. ASSUME NEW b \in Building
      PROVE  /\ Cells(d, b) \subseteq Point
             /\ Cells(d, b) \intersect d.roads = {} /\ Cells(d, b) \intersect Blocked = {}
  <2>1. PICK o \in Building : live.at[o] = d.at[b] /\ Kind[o] = Kind[b]
    BY <1>2 DEF Alike
  <2>2. Size[o] = Size[b]
    BY <2>1, SiteAssumption
  <2>3. Cells(d, b) = Cells(live, o)
    BY <2>1, <2>2 DEF Cells, Footprint
  <2>. QED BY <1>0, <1>1, <2>3 DEF Spread
<1>5. Spread(d)
  BY <1>0, <1>1, <1>3, <1>4 DEF Spread
<1>. QED BY <1>5, ValidSpread DEF d

\* The game only permits what CityMap accepts.
LEMMA EffectIsValid ==
  ASSUME Valid(live), NEW step, step.to \in Point, NEW c \in Effect(step)
  PROVE  /\ Valid(c)
         /\ IsMove(step.id) => c.roads = live.roads
         /\ ~ IsMove(step.id) /\ IsBuild(step.id) => c.roads = live.roads \union {step.to}
         /\ ~ IsMove(step.id) /\ ~ IsBuild(step.id) => c.roads = live.roads \ {step.to}
<1>0. live \in City
  BY DEF Valid
<1>1. CASE IsMove(step.id)
  <2>1. PICK o \in Building : CanMove(live, o, step.to) /\ c = Moved(live, o, step.to)
    BY <1>1 DEF Effect
  <2>. QED BY <1>0, <1>1, <2>1, MoveKeepsValid, MovedCells DEF CanMove
<1>2. CASE ~ IsMove(step.id) /\ IsBuild(step.id)
  <2>. DEFINE R == live.roads \union {step.to}
  <2>1. step.to \notin Occupied(live, -1) /\ c = [live EXCEPT !.roads = R]
    BY <1>2 DEF Effect
  <2>2. \A b \in Building : step.to \notin Cells(live, b)
    BY <2>1, GridAssumption DEF Occupied
  <2>3. R \in SUBSET Point /\ \A b \in Building : Cells(live, b) \intersect R \subseteq live.roads
    BY <1>0, <2>2 DEF City
  <2>4. c.roads = R
    BY <1>0, <2>1 DEF City
  <2>5. Valid(c)
    <3>. HIDE DEF R
    <3>. QED BY <2>1, <2>3, RoadsKeepValid
  <2>. QED BY <1>2, <2>4, <2>5
<1>3. CASE ~ IsMove(step.id) /\ ~ IsBuild(step.id)
  <2>. DEFINE R == live.roads \ {step.to}
  <2>1. c = [live EXCEPT !.roads = R]
    BY <1>3 DEF Effect
  <2>2. R \in SUBSET Point /\ \A b \in Building : Cells(live, b) \intersect R \subseteq live.roads
    BY <1>0 DEF City
  <2>3. c.roads = R
    BY <1>0, <2>1 DEF City
  <2>4. Valid(c)
    <3>. HIDE DEF R
    <3>. QED BY <2>1, <2>2, RoadsKeepValid
  <2>. QED BY <1>3, <2>3, <2>4
<1>. QED BY <1>1, <1>2, <1>3

Stages == Searching \union {"ordering", "staging", "following", "planned", "between", "acted"}
            \union Ended

\* What SiteInv says of the work alone.
WorkInv ==
  /\ stage \in Stages
  /\ Valid(live)
  /\ Valid(known)
  /\ done \in 0 .. Len(plan)
  /\ changes \in 0 .. MaxChanges
  /\ Working
  /\ RoadsKnown
  /\ ServedAllAlong
  /\ stage = "raised" => ReusesRoad
  /\ stage = "PRECONDITION_FAILED" => ReusesRoad \/ (done = 0 /\ known # baseline)

LEMMA SiteInvParts == SiteInv <=> SearchInv /\ PlanInv /\ PlanRuns /\ WorkInv
<1>1. SearchInv => /\ baseline \in Baselines
                   /\ round \in 1 .. MaxRounds
  BY DEF SearchInv
<1>2. stage \in Stages <=> stage \in {"buildings", "repairing", "roads", "ordering", "staging",
                                      "following", "planned", "between", "acted"} \union Ended
  BY DEF Stages, Searching
<1>3. SearchInv => (SiteTypeOK <=> /\ stage \in Stages
                                   /\ Valid(live)
                                   /\ Valid(known)
                                   /\ done \in 0 .. Len(plan)
                                   /\ changes \in 0 .. MaxChanges)
  BY <1>1, <1>2 DEF SiteTypeOK
<1>. QED BY <1>3 DEF SiteInv, WorkInv

LEMMA SiteStart == Init => SiteInv
<1>. SUFFICES ASSUME Init PROVE SiteInv
  OBVIOUS
<1>1. SearchInv /\ PlanInv /\ PlanRuns
  BY SearchStart, InitPlan
<1>2. /\ stage = "buildings" /\ live = baseline /\ known = baseline /\ done = 0 /\ changes = 0
      /\ plan = <<>>
  BY DEF Init, SearchInit, PlanInit
<1>3. Valid(baseline)
  BY <1>1, MapsAreCities
<1>4. Len(plan) = 0 /\ MaxChanges \in Nat
  BY <1>2, SiteAssumption
<1>5. stage \in Stages
  BY <1>2 DEF Stages, Searching
<1>6. Working /\ RoadsKnown /\ ServedAllAlong
  BY <1>2 DEF Working, RoadsKnown, ServedAllAlong
<1>7. WorkInv
  BY <1>2, <1>3, <1>4, <1>5, <1>6 DEF WorkInv
<1>. QED BY <1>1, <1>7, SiteInvParts

\* The search and the plan come before the work.
LEMMA NotAtWork ==
  ASSUME WorkInv, UNCHANGED <<baseline, live, known, done, changes>>, Len(plan') \in Nat,
         stage \in Searching \union {"ordering", "staging", "following"},
         stage' \in Searching \union {"ordering", "staging", "following", "planned", "raised"},
         stage' = "raised" => ReusesRoad'
  PROVE  WorkInv'
<1>0. Working
  BY DEF WorkInv
<1>1. done = 0 /\ known = baseline /\ (changes = 0 => live = baseline)
  BY <1>0 DEF Working
<1>2. Valid(live)' /\ Valid(known)'
  <2>1. Valid(live) /\ Valid(known)
    BY DEF WorkInv
  <2>2. live' = live => Valid(live)' = Valid(live)
    BY DEF Valid, City, Cells, Occupied
  <2>3. known' = known => Valid(known)' = Valid(known)
    BY DEF Valid, City, Cells, Occupied
  <2>. QED BY <2>1, <2>2, <2>3
<1>3. stage' \in Stages' /\ stage' \notin {"between", "acted", "COMPLETE", "PRECONDITION_FAILED"}
  BY DEF Stages, Searching, Ended
<1>4. Working' /\ RoadsKnown'
  BY <1>1, <1>3 DEF Working, RoadsKnown
<1>5. ServedAllAlong'
  BY <1>1 DEF ServedAllAlong, Served, Cells
<1>6. done' \in 0 .. Len(plan') /\ changes' \in 0 .. MaxChanges
  BY <1>1 DEF WorkInv
<1>. QED BY <1>2, <1>3, <1>4, <1>5, <1>6 DEF WorkInv

LEMMA SearchingKeeps ==
  ASSUME SiteInv, SearchStep, UNCHANGED <<planVars, siteVars>>
  PROVE  SiteInv'
<1>1. SearchInv /\ PlanInv /\ WorkInv /\ SearchInv'
  BY SiteInvParts, SearchKeeps
<1>2. baseline \in City
  BY <1>1, MapsAreCities
<1>3. PlanInv' /\ PlanRuns' /\ stage' # "raised" /\ stage \in Searching /\ stage' \in Searching
  BY <1>1, <1>2, SearchBeforePlan
<1>4. UNCHANGED <<baseline, live, known, done, changes>>
  BY DEF siteVars, SearchStep, Relocate, RemoveRoad, ReworkRoads, RepairAccess, Repaired, NextRound
<1>5. Len(plan') \in Nat
  BY <1>3 DEF PlanInv
<1>6. WorkInv'
  BY <1>1, <1>3, <1>4, <1>5, NotAtWork
<1>. QED BY <1>1, <1>3, <1>6, SiteInvParts, PTL

LEMMA PlanningKeeps ==
  ASSUME SiteInv, Plan
  PROVE  SiteInv'
<1>1. SearchInv /\ PlanInv /\ PlanRuns /\ WorkInv /\ SearchInv'
  BY SiteInvParts, SearchOver
<1>2. PlanInv' /\ PlanRuns' /\ (stage' = "raised" => ReusesRoad')
  BY <1>1, PlanKeeps
<1>3. /\ stage \in Searching \union {"ordering", "staging", "following"}
      /\ stage' \in {"ordering", "staging", "following", "planned", "raised"}
      /\ UNCHANGED <<baseline, live, known, done, changes>>
  BY DEF Plan, StartPlan, Searched, PlanStep, Order, Ordered, GoNow, PutAside,
         LoopEnds, Follow, Resolved, searchVars, siteVars, Searching
<1>4. Len(plan') \in Nat
  BY <1>2 DEF PlanInv
<1>5. WorkInv'
  BY <1>1, <1>2, <1>3, <1>4, NotAtWork
<1>. QED BY <1>1, <1>2, <1>5, SiteInvParts, PTL

\* What the executor and the player leave alone.
LEMMA OutsideWork ==
  ASSUME UNCHANGED <<baseline, target, plan, drafts>>
  PROVE  /\ Unresolved' = Unresolved /\ ReusesRoad' = ReusesRoad
         /\ live' = live => Valid(live)' = Valid(live)
         /\ known' = known => Valid(known)' = Valid(known)
         /\ known' = known => ((ServedAllAlong /\ changes' = changes) => ServedAllAlong')
<1>1. live' = live => Valid(live)' = Valid(live)
  BY DEF Valid, City, Cells, Occupied
<1>2. known' = known => Valid(known)' = Valid(known)
  BY DEF Valid, City, Cells, Occupied
<1>3. known' = known => ((ServedAllAlong /\ changes' = changes) => ServedAllAlong')
  BY DEF ServedAllAlong, Served, Cells
<1>. QED BY <1>1, <1>2, <1>3, PlanStays, NothingNew

\* The executor acts on the city it knows, and what it does the game permits
\* (execution.py:93-118).
LEMMA ActKeeps ==
  ASSUME SearchInv, PlanInv, WorkInv, Act, UNCHANGED <<baseline, target, plan, drafts>>
  PROVE  WorkInv'
<1>0. /\ stage = "between" /\ done < Len(plan) /\ Permitted
      /\ live' \in {live} \union Effect(TheStep)
      /\ stage' \in {"acted", "ACTION_FAILED"}
      /\ UNCHANGED <<known, done, changes>>
  BY DEF Act
<1>1. /\ Valid(live) /\ Valid(known) /\ done \in 0 .. Len(plan) /\ changes \in 0 .. MaxChanges
      /\ Working /\ RoadsKnown /\ ServedAllAlong
  BY DEF WorkInv
<1>2. /\ Unresolved = {} /\ known = drafts[done + 1]
      /\ \A i \in 1 .. done : Applicable(drafts[i], plan[i])
  BY <1>0, <1>1 DEF Working
<1>3. done + 1 \in DOMAIN plan /\ TheStep = plan[done + 1]
  BY <1>0, <1>1 DEF TheStep, PlanInv
<1>4. TheStep.to \in Point
  BY <1>3, TheStepFits
<1>5. TheStep' = TheStep /\ Permitted' = Permitted
  BY <1>0 DEF TheStep, Permitted, Applicable, CanMove, CanPlace, Occupied, Cells
<1>6. Working'
  BY <1>0, <1>2, <1>5, OutsideWork, PlanStays DEF Working, Searching
<1>7. RoadsKnown'
  <2>. SUFFICES ASSUME changes = 0
                PROVE  live'.roads \in {known.roads, Applied(known, TheStep).roads}
    BY <1>0, <1>5 DEF RoadsKnown, Applied, Moved
  <2>1. live.roads = known.roads /\ known \in City
    BY <1>0, <1>1 DEF RoadsKnown, Valid
  <2>2. CASE live' = live
    BY <2>1, <2>2
  <2>3. CASE live' \in Effect(TheStep)
    <3>1. /\ IsMove(TheStep.id) => live'.roads = live.roads
          /\ ~ IsMove(TheStep.id) /\ IsBuild(TheStep.id) => live'.roads = live.roads \union {TheStep.to}
          /\ ~ IsMove(TheStep.id) /\ ~ IsBuild(TheStep.id) => live'.roads = live.roads \ {TheStep.to}
      BY <1>1, <1>4, <2>3, EffectIsValid
    <3>2. /\ IsMove(TheStep.id) => Applied(known, TheStep).roads = known.roads
          /\ ~ IsMove(TheStep.id) /\ IsBuild(TheStep.id) =>
               Applied(known, TheStep).roads = known.roads \union {TheStep.to}
          /\ ~ IsMove(TheStep.id) /\ ~ IsBuild(TheStep.id) =>
               Applied(known, TheStep).roads = known.roads \ {TheStep.to}
      BY <1>4, <2>1, AppliedFields
    <3>. QED BY <2>1, <3>1, <3>2
  <2>. QED BY <1>0, <2>2, <2>3
<1>8. Valid(live)'
  <2>1. CASE live' = live
    BY <1>1, <2>1, OutsideWork
  <2>2. CASE live' \in Effect(TheStep)
    <3>1. Valid(live')
      BY <1>1, <1>4, <2>2, EffectIsValid
    <3>. QED BY <3>1 DEF Valid, City, Cells, Occupied
  <2>. QED BY <1>0, <2>1, <2>2
<1>9. Valid(known)' /\ ServedAllAlong'
  BY <1>0, <1>1, OutsideWork
<1>10. /\ stage' \in Stages' /\ stage' # "raised" /\ stage' # "PRECONDITION_FAILED"
       /\ done' \in 0 .. Len(plan') /\ changes' \in 0 .. MaxChanges
  BY <1>0, <1>1 DEF Stages, Ended
<1>. QED BY <1>6, <1>7, <1>8, <1>9, <1>10 DEF WorkInv

\* A scan that shows the step, and no more, makes the city known the next draft
\* (execution.py:119-166).
LEMMA VerifyKeeps ==
  ASSUME SearchInv, PlanInv, WorkInv, Verify, UNCHANGED <<baseline, target, plan, drafts, live, changes>>
  PROVE  WorkInv'
<1>. DEFINE expected == Applied(known, TheStep)
            scanned == [expected EXCEPT !.roads = live.roads]
<1>1. /\ Valid(live) /\ Valid(known) /\ done \in 0 .. Len(plan) /\ changes \in 0 .. MaxChanges
      /\ Working /\ RoadsKnown /\ ServedAllAlong /\ stage = "acted"
  BY DEF WorkInv, Verify
<1>2. /\ Unresolved = {} /\ known = drafts[done + 1] /\ done < Len(plan) /\ Permitted
      /\ \A i \in 1 .. done : Applicable(drafts[i], plan[i])
  BY <1>1 DEF Working
<1>3. done + 1 \in DOMAIN plan /\ TheStep = plan[done + 1] /\ Applicable(known, TheStep)
      /\ Len(plan) \in Nat
  BY <1>1, <1>2 DEF TheStep, PlanInv, Permitted
<1>4. /\ TheStep.to \in Point
      /\ IsMove(TheStep.id) => TheStep.id[2] \in Building
      /\ expected = drafts[(done + 1) + 1]
  BY <1>2, <1>3, TheStepFits
<1>5. Valid(expected) /\ expected \in City /\ known \in City
  BY <1>1, <1>3, <1>4, AppliedIsValid DEF Valid
<1>6. \/ /\ Recognised(expected) /\ known' = scanned /\ scanned = expected
         /\ stage' = "between" /\ done' = done + 1
      \/ /\ Recognised(expected) /\ known' = scanned
         /\ stage' = "VERIFICATION_FAILED" /\ done' = done
      \/ known' = known /\ stage' = "VERIFICATION_FAILED" /\ done' = done
  BY DEF Verify, Report
<1>. HIDE DEF expected
<1>7. scanned.roads = live.roads /\ scanned.at = expected.at /\ scanned \in City
  BY <1>1, <1>5 DEF City, Valid
<1>8. Valid(known)'
  <2>1. CASE known' = known
    BY <1>1, <2>1, OutsideWork
  <2>2. CASE Recognised(expected) /\ known' = scanned
    <3>1. Valid(scanned)
      BY <1>1, <1>5, <2>2, RecognisedIsValid
    <3>. QED BY <2>2, <3>1 DEF Valid, City, Cells, Occupied
  <2>. QED BY <1>6, <2>1, <2>2
<1>9. Valid(live)'
  BY <1>1, OutsideWork
<1>10. stage' = "between" => /\ known' = drafts[done' + 1]
                             /\ known'.roads = live.roads
                             /\ done' \in 0 .. Len(plan)
                             /\ \A i \in 1 .. done' : Applicable(drafts[i], plan[i])
  <2>. SUFFICES ASSUME stage' = "between"
                PROVE  /\ known' = drafts[done' + 1]
                       /\ known'.roads = live.roads
                       /\ done' \in 0 .. Len(plan)
                       /\ \A i \in 1 .. done' : Applicable(drafts[i], plan[i])
    OBVIOUS
  <2>1. known' = scanned /\ scanned = expected /\ done' = done + 1
    BY <1>6
  <2>2. known' = drafts[done' + 1] /\ known'.roads = live.roads
    BY <1>4, <1>7, <2>1
  <2>3. done' \in 0 .. Len(plan)
    BY <1>1, <1>2, <1>3, <2>1
  <2>4. ASSUME NEW i \in 1 .. done' PROVE Applicable(drafts[i], plan[i])
    <3>1. CASE i \in 1 .. done
      BY <1>2, <3>1
    <3>2. CASE i = done + 1
      BY <1>2, <1>3, <3>2
    <3>. QED BY <1>1, <2>1, <3>1, <3>2
  <2>. QED BY <2>2, <2>3, <2>4
<1>11. Working' /\ RoadsKnown'
  <2>1. stage' \in {"between", "VERIFICATION_FAILED"}
    BY <1>6
  <2>2. Unresolved' = {}
    BY <1>2, OutsideWork
  <2>3. Working'
    <3>1. stage' = "between" => \A i \in 1 .. done' : Applicable(drafts'[i], plan'[i])
      BY <1>10
    <3>. QED BY <1>10, <2>1, <2>2, <3>1 DEF Working, Searching, Applicable, IsMove, IsBuild, CanMove, CanPlace, Occupied, Cells
  <2>. QED BY <1>10, <2>1, <2>3 DEF RoadsKnown
<1>12. ServedAllAlong'
  <2>. SUFFICES ASSUME changes = 0, NEW b \in Building, Served(baseline, b), Served(target, b)
                PROVE  Served(known', b)
    BY DEF ServedAllAlong, Served, Cells
  <2>1. Served(known, b)
    BY <1>1 DEF ServedAllAlong
  <2>2. Served(expected, b)
    BY <1>2, <1>3, <1>4, <2>1, ServedOn
  <2>3. live.roads \in {known.roads, expected.roads}
    BY <1>1 DEF RoadsKnown, expected
  \* If the action had no effect on the roads, then a move was due, or nothing has changed.
  <2>4. Served(scanned, b)
    <3>1. CASE live.roads = expected.roads
      BY <1>7, <2>2, <3>1, ServedWhere
    <3>2. CASE live.roads = known.roads /\ IsMove(TheStep.id)
      <4>1. expected.roads = known.roads
        BY <1>4, <1>5, <3>2, AppliedFields DEF expected
      <4>. QED BY <1>7, <2>2, <3>2, <4>1, ServedWhere
    <3>3. CASE live.roads = known.roads /\ ~ IsMove(TheStep.id)
      <4>1. expected.at = known.at
        BY <1>4, <1>5, <3>3, AppliedFields DEF expected
      <4>. QED BY <1>7, <2>1, <3>3, <4>1, ServedWhere
    <3>. QED BY <2>3, <3>1, <3>2, <3>3
  <2>. HIDE DEF scanned
  <2>. QED BY <1>6, <2>1, <2>4
<1>13. /\ stage' \in Stages' /\ stage' # "raised" /\ stage' # "PRECONDITION_FAILED"
       /\ done' \in 0 .. Len(plan') /\ changes' \in 0 .. MaxChanges
  BY <1>1, <1>6, <1>10 DEF Stages, Ended
<1>. QED BY <1>8, <1>9, <1>11, <1>12, <1>13 DEF WorkInv

\* Work begins only on the city the plan was made for (execution.py:57-76).
LEMMA FirstScanKeeps ==
  ASSUME SearchInv, PlanInv, WorkInv, FirstScan,
         UNCHANGED <<baseline, target, plan, drafts, live, done, changes>>
  PROVE  WorkInv'
<1>. DEFINE scanned == [baseline EXCEPT !.roads = live.roads]
<1>1. /\ Valid(live) /\ Valid(known) /\ done \in 0 .. Len(plan) /\ changes \in 0 .. MaxChanges
      /\ Working /\ ServedAllAlong /\ stage = "planned" /\ Unresolved = {}
      /\ Valid(baseline) /\ baseline \in City /\ live \in City
  BY MapsAreCities DEF WorkInv, FirstScan, Valid
<1>2. done = 0 /\ known = baseline /\ (changes = 0 => live = baseline)
  BY <1>1 DEF Working
<1>3. \/ Recognised(baseline) /\ known' = scanned /\ known' = baseline /\ stage' = "between"
      \/ Recognised(baseline) /\ known' = scanned /\ known' # baseline
           /\ stage' = "PRECONDITION_FAILED"
      \/ known' = known /\ stage' = "VERIFICATION_FAILED"
  BY DEF FirstScan, Report
<1>4. scanned.roads = live.roads /\ (live = baseline => scanned = baseline)
  BY <1>1 DEF City
<1>. HIDE DEF scanned
<1>5. Valid(known)'
  <2>1. CASE known' = known
    BY <1>1, <2>1, OutsideWork
  <2>2. CASE Recognised(baseline) /\ known' = scanned
    <3>1. Valid(scanned)
      BY <1>1, <2>2, RecognisedIsValid DEF scanned
    <3>. QED BY <2>2, <3>1 DEF Valid, City, Cells, Occupied
  <2>. QED BY <1>3, <2>1, <2>2
<1>6. Valid(live)'
  BY <1>1, OutsideWork
<1>7. drafts[1] = baseline /\ drafts'[1] = baseline /\ Unresolved' = {}
  BY <1>1, OutsideWork DEF PlanInv
<1>8. Working' /\ RoadsKnown'
  <2>1. stage' = "between" => known' = drafts'[done' + 1] /\ known'.roads = live'.roads
    BY <1>2, <1>3, <1>4, <1>7
  <2>2. stage' \in {"between", "PRECONDITION_FAILED", "VERIFICATION_FAILED"} /\ 1 .. done' = {}
    BY <1>2, <1>3
  <2>. QED BY <1>7, <2>1, <2>2 DEF Working, RoadsKnown, Searching
<1>9. ServedAllAlong'
  <2>1. changes = 0 => known' = baseline
    BY <1>2, <1>3, <1>4
  <2>. QED BY <2>1 DEF ServedAllAlong, Served, Cells
<1>10. /\ stage' \in Stages' /\ stage' # "raised"
       /\ stage' = "PRECONDITION_FAILED" => done' = 0 /\ known' # baseline'
       /\ done' \in 0 .. Len(plan') /\ changes' \in 0 .. MaxChanges
  BY <1>1, <1>2, <1>3 DEF Stages, Ended
<1>. QED BY <1>5, <1>6, <1>8, <1>9, <1>10 DEF WorkInv

\* No step is refused, unless a building is to stand on a road; and the end is reported
\* when all steps are done (execution.py:78-92, 168-180).
LEMMA ReportKeeps ==
  ASSUME SearchInv, PlanInv, PlanRuns, WorkInv, Refuse \/ ScanFails \/ Stop \/ Reject \/ Complete,
         UNCHANGED <<baseline, target, plan, drafts, live, done, changes>>
  PROVE  WorkInv'
<1>1. /\ Valid(live) /\ Valid(known) /\ done \in 0 .. Len(plan) /\ changes \in 0 .. MaxChanges
      /\ Working /\ ServedAllAlong /\ UNCHANGED known
  BY DEF WorkInv, Refuse, ScanFails, Stop, Reject, Complete
<1>2. /\ stage' \in Ended \ {"raised"}
      /\ stage' = "COMPLETE" => stage = "between" /\ done = Len(plan)
      /\ stage' = "PRECONDITION_FAILED" => Reject
  BY DEF Refuse, ScanFails, Stop, Reject, Complete, Report, Ended
<1>3. ASSUME Reject PROVE ReusesRoad
  <2>. SUFFICES ASSUME ~ ReusesRoad PROVE FALSE
    OBVIOUS
  <2>1. stage = "between" /\ done < Len(plan) /\ ~ Permitted
    BY <1>3 DEF Reject
  <2>2. Unresolved = {} /\ known = drafts[done + 1]
    BY <1>1, <2>1 DEF Working
  <2>3. done + 1 \in DOMAIN plan /\ TheStep = plan[done + 1] /\ 1 .. (done + 1) - 1 = 1 .. done
    BY <1>1, <2>1 DEF TheStep, PlanInv
  <2>4. Pending = {}
    BY <2>2 DEF Pending
  <2>5. Executes
    BY <2>1, <2>4 DEF PlanRuns, Searching
  <2>6. Applicable(known, TheStep)
    BY <2>2, <2>3, <2>5 DEF Executes
  <2>7. TheStep.after \subseteq Before(done + 1)
    BY <2>3 DEF PlanInv, StepsInOrder
  <2>8. Before(done + 1) = {plan[i].id : i \in 1 .. done}
    BY <2>3 DEF Before
  <2>. QED BY <2>1, <2>6, <2>7, <2>8 DEF Permitted
<1>4. Valid(live)' /\ Valid(known)' /\ ServedAllAlong' /\ ReusesRoad' = ReusesRoad
      /\ Unresolved' = Unresolved
  BY <1>1, OutsideWork
<1>5. Working'
  <2>1. CASE stage' = "COMPLETE"
    <3>1. /\ stage = "between" /\ done = Len(plan) /\ Unresolved = {}
          /\ known = drafts[done + 1]
          /\ \A i \in 1 .. done : Applicable(drafts[i], plan[i])
      BY <1>1, <1>2, <2>1 DEF Working
    <3>2. \A i \in 1 .. done' : Applicable(drafts'[i], plan'[i])
      BY <3>1
    <3>. QED BY <1>1, <1>4, <2>1, <3>1, <3>2
         DEF Working, Searching, Applicable, IsMove, IsBuild, CanMove, CanPlace, Occupied, Cells
  <2>2. CASE stage' # "COMPLETE"
    BY <1>2, <2>2 DEF Working, Searching, Ended
  <2>. QED BY <2>1, <2>2
<1>6. RoadsKnown'
  BY <1>2 DEF RoadsKnown, Ended
<1>7. stage' \in Stages' /\ done' \in 0 .. Len(plan') /\ changes' \in 0 .. MaxChanges
  BY <1>1, <1>2 DEF Stages
<1>8. stage' = "PRECONDITION_FAILED" => ReusesRoad'
  BY <1>2, <1>3, <1>4
<1>. QED BY <1>2, <1>4, <1>5, <1>6, <1>7, <1>8 DEF WorkInv

LEMMA RunKeeps ==
  ASSUME SiteInv, Run
  PROVE  SiteInv'
<1>1. SearchInv /\ PlanInv /\ PlanRuns /\ WorkInv /\ SearchInv'
  BY SiteInvParts, SearchOver
<1>2. UNCHANGED <<baseline, target, plan, drafts>>
  BY DEF Run, planVars
<1>3. /\ stage \in {"planned", "between", "acted"}
      /\ stage' \in {"between", "acted"} \union Ended
  BY DEF Run, Act, Verify, Refuse, FirstScan, ScanFails, Stop, Reject, Complete, Report, Ended
<1>4. PlanInv' /\ PlanRuns'
  BY <1>1, <1>2, <1>3, PlanMade
<1>5. WorkInv'
  <2>1. CASE Act
    BY <1>1, <1>2, <2>1, ActKeeps
  <2>2. CASE Verify /\ UNCHANGED <<live, changes>>
    BY <1>1, <1>2, <2>2, VerifyKeeps
  <2>3. CASE FirstScan /\ UNCHANGED <<live, done, changes>>
    BY <1>1, <1>2, <2>3, FirstScanKeeps
  <2>4. CASE (Refuse \/ ScanFails \/ Stop \/ Reject \/ Complete) /\ UNCHANGED <<live, done, changes>>
    BY <1>1, <1>2, <2>4, ReportKeeps
  <2>. QED BY <2>1, <2>2, <2>3, <2>4 DEF Run
<1>. QED BY <1>1, <1>4, <1>5, SiteInvParts, PTL

\* The player changes the city into another that CityMap accepts.
LEMMA PlayerKeeps ==
  ASSUME SiteInv, PlayerChanges
  PROVE  SiteInv'
<1>1. SearchInv /\ PlanInv /\ PlanRuns /\ WorkInv /\ SearchInv'
  BY SiteInvParts, SearchOver
<1>2. /\ UNCHANGED <<baseline, target, plan, drafts, known, done, stage>>
      /\ stage \in {"planned", "between", "acted"}
      /\ Valid(live') /\ changes < MaxChanges /\ changes' = changes + 1
  BY DEF PlayerChanges, searchVars, planVars
<1>3. PlanInv' /\ PlanRuns'
  BY <1>1, <1>2, PlanMade
<1>4. /\ Valid(known) /\ done \in 0 .. Len(plan) /\ changes \in 0 .. MaxChanges
      /\ Working /\ stage \in Stages
  BY <1>1 DEF WorkInv
<1>5. changes' \in 0 .. MaxChanges /\ changes' # 0
  BY <1>2, <1>4, SiteAssumption
<1>6. Valid(live)'
  BY <1>2 DEF Valid, City, Cells, Occupied
<1>7. Valid(known)' /\ Unresolved' = Unresolved
  BY <1>2, <1>4, OutsideWork
<1>8. Permitted' = Permitted
  BY <1>2 DEF Permitted, TheStep, Applicable, CanMove, CanPlace, Occupied, Cells
<1>9. Working'
  <2>1. stage \in {"between", "acted", "COMPLETE"} =>
          /\ Unresolved' = {}
          /\ known' = drafts'[done' + 1]
          /\ \A i \in 1 .. done' : Applicable(drafts'[i], plan'[i])
    BY <1>2, <1>4, <1>7 DEF Working
  <2>. QED BY <1>2, <1>4, <1>5, <1>8, <2>1 DEF Working, Searching, Applicable, IsMove, IsBuild,
                                             CanMove, CanPlace, Occupied, Cells
<1>10. RoadsKnown' /\ ServedAllAlong'
  BY <1>5 DEF RoadsKnown, ServedAllAlong
<1>11. WorkInv'
  BY <1>2, <1>4, <1>5, <1>6, <1>7, <1>9, <1>10 DEF WorkInv, Stages
<1>. QED BY <1>1, <1>3, <1>11, SiteInvParts, PTL

LEMMA IdleKeeps ==
  ASSUME SiteInv, Finished \/ UNCHANGED vars
  PROVE  SiteInv'
<1>1. SearchInv /\ PlanInv /\ PlanRuns /\ WorkInv /\ SearchInv'
  BY SiteInvParts, SearchOver
<1>2. UNCHANGED <<baseline, target, plan, drafts, known, done, stage, live, changes>>
  BY DEF Finished, vars, searchVars, planVars, siteVars
<1>3. PlanInv' /\ PlanRuns'
  BY <1>1, <1>2, PlanMade
<1>4. Valid(live)' = Valid(live) /\ Valid(known)' = Valid(known) /\ Unresolved' = Unresolved
      /\ ReusesRoad' = ReusesRoad /\ (ServedAllAlong => ServedAllAlong')
  BY <1>2, OutsideWork
<1>5. Permitted' = Permitted /\ Applied(known, TheStep)' = Applied(known, TheStep)
  BY <1>2 DEF Permitted, TheStep, Applicable, Applied, Moved, CanMove, CanPlace, Occupied, Cells
<1>6. Working => Working'
  BY <1>2, <1>4, <1>5 DEF Working, Searching, Applicable, IsMove, IsBuild, CanMove, CanPlace,
                          Occupied, Cells
<1>7. RoadsKnown => RoadsKnown'
  BY <1>2, <1>5 DEF RoadsKnown
<1>8. WorkInv'
  BY <1>1, <1>2, <1>4, <1>6, <1>7 DEF WorkInv, Stages
<1>. QED BY <1>1, <1>3, <1>8, SiteInvParts, PTL

\* The inductive invariant of the pipeline holds throughout, for any city, any layout found
\* and any player.
THEOREM SiteInvariant == Spec => []SiteInv
<1>1. SiteInv /\ [Next]_vars => SiteInv'
  BY SearchingKeeps, PlanningKeeps, RunKeeps, PlayerKeeps, IdleKeeps DEF Next
<1>. QED BY SiteStart, <1>1, PTL DEF Spec

\* The types, and that the live city and the one known are cities that CityMap accepts.
THEOREM SiteTypes == Spec => []SiteTypeOK
<1>1. SiteInv => SiteTypeOK
  BY DEF SiteInv
<1>. QED BY SiteInvariant, <1>1, PTL

\* In a city left to the plan a building with road access before and after has it at each
\* step between (construction.py:95-118, staging.py:199-231).
THEOREM ServedThroughout == Spec => []ServedAllAlong
<1>1. SiteInv => ServedAllAlong
  BY DEF SiteInv
<1>. QED BY SiteInvariant, <1>1, PTL

\* When all steps are planned, the last draft is the map proposed.
LEMMA AllPlanned ==
  ASSUME SearchInv, PlanInv, Unresolved = {}
  PROVE  Now = target
<1>0. Now \in City /\ target \in City /\ baseline \in City /\ Steps \subseteq Planned
  BY MapsAreCities, NowTells DEF Unresolved
<1>1. ASSUME NEW b \in Building PROVE Now.at[b] = target.at[b]
  <2>1. CASE b \in MovedOnes
    <3>1. MoveOf(b) \in Planned
      BY <1>0, <2>1 DEF Steps, Moves
    <3>. QED BY <3>1, NowTells
  <2>2. CASE b \notin MovedOnes
    BY <2>2, NowTells
  <2>. QED BY <2>1, <2>2
<1>2. ASSUME NEW q \in target.roads PROVE q \in Now.roads
  <2>1. q \notin baseline.roads => RoadNew(q) \in Planned
    BY <1>0 DEF Steps, Builds
  <2>. QED BY <2>1, NowTells
<1>3. ASSUME NEW q \in Now.roads PROVE q \in target.roads
  <2>. SUFFICES ASSUME q \notin target.roads PROVE FALSE
    OBVIOUS
  <2>1. q \in baseline.roads
    BY NowTells
  <2>2. RoadGone(q) \in Planned
    BY <1>0, <2>1 DEF Steps, Removes
  <2>3. q \in Point
    BY <1>0, <2>1 DEF City
  <2>4. /\ Now.roads = (baseline.roads \union {p \in Point : RoadNew(p) \in Planned})
                         \ {p \in Point : RoadGone(p) \in Planned}
    <3>1. Len(plan) + 1 \in DOMAIN drafts
      BY DEF PlanInv
    <3>. QED BY <3>1, BeforeEnd DEF PlanInv, DraftsFollow
  <2>. QED BY <2>2, <2>3, <2>4
<1>4. Now.roads = target.roads
  BY <1>2, <1>3
<1>5. Now.at = target.at
  BY <1>0, <1>1 DEF City
<1>. QED BY <1>0, <1>4, <1>5 DEF City

\* COMPLETE is only reported of the map proposed, as scanned (execution.py:168-180).
THEOREM CompleteMeansTarget == Spec => []CompleteIsTarget
<1>1. SiteInv => CompleteIsTarget
  <2>. SUFFICES ASSUME SiteInv, stage = "COMPLETE" PROVE known = target
    BY DEF CompleteIsTarget
  <2>1. SearchInv /\ PlanInv /\ Working
    BY DEF SiteInv
  <2>2. Unresolved = {} /\ known = drafts[done + 1] /\ done = Len(plan)
    BY <2>1 DEF Working
  <2>3. known = Now
    BY <2>1, <2>2, BeforeEnd
  <2>. QED BY <2>1, <2>2, <2>3, AllPlanned
<1>. QED BY SiteInvariant, <1>1, PTL

\* A building that is to stand on a road never comes there: the road is removed after its
\* move (construction.py:95-118).
LEMMA NeverOnRoads ==
  ASSUME SearchInv, PlanInv, Working, ReusesRoad
  PROVE  stage # "COMPLETE"
<1>. SUFFICES ASSUME stage = "COMPLETE" PROVE FALSE
  OBVIOUS
<1>0. /\ Unresolved = {} /\ done = Len(plan) /\ Len(plan) \in Nat /\ DOMAIN plan = 1 .. Len(plan)
      /\ \A i \in DOMAIN plan : Applicable(drafts[i], plan[i])
      /\ target \in City /\ baseline \in City /\ Spread(baseline)
  BY MapsAreCities DEF Working, PlanInv
<1>1. PICK b \in Building, p \in baseline.roads : p \in Cells(target, b)
  BY DEF ReusesRoad
<1>2. b \in MovedOnes
  BY <1>0, <1>1 DEF MovedOnes, Spread, Cells
<1>3. MoveOf(b) \in Moves /\ MoveOf(b) \in Steps /\ MoveOf(b) \in Planned
  BY <1>0, <1>2 DEF Moves, Steps, Unresolved
<1>4. PICK i \in DOMAIN plan : plan[i].id = MoveOf(b)
  BY <1>3 DEF Planned
<1>5. /\ MoveOf(b)[2] = b /\ IsMove(MoveOf(b)) /\ plan[i].to = target.at[b]
      /\ MoveOf(b) \notin Before(i)
  <2>1. MoveOf(b)[2] = b /\ IsMove(MoveOf(b))
    BY MoveNames
  <2>. QED BY <1>3, <1>4, <2>1 DEF PlanInv, StepsInOrder
<1>6. CanPlace(drafts[i], b, target.at[b])
  BY <1>0, <1>4, <1>5, ApplicableCases DEF CanMove
<1>7. p \notin drafts[i].roads
  BY <1>1, <1>6 DEF CanPlace, Occupied, Cells
<1>8. i \in DOMAIN drafts
  BY <1>0 DEF PlanInv
<1>9. RoadGone(p) \in Before(i)
  BY <1>1, <1>7, <1>8, DraftTells
<1>10. PICK j \in 1 .. i - 1 : plan[j].id = RoadGone(p)
  BY <1>9 DEF Before
<1>11. j \in DOMAIN plan /\ j < i /\ j \in Nat /\ i \in Nat
  BY <1>0, <1>10
<1>12. RoadGone(p) \in Removes
  <2>1. RoadGone(p) \in Named /\ p \in Point
    BY <1>0, <1>1, <1>8, <1>9, DraftTells DEF City
  <2>2. p \in baseline.roads \ target.roads
    BY <1>0, <2>1, StepKinds
  <2>. QED BY <2>2 DEF Removes
<1>13. MoveOf(b) \in Before(j)
  BY <1>3, <1>10, <1>11, <1>12 DEF PlanInv, StepsInOrder
<1>14. Before(j) \subseteq Before(i)
  BY <1>11 DEF Before
<1>. QED BY <1>5, <1>13, <1>14

\* Every plan can be built, and no step is refused in a city that nobody else changed,
\* unless a building is to stand on a road; then the plan is never built to its end
\* (construction.py:126-127, execution.py:78-92).
THEOREM PlansExecuteOffRoads == Spec => []PlanExecutesOffRoads
<1>1. SiteInv => PlanExecutesOffRoads
  BY NeverOnRoads DEF SiteInv, PlanExecutesOffRoads
<1>. QED BY SiteInvariant, <1>1, PTL

-----------------------------------------------------------------------------
(* What the executor does not see                                         *)

\* Only between an action and its scan, or in the report made of it, may the
\* executor have acted on a city it does not know.
BlindInv ==
  /\ changes \in Nat
  /\ blind \in {0, 1}
  /\ blind = 1 => stage \in {"acted"} \union Ended
  /\ stage = "between" /\ changes = 0 => Alike(known, live)

\* The work begins with the city as it is known (execution.py:66-76).
LEMMA BlindInit == Init => BlindInv
  BY DEF Init, SearchInit, BlindInv, Ended

\* The search and the plan come before the work, and act on nothing
\* (joint_optimizer.py:56-96, construction.py:47-167, staging.py:32-146).
LEMMA BeforeWork ==
  ASSUME BlindInv,
         \/ SearchStep /\ UNCHANGED <<planVars, siteVars>>
         \/ Plan
  PROVE  BlindInv'
<1>1. CASE SearchStep /\ UNCHANGED <<planVars, siteVars>>
  <2>1. stage \in Searching /\ stage' \in Searching
    BY <1>1 DEF SearchStep, Relocate, RemoveRoad, ReworkRoads, RepairAccess, Repaired,
                NextRound, Searching
  <2>. QED BY <1>1, <2>1 DEF BlindInv, Ended, siteVars, Searching
<1>2. CASE Plan
  <2>1. /\ stage \in {"buildings", "roads", "ordering", "staging", "following"}
        /\ stage' \in {"ordering", "staging", "following", "planned", "raised"}
    BY <1>2 DEF Plan, StartPlan, Searched, PlanStep, Order, Ordered, GoNow, PutAside,
                LoopEnds, Follow, Resolved, searchVars
  <2>. QED BY <1>2, <2>1 DEF Plan, BlindInv, Ended, siteVars
<1>. QED BY <1>1, <1>2

\* The executor acts only between two steps, and goes on only when the scan
\* shows what it expects (execution.py:78-91, 119-166).
LEMMA AtWork ==
  ASSUME BlindInv, Run
  PROVE  BlindInv'
<1>1. CASE Act
  BY <1>1 DEF Act, BlindInv, Ended
<1>2. CASE Verify /\ blind' = (IF Alike(known', live) THEN 0 ELSE blind)
             /\ UNCHANGED <<live, changes>>
  <2>1. stage' \in {"between", "VERIFICATION_FAILED"}
    BY <1>2 DEF Verify, Report
  <2>2. stage' = "between" => Alike(known', live)
    BY <1>2 DEF Verify, Report, Recognised
  <2>. QED BY <1>2, <2>1, <2>2 DEF BlindInv, Ended, Alike
<1>3. CASE FirstScan /\ UNCHANGED <<live, done, changes, blind>>
  <2>1. stage = "planned" /\ stage' \in {"between", "PRECONDITION_FAILED", "VERIFICATION_FAILED"}
    BY <1>3 DEF FirstScan, Report
  <2>2. stage' = "between" => Alike(known', live)
    BY <1>3 DEF FirstScan, Report, Recognised
  <2>. QED BY <1>3, <2>1, <2>2 DEF BlindInv, Ended, Alike
<1>4. CASE (Refuse \/ ScanFails \/ Stop \/ Reject \/ Complete)
             /\ UNCHANGED <<live, done, changes, blind>>
  <2>1. stage' \in Ended
    BY <1>4 DEF Refuse, ScanFails, Stop, Reject, Complete, Report, Ended
  <2>. QED BY <1>4, <2>1 DEF BlindInv, Ended
<1>. QED BY <1>1, <1>2, <1>3, <1>4 DEF Run

\* The invariant holds throughout.
THEOREM BlindInvariant == Spec => []BlindInv
<1>1. BlindInv /\ [Next]_vars => BlindInv'
  <2>. SUFFICES ASSUME BlindInv, [Next]_vars PROVE BlindInv'
    OBVIOUS
  <2>1. CASE (SearchStep /\ UNCHANGED <<planVars, siteVars>>) \/ Plan
    BY <2>1, BeforeWork
  <2>2. CASE Run
    BY <2>2, AtWork
  <2>3. CASE PlayerChanges
    BY <2>3 DEF PlayerChanges, BlindInv, searchVars
  <2>4. CASE Finished \/ UNCHANGED vars
    BY <2>4 DEF Finished, vars, searchVars, siteVars, BlindInv, Alike
  <2>. QED BY <2>1, <2>2, <2>3, <2>4 DEF Next
<1>. QED BY BlindInit, <1>1, PTL DEF Spec

\* At most one action is performed on a city that differs from the one known,
\* and none while nobody else changes it (execution.py:130-166).
THEOREM NoticedAtTheNextScan == Spec => []OneStepBlind
<1>1. BlindInv => OneStepBlind
  BY DEF BlindInv, OneStepBlind
<1>. QED BY BlindInvariant, <1>1, PTL
=============================================================================
