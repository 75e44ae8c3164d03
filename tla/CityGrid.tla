------------------------------- MODULE CityGrid -------------------------------
(***************************************************************************)
(* The digital city map, city/map_model.py: a grid with road cells,        *)
(* blocked cells and rectangular buildings.  What the scorer reads of a    *)
(* building (population, radii, pollution, traffic) is left out.           *)
(*                                                                         *)
(* Buildings are numbers, ordered as their building_ids are.               *)
(***************************************************************************)
EXTENDS Integers, FiniteSets

CONSTANTS
  Width, Height,   \* of the city
  Building,
  Size,            \* the width and height of each building
  Movable,         \* the buildings whose spec is movable
  Blocked          \* the blocked cells

ASSUME GridAssumption ==
  /\ Width \in Nat \ {0}
  /\ Height \in Nat \ {0}
  /\ Building \subseteq Nat
  /\ Size \in [Building -> [width : Nat \ {0}, height : Nat \ {0}]]
  /\ Movable \subseteq Building
  /\ Blocked \subseteq (0 .. Width - 1) \X (0 .. Height - 1)

Point == (0 .. Width - 1) \X (0 .. Height - 1)

\* Of a CityMap, what can change: the roads and the origin of each building.
City == [roads : SUBSET Point, at : [Building -> Point]]

\* PlacedBuilding.footprint(), the building being at the given origin.
Footprint(b, origin) ==
  {<<origin[1] + dx, origin[2] + dy>> :
     dx \in 0 .. Size[b].width - 1, dy \in 0 .. Size[b].height - 1}

\* The cells next to a cell of S, in the city or not.
Beside(S) ==
  UNION {{<<p[1] - 1, p[2]>>, <<p[1] + 1, p[2]>>, <<p[1], p[2] - 1>>, <<p[1], p[2] + 1>>} :
           p \in S}

Cells(city, b) == Footprint(b, city.at[b])

Access(roads, S) == Beside(S) \intersect roads # {}

\* road_access
Served(city, b) == Access(city.roads, Cells(city, b))

\* occupied_cells
Occupied(city, except) ==
  city.roads \union Blocked \union UNION {Cells(city, b) : b \in Building \ {except}}

\* can_place, with require_road_access as every caller has it.
CanPlace(city, b, origin) ==
  /\ Footprint(b, origin) \subseteq Point
  /\ Footprint(b, origin) \intersect Occupied(city, b) = {}
  /\ Access(city.roads, Footprint(b, origin))

\* move_building raises unless this holds.
CanMove(city, b, origin) == b \in Movable /\ CanPlace(city, b, origin)

Moved(city, b, origin) == [city EXCEPT !.at[b] = origin]

\* What CityMap.__post_init__ demands of every map.
Valid(city) ==
  /\ city \in City
  /\ \A b \in Building :
       /\ Cells(city, b) \subseteq Point
       /\ Cells(city, b) \intersect Occupied(city, b) = {}

\* _roads_connected: no part of the roads is cut off from the rest.
Connected(roads) ==
  \A part \in (SUBSET roads) \ {{}, roads} : Beside(part) \intersect (roads \ part) # {}
=============================================================================
