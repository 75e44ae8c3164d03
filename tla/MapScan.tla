------------------------------- MODULE MapScan -------------------------------
(***************************************************************************)
(* Reading a city map from screenshots: run_scan of vision/map_app.py.     *)
(* Each screenshot, a tile of the map, is scanned on its own by the        *)
(* template detectors (vision/map_detectors.py) and becomes a small        *)
(* CityMap; then CityMapMerger (vision/map_merge.py) puts the tiles        *)
(* together.  A building that is not wholly inside a tile cannot be        *)
(* detected there.                                                         *)
(*                                                                         *)
(* A detection is a template and the origin of the building it matched.    *)
(* The city that the screenshots show does not change meanwhile: they are  *)
(* files.                                                                  *)
(***************************************************************************)
EXTENDS Integers, Sequences, FiniteSets

CONSTANTS
  Width, Height,   \* global_size of the configuration
  Template,        \* the building templates, by their id prefixes
  Size,            \* the width and height of each template's prototype
  Views,           \* the lists of tiles that may be configured
  Cities,          \* the cities that may be on the screenshots
  MaxSlips         \* bound: on what the detectors get wrong in a run

Grid == INSTANCE CityGrid WITH Building <- Template, Movable <- Template, Blocked <- {}

\* TileConfig: where the tile lies, and the size of its calibrated grid.
Tile == [origin : Nat \X Nat, width : Nat \ {0}, height : Nat \ {0}]

\* Detection, with the origin of the building relative to the tile or the map.
Detection == Template \X (Nat \X Nat)

ASSUME MapAssumption ==
  /\ Width \in Nat \ {0}
  /\ Height \in Nat \ {0}
  /\ Size \in [Template -> [width : Nat \ {0}, height : Nat \ {0}]]
  /\ Views \subseteq Seq(Tile) \ {<<>>}
  /\ \A c \in Cities :
       /\ c.roads \subseteq Nat \X Nat
       /\ c.blocked \subseteq Nat \X Nat
       /\ c.buildings \subseteq Detection
  /\ MaxSlips \in Nat

VARIABLES
  view,       \* the configured tiles
  city,       \* what the screenshots show
  stage,
  tile,       \* index of the tile that is being scanned or merged
  slips,      \* what the detectors have got wrong so far
  cells,      \* the roads and the blocked cells detected in the tile
  matched,    \* the candidates that are not yet sorted out
  found,      \* the buildings detected in the tile, best match first
  scans,      \* the CityMap of each tile that is scanned
  roads, blocked, accepted,   \* of the merged map
  position    \* how many buildings of the tile are merged

scanVars == <<slips, cells, matched, found, scans>>
mergeVars == <<roads, blocked, accepted, position>>
vars == <<view, city, stage, tile, scanVars, mergeVars>>

Init ==
  /\ view \in Views
  /\ city \in Cities
  /\ stage = "looking"
  /\ tile = 1
  /\ slips = 0
  /\ cells = [roads |-> {}, blocked |-> {}]
  /\ matched = {}
  /\ found = <<>>
  /\ scans = <<>>
  /\ roads = {}
  /\ blocked = {}
  /\ accepted = {}
  /\ position = 0

-----------------------------------------------------------------------------
(* Places                                                                  *)

\* From a place in the tile to the place on the map.
Shift(p, t) == <<p[1] + t.origin[1], p[2] + t.origin[2]>>

ShiftAll(S, t) == {Shift(p, t) : p \in S}

\* _translate_building; the id is the prefix, and the place, again.
Translated(d, t) == <<d[1], Shift(d[2], t)>>

Footprint(d) == Grid!Footprint(d[1], d[2])

Overlap(d, e) == Footprint(d) \intersect Footprint(e) # {}

\* What CityMap.__post_init__ demands of the buildings.
Consistent(roadCells, blockedCells, buildings, inside) ==
  /\ roadCells \union blockedCells \subseteq inside
  /\ \A d \in buildings :
       /\ Footprint(d) \subseteq inside
       /\ Footprint(d) \intersect (roadCells \union blockedCells) = {}
       /\ \A e \in buildings : d = e \/ ~ Overlap(d, e)

\* The screenshots show a city that is a map: no building stands on another one, on a
\* road or on a blocked cell.
ASSUME CitiesAreMaps ==
  \A c \in Cities : Consistent(c.roads, c.blocked, c.buildings, Grid!Point)

LocalGrid(t) == (0 .. t.width - 1) \X (0 .. t.height - 1)

-----------------------------------------------------------------------------
(* One tile                                                                *)

\* Mutant: the last row and the last column of origins are not tried.
Fitting_OffByOne(t) ==
  {d \in Template \X LocalGrid(t) :
     /\ d[2][1] < t.width - Size[d[1]].width
     /\ d[2][2] < t.height - Size[d[1]].height}

\* The candidates: each template at each origin where it fits the tile.
Fitting(t) ==
  {d \in Template \X LocalGrid(t) :
     /\ d[2][1] <= t.width - Size[d[1]].width
     /\ d[2][2] <= t.height - Size[d[1]].height}

\* The buildings and the cells of the city that the tile shows.
Whole(t) == {d \in Fitting(t) : Translated(d, t) \in city.buildings}

Shown(S, t) == {p \in LocalGrid(t) : Shift(p, t) \in S}

\* The detectors on one screenshot.  A template may also match beside a
\* building that is shown, with a lower score.
Look ==
  /\ stage = "looking"
  /\ LET t == view[tile]
         beside == {g \in Fitting(t) \ Whole(t) : \E d \in Whole(t) : Overlap(d, g)}
     IN /\ cells' = [roads |-> Shown(city.roads, t), blocked |-> Shown(city.blocked, t)]
        /\ matched' \in {Whole(t)} \union {Whole(t) \union {g} : g \in beside}
  /\ stage' = "sorting"
  /\ UNCHANGED <<view, city, tile, slips, found, scans, mergeVars>>

\* They miss a building, a road or a blocked cell, or match one where none is.
Slip ==
  /\ stage = "sorting"
  /\ found = <<>>
  /\ slips < MaxSlips
  /\ slips' = slips + 1
  /\ \/ /\ \/ \E d \in matched : matched' = matched \ {d}
           \/ \E d \in Fitting(view[tile]) \ matched : matched' = matched \union {d}
        /\ UNCHANGED cells
     \/ /\ \E p \in LocalGrid(view[tile]), kind \in {"roads", "blocked"} :
             cells' = [cells EXCEPT ![kind] = IF p \in @ THEN @ \ {p} ELSE @ \union {p}]
        /\ UNCHANGED matched
  /\ UNCHANGED <<view, city, stage, tile, found, scans, mergeVars>>

\* The better score comes first: what is shown, before what matched beside it.
Best ==
  {c \in matched : \A d \in matched \intersect Whole(view[tile]) : d = c \/ ~ Overlap(d, c)}

\* Greedy: a candidate that overlaps a better one is dropped.
SortOut ==
  /\ stage = "sorting"
  /\ \E c \in Best :
       /\ matched' = matched \ {c}
       /\ found' = IF \E i \in 1 .. Len(found) : Overlap(found[i], c)
                   THEN found
                   ELSE Append(found, c)
  /\ UNCHANGED <<view, city, stage, tile, slips, cells, scans, mergeVars>>

Buildings(s) == {s[i] : i \in 1 .. Len(s)}

\* scan() makes a CityMap of it, which raises if a building is on a road.
Scanned ==
  /\ stage = "sorting"
  /\ matched = {}
  /\ IF Consistent(cells.roads, cells.blocked, Buildings(found), LocalGrid(view[tile]))
     THEN /\ scans' = Append(scans, [roads |-> cells.roads, blocked |-> cells.blocked,
                                     buildings |-> found])
          /\ IF tile = Len(view)
             THEN stage' = "merging" /\ tile' = 1
             ELSE stage' = "looking" /\ tile' = tile + 1
     ELSE stage' = "unreadable" /\ UNCHANGED <<tile, scans>>
  /\ found' = <<>>
  /\ UNCHANGED <<view, city, slips, cells, matched, mergeVars>>

-----------------------------------------------------------------------------
(* CityMapMerger.merge                                                     *)

\* _validate_tile_bounds
InBounds(t) ==
  /\ t.origin[1] + t.width <= Width
  /\ t.origin[2] + t.height <= Height

\* Mutant: the bounds are not looked at.
MergeCells_Unchecked ==
  /\ stage = "merging"
  /\ roads' = roads \union ShiftAll(scans[tile].roads, view[tile])
  /\ blocked' = blocked \union ShiftAll(scans[tile].blocked, view[tile])
  /\ stage' = "joining"
  /\ UNCHANGED <<accepted, position>>

MergeCells ==
  /\ stage = "merging"
  /\ IF InBounds(view[tile])
     THEN /\ roads' = roads \union ShiftAll(scans[tile].roads, view[tile])
          /\ blocked' = blocked \union ShiftAll(scans[tile].blocked, view[tile])
          /\ stage' = "joining"
     ELSE stage' = "conflict" /\ UNCHANGED <<roads, blocked>>
  /\ UNCHANGED <<accepted, position>>

\* Mutant: what another template found at the same place is a duplicate too.
Duplicate_AnyTemplate(d) == \E e \in accepted : Footprint(d) = Footprint(e)

\* _find_duplicate: the same prefix and footprint; the prefix, in which no '@' is
\* written, gives the template and so the kind.
Duplicate(d) == \E e \in accepted : d[1] = e[1] /\ Footprint(d) = Footprint(e)

MergeBuilding ==
  /\ stage = "joining"
  /\ position < Len(scans[tile].buildings)
  /\ LET d == Translated(scans[tile].buildings[position + 1], view[tile]) IN
     IF Duplicate(d)
     THEN position' = position + 1 /\ UNCHANGED <<stage, accepted>>
     ELSE IF \E e \in accepted : Overlap(d, e)
     THEN stage' = "conflict" /\ UNCHANGED <<accepted, position>>
     ELSE /\ accepted' = accepted \union {d}
          /\ position' = position + 1
          /\ UNCHANGED stage
  /\ UNCHANGED <<roads, blocked>>

NextTile ==
  /\ stage = "joining"
  /\ position = Len(scans[tile].buildings)
  /\ tile < Len(view)
  /\ tile' = tile + 1
  /\ position' = 0
  /\ stage' = "merging"
  /\ UNCHANGED <<roads, blocked, accepted>>

\* The merged CityMap, and main() writes the file; it returns 2 when anything
\* was raised.
Write ==
  /\ stage = "joining"
  /\ position = Len(scans[tile].buildings)
  /\ tile = Len(view)
  /\ stage' = IF Consistent(roads, blocked, accepted, Grid!Point) THEN "written" ELSE "conflict"
  /\ UNCHANGED mergeVars

Merge ==
  /\ \/ MergeCells /\ UNCHANGED tile
     \/ MergeBuilding /\ UNCHANGED tile
     \/ NextTile
     \/ Write /\ UNCHANGED tile
  /\ UNCHANGED <<view, city, scanVars>>

Ended == stage \in {"written", "conflict", "unreadable"} /\ UNCHANGED vars

Next == Look \/ Slip \/ SortOut \/ Scanned \/ Merge \/ Ended

Spec == Init /\ [][Next]_vars

-----------------------------------------------------------------------------
(* Properties                                                              *)

\* The types: the merged map has only places of the map, and only buildings
\* that do not overlap (map_merge.py:41-50).
ScanTypeOK ==
  /\ stage \in {"looking", "sorting", "merging", "joining", "written", "conflict", "unreadable"}
  /\ tile \in 1 .. Len(view)
  /\ slips \in 0 .. MaxSlips
  /\ roads \union blocked \subseteq Grid!Point
  /\ \A d \in accepted :
       /\ Footprint(d) \subseteq Grid!Point
       /\ \A e \in accepted : d = e \/ ~ Overlap(d, e)

\* What all the tiles together show, in no order.
AllRoads == UNION {ShiftAll(scans[k].roads, view[k]) : k \in 1 .. Len(scans)}
AllBlocked == UNION {ShiftAll(scans[k].blocked, view[k]) : k \in 1 .. Len(scans)}
AllBuildings ==
  UNION {{Translated(scans[k].buildings[i], view[k]) : i \in 1 .. Len(scans[k].buildings)} :
           k \in 1 .. Len(scans)}

\* Neither the order of the tiles nor that of the detections decides anything:
\* the map written is all that the tiles show, and it is refused just when
\* two of them disagree on a building, or a tile is not on the map
\* (map_merge.py:27-122).
MergeIsUnion ==
  /\ stage = "written" =>
       roads = AllRoads /\ blocked = AllBlocked /\ accepted = AllBuildings
  /\ stage \in {"written", "conflict"} =>
       (stage = "written" <=>
          /\ \A k \in 1 .. Len(view) : InBounds(view[k])
          /\ Consistent(AllRoads, AllBlocked, AllBuildings, Grid!Point))

\* Each cell is on a tile, and each building wholly on one.
Covered ==
  /\ \A k \in 1 .. Len(view) : InBounds(view[k])
  /\ Grid!Point = UNION {ShiftAll(LocalGrid(view[k]), view[k]) : k \in 1 .. Len(view)}
  /\ \A b \in city.buildings :
       \E k \in 1 .. Len(view) : Footprint(b) \subseteq ShiftAll(LocalGrid(view[k]), view[k])

\* With detectors that do not slip, and tiles that leave nothing out, the scan
\* succeeds and the map is the city, though tiles overlap and cut buildings,
\* and templates match beside them.
ExactScanIsCity ==
  slips = 0 /\ Covered =>
    /\ stage \notin {"conflict", "unreadable"}
    /\ stage = "written" =>
         roads = city.roads /\ blocked = city.blocked /\ accepted = city.buildings

-----------------------------------------------------------------------------
(* The inductive invariant of a scan without slips.                        *)

\* The CityMap of a tile is what the city has there.
ExactlyScanned(s, t) ==
  /\ s.roads = Shown(city.roads, t)
  /\ s.blocked = Shown(city.blocked, t)
  /\ Buildings(s.buildings) = Whole(t)

\* Each tile that is scanned was seen exactly.  In the tile under way no building that
\* it shows is lost, and what matched beside one is still to be dropped.
SeesTheCity ==
  /\ city \in Cities
  /\ slips = 0 =>
       /\ stage # "unreadable"
       /\ \A k \in 1 .. Len(scans) : ExactlyScanned(scans[k], view[k])
       /\ stage = "looking" => found = <<>>
       /\ stage = "sorting" =>
            LET t == view[tile] IN
            /\ cells = [roads |-> Shown(city.roads, t), blocked |-> Shown(city.blocked, t)]
            /\ Buildings(found) \subseteq Whole(t)
            /\ Whole(t) \subseteq Buildings(found) \union matched
            /\ \A c \in matched \ Whole(t) : \E d \in Whole(t) : Overlap(d, c)
=============================================================================
