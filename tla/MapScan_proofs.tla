---------------------------- MODULE MapScan_proofs ----------------------------
(***************************************************************************)
(* Theorems about MapScan, for any map, tiles, templates and cities, and   *)
(* however much the detectors get wrong: the merged map is well formed,    *)
(* and what becomes of a scan does not depend on any order.  And, when     *)
(* they get nothing wrong: the map is the city.                            *)
(***************************************************************************)
EXTENDS MapScan, TLAPS

\* The scan of a tile: places of the tile, and detections inside it.
TileScan(s, t) ==
  /\ s.buildings \in Seq(Detection)
  /\ s.roads \union s.blocked \subseteq LocalGrid(t)
  /\ \A i \in 1 .. Len(s.buildings) : Footprint(s.buildings[i]) \subseteq LocalGrid(t)

Merging == {"merging", "joining", "written", "conflict"}

\* The building that was detected as i-th in tile k, on the map.
Item(k, i) == Translated(scans[k].buildings[i], view[k])

\* How many tiles have their cells merged, and how many buildings of a tile.
TilesMerged == IF stage = "merging" THEN tile - 1 ELSE tile

MergedOf(k) == IF k = tile THEN position ELSE Len(scans[k].buildings)

Taken == UNION {{Item(k, i) : i \in 1 .. MergedOf(k)} : k \in 1 .. tile}

ScanPart ==
  /\ view \in Seq(Tile) \ {<<>>}
  /\ stage \in {"looking", "sorting", "merging", "joining", "written", "conflict", "unreadable"}
  /\ tile \in 1 .. Len(view)
  /\ slips \in 0 .. MaxSlips
  /\ matched \subseteq Detection
  /\ found \in Seq(Detection)
  /\ scans \in Seq([roads : SUBSET (Nat \X Nat), blocked : SUBSET (Nat \X Nat),
                    buildings : Seq(Detection)])
  /\ cells \in [roads : SUBSET (Nat \X Nat), blocked : SUBSET (Nat \X Nat)]
  /\ Len(scans) = IF stage \in Merging THEN Len(view) ELSE tile - 1
  /\ \A k \in 1 .. Len(scans) : TileScan(scans[k], view[k])

RoadsMerged ==
  /\ roads = UNION {ShiftAll(scans[k].roads, view[k]) : k \in 1 .. TilesMerged}
  /\ blocked = UNION {ShiftAll(scans[k].blocked, view[k]) : k \in 1 .. TilesMerged}

MergePart ==
  /\ stage \notin Merging => roads = {} /\ blocked = {} /\ accepted = {} /\ position = 0
  /\ stage = "merging" => position = 0
  /\ stage = "joining" => position \in 0 .. Len(scans[tile].buildings)
  /\ stage = "written" => tile = Len(view) /\ position = Len(scans[tile].buildings)
  /\ stage \in {"merging", "joining", "written"} =>
       /\ \A k \in 1 .. TilesMerged : InBounds(view[k])
       /\ RoadsMerged
       /\ accepted \subseteq Detection
       /\ accepted = Taken
  /\ roads \union blocked \subseteq Grid!Point
  /\ \A d \in accepted :
       /\ Footprint(d) \subseteq Grid!Point
       /\ \A e \in accepted : d = e \/ ~ Overlap(d, e)

ScanInv == ScanPart /\ MergePart /\ MergeIsUnion

-----------------------------------------------------------------------------
(* Places                                                                  *)

\* The places of a tile are places (map_scanner.py:111-113).
LEMMA TileGrid ==
  ASSUME NEW t \in Tile
  PROVE  LocalGrid(t) \subseteq Nat \X Nat
BY DEF Tile, LocalGrid

\* A building moved with its tile covers the cells moved with the tile.
LEMMA MovedFootprint ==
  ASSUME NEW t \in Tile, NEW d \in Detection
  PROVE  /\ Translated(d, t) \in Detection
         /\ Footprint(Translated(d, t)) = ShiftAll(Footprint(d), t)
<1>1. PICK x \in Nat, y \in Nat, k \in Template : d = <<k, <<x, y>>>>
  BY DEF Detection
<1>2. PICK a \in Nat, b \in Nat : t.origin = <<a, b>>
  BY DEF Tile
<1>3. Translated(d, t) = <<k, <<x + a, y + b>>>>
  BY <1>1, <1>2 DEF Translated, Shift
<1>4. Size[k] \in [width : Nat \ {0}, height : Nat \ {0}]
  BY MapAssumption
<1>5. Footprint(d) = {<<x + dx, y + dy>> : dx \in 0 .. Size[k].width - 1, dy \in 0 .. Size[k].height - 1}
  BY <1>1 DEF Footprint, Grid!Footprint
<1>6. Footprint(Translated(d, t)) =
        {<<x + a + dx, y + b + dy>> : dx \in 0 .. Size[k].width - 1, dy \in 0 .. Size[k].height - 1}
  BY <1>3 DEF Footprint, Grid!Footprint
<1>7. ASSUME NEW p \in Footprint(Translated(d, t)) PROVE p \in ShiftAll(Footprint(d), t)
  <2>1. PICK dx \in 0 .. Size[k].width - 1, dy \in 0 .. Size[k].height - 1 :
          p = <<x + a + dx, y + b + dy>>
    BY <1>6, <1>7
  <2>2. <<x + dx, y + dy>> \in Footprint(d)
    BY <1>5
  <2>3. p = Shift(<<x + dx, y + dy>>, t)
    BY <1>2, <1>4, <2>1 DEF Shift
  <2>. QED  BY <2>2, <2>3 DEF ShiftAll
<1>8. ASSUME NEW p \in ShiftAll(Footprint(d), t) PROVE p \in Footprint(Translated(d, t))
  <2>0. PICK q \in Footprint(d) : p = Shift(q, t)
    BY <1>8 DEF ShiftAll
  <2>1. PICK dx \in 0 .. Size[k].width - 1, dy \in 0 .. Size[k].height - 1 :
          q = <<x + dx, y + dy>>
    BY <1>5
  <2>2. p = <<(x + dx) + a, (y + dy) + b>>
    BY <1>2, <2>0, <2>1 DEF Shift
  <2>3. (x + dx) + a = x + a + dx /\ (y + dy) + b = y + b + dy
    BY <1>4, <2>1
  <2>. QED  BY <1>6, <2>2, <2>3
<1>. QED  BY <1>3, <1>7, <1>8 DEF Detection

\* A tile within the bounds has its cells on the map.
LEMMA OnTheMap ==
  ASSUME NEW t \in Tile, InBounds(t), NEW S, S \subseteq LocalGrid(t)
  PROVE  ShiftAll(S, t) \subseteq Grid!Point
<1>. SUFFICES ASSUME NEW p \in S PROVE Shift(p, t) \in Grid!Point
  BY DEF ShiftAll
<1>1. PICK x \in 0 .. t.width - 1, y \in 0 .. t.height - 1 : p = <<x, y>>
  BY DEF LocalGrid
<1>2. PICK a \in Nat, b \in Nat : t.origin = <<a, b>>
  BY DEF Tile
<1>3. t.width \in Nat /\ t.height \in Nat /\ Width \in Nat /\ Height \in Nat
  BY MapAssumption DEF Tile
<1>4. a + t.width <= Width /\ b + t.height <= Height
  BY <1>2 DEF InBounds
<1>5. Shift(p, t) = <<x + a, y + b>>
  BY <1>1, <1>2 DEF Shift
<1>6. x + a \in 0 .. Width - 1 /\ y + b \in 0 .. Height - 1
  BY <1>3, <1>4
<1>. QED  BY <1>5, <1>6 DEF Grid!Point

\* A template and the cells it covers are the detection.
LEMMA FootprintTells ==
  ASSUME NEW d \in Detection, NEW e \in Detection, d[1] = e[1], Footprint(d) = Footprint(e)
  PROVE  d = e
<1>1. PICK x \in Nat, y \in Nat, k \in Template : d = <<k, <<x, y>>>>
  BY DEF Detection
<1>2. PICK a \in Nat, b \in Nat : e = <<k, <<a, b>>>>
  BY <1>1 DEF Detection
<1>3. Size[k] \in [width : Nat \ {0}, height : Nat \ {0}]
  BY MapAssumption
<1>. DEFINE Cells(u, v) ==
       {<<u + dx, v + dy>> : dx \in 0 .. Size[k].width - 1, dy \in 0 .. Size[k].height - 1}
<1>4. Footprint(d) = Cells(x, y) /\ Footprint(e) = Cells(a, b)
  BY <1>1, <1>2 DEF Footprint, Grid!Footprint
<1>5. ASSUME NEW u \in Nat, NEW v \in Nat PROVE <<u, v>> \in Cells(u, v)
  <2>1. 0 \in 0 .. Size[k].width - 1 /\ 0 \in 0 .. Size[k].height - 1
    BY <1>3
  <2>2. u = u + 0 /\ v = v + 0
    BY <1>5
  <2>. QED  BY <2>1, <2>2
<1>6. ASSUME NEW u \in Nat, NEW v \in Nat, NEW r \in Nat, NEW s \in Nat, <<r, s>> \in Cells(u, v)
      PROVE  u <= r /\ v <= s
  <2>1. PICK dx \in 0 .. Size[k].width - 1, dy \in 0 .. Size[k].height - 1 :
          <<r, s>> = <<u + dx, v + dy>>
    BY <1>6
  <2>2. r = u + dx /\ s = v + dy
    BY <2>1
  <2>3. dx \in Nat /\ dy \in Nat
    BY <1>3
  <2>4. u \in Nat /\ v \in Nat /\ r \in Nat /\ s \in Nat
    BY <1>6
  <2>. QED  BY ONLY <2>2, <2>3, <2>4
<1>. HIDE DEF Cells
<1>7. <<a, b>> \in Cells(x, y) /\ <<x, y>> \in Cells(a, b)
  BY <1>4, <1>5
<1>8. x <= a /\ y <= b /\ a <= x /\ b <= y
  BY <1>6, <1>7
<1>. QED  BY <1>1, <1>2, <1>8

\* A building covers at least a cell (map_model.py:63-68).
LEMMA Occupies ==
  ASSUME NEW d \in Detection
  PROVE  Footprint(d) # {}
<1>1. PICK x \in Nat, y \in Nat, k \in Template : d = <<k, <<x, y>>>>
  BY DEF Detection
<1>2. Size[k].width \in Nat \ {0} /\ Size[k].height \in Nat \ {0}
  BY MapAssumption
<1>3. 0 \in 0 .. Size[k].width - 1 /\ 0 \in 0 .. Size[k].height - 1
  BY ONLY <1>2
<1>4. Footprint(d) = {<<x + dx, y + dy>> : dx \in 0 .. Size[k].width - 1, dy \in 0 .. Size[k].height - 1}
  BY <1>1 DEF Footprint, Grid!Footprint
<1>5. <<x + 0, y + 0>> \in Footprint(d)
  BY ONLY <1>3, <1>4
<1>. QED  BY ONLY <1>5

-----------------------------------------------------------------------------
(* The scan of the tiles                                                   *)

\* Nothing is scanned or merged yet (map_app.py:111-119).
LEMMA InitScan == Init => ScanInv
<1>. SUFFICES ASSUME Init PROVE ScanInv
  OBVIOUS
<1>1. view \in Seq(Tile) \ {<<>>}
  BY MapAssumption DEF Init
<1>2. ScanPart
  BY <1>1, MapAssumption DEF Init, ScanPart, Merging
<1>3. MergePart
  BY DEF Init, MergePart, Merging
<1>4. MergeIsUnion
  BY DEF Init, MergeIsUnion
<1>. QED  BY <1>2, <1>3, <1>4 DEF ScanInv

\* What a tile can detect is a detection.
LEMMA FittingDetects ==
  ASSUME NEW t \in Tile
  PROVE  Fitting(t) \subseteq Detection /\ Whole(t) \subseteq Detection
BY TileGrid DEF Fitting, Whole, Detection

\* What matches in a tile is a detection (map_detectors.py:139-156).
LEMMA LookKeeps == ScanInv /\ Look => ScanInv'
<1>. SUFFICES ASSUME ScanInv, Look PROVE ScanInv'
  OBVIOUS
<1>. DEFINE t == view[tile]
<1>1. t \in Tile
  BY DEF ScanInv, ScanPart
<1>2. cells' \in [roads : SUBSET (Nat \X Nat), blocked : SUBSET (Nat \X Nat)]
  BY <1>1, TileGrid DEF Look, Shown
<1>3. matched' \subseteq Detection
  BY <1>1, FittingDetects DEF Look
<1>4. ScanPart'
  BY <1>2, <1>3 DEF ScanInv, ScanPart, Look, Merging, TileScan
<1>5. MergePart'
  BY DEF ScanInv, MergePart, Look, Merging, mergeVars, Overlap, Footprint
<1>. QED  BY <1>4, <1>5 DEF ScanInv, MergeIsUnion, Look

\* So is what matches by mistake.
LEMMA SlipKeeps == ScanInv /\ Slip => ScanInv'
<1>. SUFFICES ASSUME ScanInv, Slip PROVE ScanInv'
  OBVIOUS
<1>. DEFINE t == view[tile]
<1>1. t \in Tile
  BY DEF ScanInv, ScanPart
<1>2. cells' \in [roads : SUBSET (Nat \X Nat), blocked : SUBSET (Nat \X Nat)]
  <2>1. CASE UNCHANGED cells
    BY <2>1 DEF ScanInv, ScanPart
  <2>2. CASE \E p \in LocalGrid(t), kind \in {"roads", "blocked"} :
               cells' = [cells EXCEPT ![kind] = IF p \in @ THEN @ \ {p} ELSE @ \union {p}]
    <3>1. PICK p \in LocalGrid(t), kind \in {"roads", "blocked"} :
            cells' = [cells EXCEPT ![kind] = IF p \in @ THEN @ \ {p} ELSE @ \union {p}]
      BY <2>2
    <3>2. p \in Nat \X Nat
      BY <1>1, TileGrid
    <3>3. cells \in [roads : SUBSET (Nat \X Nat), blocked : SUBSET (Nat \X Nat)]
      BY DEF ScanInv, ScanPart
    <3>4. (IF p \in cells[kind] THEN cells[kind] \ {p} ELSE cells[kind] \union {p})
            \in SUBSET (Nat \X Nat)
      BY <3>2, <3>3
    <3>. QED  BY <3>1, <3>3, <3>4
  <2>. QED  BY <2>1, <2>2 DEF Slip
<1>3. matched' \subseteq Detection
  BY <1>1, FittingDetects DEF Slip, ScanInv, ScanPart
<1>4. slips' \in 0 .. MaxSlips
  BY MapAssumption DEF Slip, ScanInv, ScanPart
<1>5. ScanPart'
  BY <1>2, <1>3, <1>4 DEF ScanInv, ScanPart, Slip, Merging, TileScan
<1>6. MergePart'
  BY DEF ScanInv, MergePart, Slip, Merging, mergeVars, Overlap, Footprint
<1>. QED  BY <1>5, <1>6 DEF ScanInv, MergeIsUnion, Slip

\* The best candidates, in their order (map_detectors.py:158-174).
LEMMA SortOutKeeps == ScanInv /\ SortOut => ScanInv'
<1>. SUFFICES ASSUME ScanInv, SortOut PROVE ScanInv'
  OBVIOUS
<1>1. matched' \subseteq Detection /\ found' \in Seq(Detection)
  BY DEF SortOut, Best, ScanInv, ScanPart
<1>2. ScanPart'
  BY <1>1 DEF ScanInv, ScanPart, SortOut, Merging, TileScan
<1>3. MergePart'
  BY DEF ScanInv, MergePart, SortOut, Merging, mergeVars, Overlap, Footprint
<1>. QED  BY <1>2, <1>3 DEF ScanInv, MergeIsUnion, SortOut

\* The merge leaves the scans alone.
LEMMA ScansKept ==
  ASSUME ScanPart, UNCHANGED <<view, scans>>
  PROVE  (\A k \in 1 .. Len(scans) : TileScan(scans[k], view[k]))'
<1>. SUFFICES ASSUME NEW k \in 1 .. Len(scans) PROVE TileScan(scans[k], view[k])'
  OBVIOUS
<1>1. TileScan(scans[k], view[k]) /\ view' = view /\ scans' = scans
  BY DEF ScanPart
<1>. QED  BY ONLY <1>1 DEF TileScan

\* The scan of a tile lies in the tile, or is refused (map_scanner.py:157-167).
LEMMA ScannedKeeps == ScanInv /\ Scanned => ScanInv'
<1>. SUFFICES ASSUME ScanInv, Scanned PROVE ScanInv'
  OBVIOUS
<1>. DEFINE scan == [roads |-> cells.roads, blocked |-> cells.blocked, buildings |-> found]
<1>. USE DEF ScanInv
<1>1. CASE Consistent(cells.roads, cells.blocked, Buildings(found), LocalGrid(view[tile]))
  <2>1. scan \in [roads : SUBSET (Nat \X Nat), blocked : SUBSET (Nat \X Nat),
                  buildings : Seq(Detection)]
    BY DEF ScanPart
  <2>2. TileScan(scan, view[tile])
    BY <1>1, <2>1 DEF Consistent, Buildings, TileScan
  <2>3. scans' = Append(scans, scan) /\ Len(scans) = tile - 1 /\ UNCHANGED view
    BY <1>1 DEF Scanned, ScanPart, Merging, mergeVars
  <2>4. /\ scans' \in Seq([roads : SUBSET (Nat \X Nat), blocked : SUBSET (Nat \X Nat),
                           buildings : Seq(Detection)])
        /\ Len(scans') = tile
        /\ \A k \in 1 .. tile : TileScan(scans'[k], view[k])
    BY <2>1, <2>2, <2>3 DEF ScanPart
  <2>5. found' \in Seq(Detection)
    BY DEF Scanned
  <2>6. ScanPart'
    <3>0. (\A k \in 1 .. Len(scans) : TileScan(scans[k], view[k]))'
      <4>. SUFFICES ASSUME NEW k \in 1 .. tile PROVE TileScan(scans[k], view[k])'
        BY ONLY <2>3, <2>4
      <4>1. TileScan(scans'[k], view[k]) /\ view' = view
        BY ONLY <2>3, <2>4
      <4>. QED  BY ONLY <4>1 DEF TileScan
    <3>1. CASE tile = Len(view)
      <4>1. stage' = "merging" /\ tile' = 1
        BY <1>1, <3>1 DEF Scanned
      <4>. QED  BY <2>3, <2>4, <2>5, <3>0, <3>1, <4>1 DEF ScanPart, Scanned, Merging
    <3>2. CASE tile # Len(view)
      <4>1. stage' = "looking" /\ tile' = tile + 1
        BY <1>1, <3>2 DEF Scanned
      <4>. QED  BY <2>3, <2>4, <2>5, <3>0, <3>2, <4>1 DEF ScanPart, Scanned, Merging
    <3>. QED  BY <3>1, <3>2
  <2>7. MergePart'
    <3>0. stage \notin Merging /\ UNCHANGED mergeVars
      BY DEF Scanned, Merging
    <3>1. roads' = {} /\ blocked' = {} /\ accepted' = {} /\ position' = 0
      BY <3>0 DEF MergePart, mergeVars
    <3>2. CASE tile = Len(view)
      <4>1. stage' = "merging" /\ tile' = 1
        BY <1>1, <3>2 DEF Scanned
      <4>2. TilesMerged' = 0 /\ Taken' = {}
        BY <3>1, <4>1 DEF TilesMerged, Taken, MergedOf
      <4>. QED  BY <3>1, <4>1, <4>2 DEF MergePart, Merging, RoadsMerged
    <3>3. CASE tile # Len(view)
      <4>1. stage' = "looking"
        BY <1>1, <3>3 DEF Scanned
      <4>. QED  BY <3>1, <4>1 DEF MergePart, Merging
    <3>. QED  BY <3>2, <3>3
  <2>. QED  BY <1>1, <2>6, <2>7 DEF MergeIsUnion, Scanned
<1>2. CASE ~ Consistent(cells.roads, cells.blocked, Buildings(found), LocalGrid(view[tile]))
  <2>0. stage = "sorting" /\ stage' = "unreadable" /\ found' = <<>>
        /\ UNCHANGED <<view, tile, slips, cells, matched, scans>>
    BY <1>2 DEF Scanned
  <2>1. ScanPart'
    <3>1. (\A k \in 1 .. Len(scans) : TileScan(scans[k], view[k]))'
      BY <2>0, ScansKept
    <3>. QED  BY <2>0, <3>1 DEF ScanPart, Merging
  <2>2. MergePart'
    BY <1>2 DEF MergePart, Scanned, Merging, mergeVars, Overlap, Footprint
  <2>. QED  BY <1>2, <2>1, <2>2 DEF MergeIsUnion, Scanned
<1>. QED  BY <1>1, <1>2

-----------------------------------------------------------------------------
(* The merge                                                               *)

\* A building of a scanned tile, on the map.
LEMMA ItemOnMap ==
  ASSUME ScanPart, stage \in Merging,
         NEW k \in 1 .. Len(view), NEW i \in 1 .. Len(scans[k].buildings)
  PROVE  /\ Item(k, i) \in Detection
         /\ Item(k, i) \in AllBuildings
         /\ InBounds(view[k]) => Footprint(Item(k, i)) \subseteq Grid!Point
<1>1. view[k] \in Tile /\ Len(scans) = Len(view) /\ TileScan(scans[k], view[k])
  BY DEF ScanPart
<1>2. /\ scans[k].buildings[i] \in Detection
      /\ Footprint(scans[k].buildings[i]) \subseteq LocalGrid(view[k])
  BY <1>1 DEF TileScan
<1>3. Item(k, i) \in Detection /\ Footprint(Item(k, i)) = ShiftAll(Footprint(scans[k].buildings[i]), view[k])
  BY <1>1, <1>2, MovedFootprint DEF Item
<1>4. Item(k, i) \in AllBuildings
  BY <1>1 DEF AllBuildings, Item
<1>. QED  BY <1>1, <1>2, <1>3, <1>4, OnTheMap

\* What is not the building but covers its cells contradicts it.
LEMMA Contradiction ==
  ASSUME NEW d \in AllBuildings, NEW e \in AllBuildings, d # e, Overlap(d, e)
  PROVE  ~ Consistent(AllRoads, AllBlocked, AllBuildings, Grid!Point)
BY DEF Consistent

\* What is merged are detections of the tiles, in the end all of them
\* (map_merge.py:34-38).
LEMMA TakenAreAll ==
  ASSUME ScanPart, stage \in Merging, position \in 0 .. Len(scans[tile].buildings)
  PROVE  /\ Taken \subseteq AllBuildings
         /\ (tile = Len(view) /\ position = Len(scans[tile].buildings)) => Taken = AllBuildings
<1>1. Len(scans) = Len(view) /\ tile \in 1 .. Len(view) /\ Len(view) \in Nat
  BY DEF ScanPart
<1>2. \A k \in 1 .. tile : MergedOf(k) \in 0 .. Len(scans[k].buildings)
  BY <1>1 DEF MergedOf, ScanPart, TileScan
<1>3. Taken \subseteq AllBuildings
  <2>. SUFFICES ASSUME NEW d \in Taken PROVE d \in AllBuildings
    OBVIOUS
  <2>1. PICK k \in 1 .. tile : \E i \in 1 .. MergedOf(k) : d = Item(k, i)
    BY DEF Taken
  <2>1a. PICK i \in 1 .. MergedOf(k) : d = Item(k, i)
    BY <2>1
  <2>1b. k \in 1 .. Len(view) /\ Len(scans[k].buildings) \in Nat
    <3>1. k \in 1 .. Len(view) /\ k \in 1 .. Len(scans)
      BY ONLY <1>1, <2>1
    <3>2. TileScan(scans[k], view[k])
      BY <3>1 DEF ScanPart
    <3>. QED  BY <3>1, <3>2 DEF TileScan
  <2>1c. MergedOf(k) \in 0 .. Len(scans[k].buildings)
    BY <1>2
  <2>2. k \in 1 .. Len(view) /\ i \in 1 .. Len(scans[k].buildings)
    BY <2>1b, <2>1c
  <2>. QED  BY <2>1a, <2>2, ItemOnMap
<1>4. ASSUME tile = Len(view), position = Len(scans[tile].buildings)
      PROVE  AllBuildings \subseteq Taken
  <2>. SUFFICES ASSUME NEW d \in AllBuildings PROVE d \in Taken
    OBVIOUS
  <2>1. PICK k \in 1 .. tile : \E i \in 1 .. Len(scans[k].buildings) : d = Item(k, i)
    BY <1>1, <1>4 DEF AllBuildings, Item
  <2>2. MergedOf(k) = Len(scans[k].buildings)
    BY <1>4 DEF MergedOf
  <2>. QED  BY <2>1, <2>2 DEF Taken
<1>. QED  BY <1>3, <1>4

\* Nor does it change what a right outcome is.
Agreed ==
  /\ \A k \in 1 .. Len(view) : InBounds(view[k])
  /\ Consistent(AllRoads, AllBlocked, AllBuildings, Grid!Point)

\* Merging changes nothing in what the tiles show.
LEMMA AgreedKept ==
  ASSUME UNCHANGED <<view, scans>>
  PROVE  /\ AllRoads' = AllRoads /\ AllBlocked' = AllBlocked /\ AllBuildings' = AllBuildings
         /\ Agreed' <=> Agreed
<1>1. AllRoads' = AllRoads /\ AllBlocked' = AllBlocked /\ AllBuildings' = AllBuildings
  BY DEF AllRoads, AllBlocked, AllBuildings, ShiftAll, Translated, Shift
<1>2. Consistent(AllRoads, AllBlocked, AllBuildings, Grid!Point)'
        <=> Consistent(AllRoads, AllBlocked, AllBuildings, Grid!Point)
  BY <1>1 DEF Consistent, Overlap, Footprint, Grid!Footprint, Grid!Point
<1>3. (\A k \in 1 .. Len(view) : InBounds(view[k]))' <=> \A k \in 1 .. Len(view) : InBounds(view[k])
  BY DEF InBounds
<1>. QED  BY <1>1, <1>2, <1>3 DEF Agreed

\* The buildings of a merged map, unchanged or with one more.
LEMMA ApartKept ==
  ASSUME accepted' = accepted,
         \A d \in accepted :
           /\ Footprint(d) \subseteq Grid!Point
           /\ \A e \in accepted : d = e \/ ~ Overlap(d, e)
  PROVE  (\A d \in accepted :
            /\ Footprint(d) \subseteq Grid!Point
            /\ \A e \in accepted : d = e \/ ~ Overlap(d, e))'
BY DEF Overlap, Footprint

\* The roads and blocked cells of a tile are added (map_merge.py:34-37).
LEMMA MergeCellsKeeps ==
  ScanInv /\ MergeCells /\ UNCHANGED <<view, city, tile, scanVars>> => ScanInv'
<1>. SUFFICES ASSUME ScanInv, MergeCells, UNCHANGED <<view, city, tile, scanVars>> PROVE ScanInv'
  OBVIOUS
<1>. USE DEF ScanInv, scanVars
<1>0. /\ view[tile] \in Tile /\ TileScan(scans[tile], view[tile])
      /\ stage = "merging" /\ position = 0 /\ tile \in 1 .. Len(view) /\ Len(scans) = Len(view)
      /\ TilesMerged = tile - 1
  BY DEF MergeCells, ScanPart, MergePart, Merging, TilesMerged
<1>1. ScanPart'
  <2>1. (\A k \in 1 .. Len(scans) : TileScan(scans[k], view[k]))'
    BY ScansKept
  <2>. QED  BY <1>0, <2>1 DEF ScanPart, MergeCells, Merging
<1>2. CASE InBounds(view[tile])
  <2>1. /\ stage' = "joining" /\ UNCHANGED <<accepted, position>>
        /\ roads' = roads \union ShiftAll(scans[tile].roads, view[tile])
        /\ blocked' = blocked \union ShiftAll(scans[tile].blocked, view[tile])
    BY <1>2 DEF MergeCells
  <2>2. TilesMerged' = tile
    BY <2>1 DEF TilesMerged
  <2>3. 1 .. tile = (1 .. tile - 1) \union {tile}
    BY <1>0 DEF ScanPart
  <2>4. RoadsMerged'
    BY <1>0, <2>1, <2>2, <2>3, SMTT(30) DEF RoadsMerged, MergePart, ShiftAll, Shift
  <2>5. (\A k \in 1 .. TilesMerged : InBounds(view[k]))'
    BY <1>0, <1>2, <2>2, <2>3 DEF MergePart, InBounds
  <2>6. Taken' = Taken
    BY <2>1 DEF Taken, MergedOf, Item, Translated, Shift
  <2>7. roads' \union blocked' \subseteq Grid!Point
    BY <1>0, <1>2, <2>1, OnTheMap DEF TileScan, MergePart
  <2>8. position' \in 0 .. Len(scans'[tile'].buildings)
    BY <1>0, <2>1 DEF TileScan
  <2>9. MergePart'
    BY <1>0, <2>1, <2>4, <2>5, <2>6, <2>7, <2>8 DEF MergePart, Merging, Overlap, Footprint
  <2>. QED  BY <1>1, <2>1, <2>9 DEF MergeIsUnion
<1>3. CASE ~ InBounds(view[tile])
  <2>1. stage' = "conflict" /\ UNCHANGED <<roads, blocked, accepted, position>>
    BY <1>3 DEF MergeCells
  <2>2. MergePart'
    BY <2>1 DEF MergePart, Merging, Overlap, Footprint
  <2>3. MergeIsUnion'
    BY <1>0, <1>3, <2>1 DEF MergeIsUnion, InBounds
  <2>. QED  BY <1>1, <2>2, <2>3
<1>. QED  BY <1>2, <1>3

\* A building is added, is there already, or contradicts one (map_merge.py:38-50).
LEMMA MergeBuildingKeeps ==
  ScanInv /\ MergeBuilding /\ UNCHANGED <<view, city, tile, scanVars>> => ScanInv'
<1>. SUFFICES ASSUME ScanInv, MergeBuilding, UNCHANGED <<view, city, tile, scanVars>> PROVE ScanInv'
  OBVIOUS
<1>. USE DEF ScanInv, scanVars
<1>. DEFINE d == Item(tile, position + 1)
<1>0. /\ TileScan(scans[tile], view[tile])
      /\ stage = "joining" /\ tile \in 1 .. Len(view) /\ Len(scans) = Len(view)
      /\ position \in 0 .. Len(scans[tile].buildings)
      /\ position + 1 \in 1 .. Len(scans[tile].buildings)
      /\ TilesMerged = tile /\ UNCHANGED <<roads, blocked>>
  <2>1. stage = "joining" /\ position < Len(scans[tile].buildings) /\ UNCHANGED <<roads, blocked>>
    BY DEF MergeBuilding
  <2>2. /\ tile \in 1 .. Len(view) /\ Len(scans) = Len(view)
        /\ TileScan(scans[tile], view[tile])
    BY <2>1 DEF ScanPart, Merging
  <2>3. position \in 0 .. Len(scans[tile].buildings) /\ Len(scans[tile].buildings) \in Nat
    BY <2>1, <2>2 DEF MergePart, TileScan
  <2>. QED  BY <2>1, <2>2, <2>3 DEF TilesMerged
<1>1. (\A k \in 1 .. Len(scans) : TileScan(scans[k], view[k]))'
  BY ScansKept
<1>2. /\ InBounds(view[tile]) /\ accepted \subseteq Detection /\ accepted = Taken
      /\ Taken \subseteq AllBuildings
  BY <1>0, TakenAreAll DEF MergePart, Merging
<1>3. d \in Detection /\ d \in AllBuildings /\ Footprint(d) \subseteq Grid!Point
  BY <1>0, <1>2, ItemOnMap DEF Merging
<1>4. ASSUME stage' = "joining", accepted' = accepted \union {d}, position' = position + 1
      PROVE  accepted' = Taken'
  <2>1. ASSUME NEW e \in accepted' PROVE e \in Taken'
    <3>1. CASE e = d
      <4>1. PICK k \in 1 .. tile, i \in Nat : k = tile /\ i = position + 1
        BY <1>0
      <4>2. e = Item(k, i)'
        BY <3>1, <4>1 DEF Item, Translated, Shift
      <4>3. k \in (1 .. tile)' /\ MergedOf(k)' = i
        BY <1>4, <4>1 DEF MergedOf
      <4>4. i \in 1 .. MergedOf(k)'
        BY ONLY <1>0, <4>1, <4>3
      <4>. QED  BY ONLY <4>2, <4>3, <4>4 DEF Taken
    <3>2. CASE e \in Taken
      <4>1. PICK k \in 1 .. tile : \E i \in 1 .. MergedOf(k) : e = Item(k, i)
        BY <3>2 DEF Taken
      <4>2. PICK i \in 1 .. MergedOf(k) : e = Item(k, i)
        BY <4>1
      <4>3. i \in 1 .. MergedOf(k)'
        BY <1>0, <1>4, <4>2 DEF MergedOf
      <4>4. e = Item(k, i)'
        BY <4>2 DEF Item, Translated, Shift
      <4>. QED  BY <4>3, <4>4 DEF Taken
    <3>. QED  BY <1>2, <1>4, <2>1, <3>1, <3>2
  <2>2. ASSUME NEW e \in Taken' PROVE e \in accepted'
    <3>1. PICK k \in 1 .. tile : \E i \in 1 .. MergedOf(k)' : e = Item(k, i)
      BY <2>2 DEF Taken, Item, Translated, Shift
    <3>2. PICK i \in 1 .. MergedOf(k)' : e = Item(k, i)
      BY <3>1
    <3>3. CASE k = tile /\ i = position + 1
      BY <1>4, <3>2, <3>3
    <3>4. CASE ~ (k = tile /\ i = position + 1)
      <4>1. i \in 1 .. MergedOf(k)
        BY <1>0, <1>4, <3>2, <3>4 DEF MergedOf
      <4>. QED  BY <1>2, <1>4, <3>2, <4>1 DEF Taken
    <3>. QED  BY <3>3, <3>4
  <2>. QED  BY <2>1, <2>2
<1>5. d = Translated(scans[tile].buildings[position + 1], view[tile])
  BY DEF Item
<1>6. CASE Duplicate(d)
  <2>1. UNCHANGED <<stage, accepted>> /\ position' = position + 1
    BY <1>5, <1>6 DEF MergeBuilding
  <2>2. d \in accepted
    <3>1. PICK e \in accepted : d[1] = e[1] /\ Footprint(d) = Footprint(e)
      BY <1>6 DEF Duplicate
    <3>. QED  BY <1>2, <1>3, <3>1, FootprintTells
  <2>3. accepted' = Taken'
    BY <1>0, <1>4, <2>1, <2>2
  <2>4. ScanPart'
    BY <1>0, <1>1, <2>1 DEF ScanPart, Merging
  <2>5. TilesMerged' = TilesMerged /\ RoadsMerged' = RoadsMerged
    BY <1>0, <2>1 DEF TilesMerged, RoadsMerged, ShiftAll, Shift
  <2>6. (\A c \in accepted : /\ Footprint(c) \subseteq Grid!Point
                             /\ \A e \in accepted : c = e \/ ~ Overlap(c, e))'
    BY <2>1, ApartKept DEF MergePart
  <2>7. MergePart'
    BY <1>0, <1>2, <2>1, <2>3, <2>5, <2>6 DEF MergePart, Merging, InBounds
  <2>. QED  BY <1>0, <2>1, <2>4, <2>7 DEF MergeIsUnion
<1>7. CASE ~ Duplicate(d) /\ \E e \in accepted : Overlap(d, e)
  <2>1. stage' = "conflict" /\ UNCHANGED <<accepted, position>>
    BY <1>5, <1>7 DEF MergeBuilding
  <2>2. PICK e \in accepted : Overlap(d, e)
    BY <1>7
  <2>3. d # e
    BY <1>7, <2>2 DEF Duplicate
  <2>4. ~ Consistent(AllRoads, AllBlocked, AllBuildings, Grid!Point)
    BY <1>2, <1>3, <2>2, <2>3, Contradiction
  <2>5. ~ Agreed'
    BY <2>4, AgreedKept DEF Agreed
  <2>6. ScanPart'
    BY <1>0, <1>1, <2>1 DEF ScanPart, Merging
  <2>7. MergePart'
    BY <1>0, <2>1 DEF MergePart, Merging, Overlap, Footprint
  <2>. QED  BY <2>1, <2>5, <2>6, <2>7 DEF MergeIsUnion, Agreed
<1>8. CASE ~ Duplicate(d) /\ ~ \E e \in accepted : Overlap(d, e)
  <2>1. stage' = stage /\ accepted' = accepted \union {d} /\ position' = position + 1
    BY <1>5, <1>8 DEF MergeBuilding
  <2>2. accepted' = Taken'
    BY <1>0, <1>4, <2>1
  <2>3. ScanPart'
    BY <1>0, <1>1, <2>1 DEF ScanPart, Merging
  <2>4. TilesMerged' = TilesMerged /\ RoadsMerged' = RoadsMerged
    BY <1>0, <2>1 DEF TilesMerged, RoadsMerged, ShiftAll, Shift
  <2>5. \A e \in accepted : ~ Overlap(d, e) /\ ~ Overlap(e, d)
    BY <1>8 DEF Overlap
  <2>6. (\A c \in accepted : /\ Footprint(c) \subseteq Grid!Point
                             /\ \A e \in accepted : c = e \/ ~ Overlap(c, e))'
    <3>1. \A c \in accepted' : /\ Footprint(c) \subseteq Grid!Point
                               /\ \A e \in accepted' : c = e \/ ~ Overlap(c, e)
      BY <1>3, <2>1, <2>5 DEF MergePart
    <3>. QED  BY <3>1 DEF Overlap, Footprint
  <2>7. MergePart'
    BY <1>0, <1>2, <1>3, <2>1, <2>2, <2>4, <2>6 DEF MergePart, Merging, InBounds
  <2>. QED  BY <1>0, <2>1, <2>3, <2>7 DEF MergeIsUnion
<1>. QED  BY <1>6, <1>7, <1>8

\* With its last building a tile is merged (map_merge.py:34).
LEMMA NextTileKeeps ==
  ScanInv /\ NextTile /\ UNCHANGED <<view, city, scanVars>> => ScanInv'
<1>. SUFFICES ASSUME ScanInv, NextTile, UNCHANGED <<view, city, scanVars>> PROVE ScanInv'
  OBVIOUS
<1>. USE DEF ScanInv, scanVars
<1>1. /\ stage = "joining" /\ stage' = "merging" /\ tile < Len(view) /\ tile' = tile + 1
      /\ position = Len(scans[tile].buildings) /\ position' = 0
      /\ UNCHANGED <<roads, blocked, accepted>>
  BY DEF NextTile
<1>2. tile \in 1 .. Len(view) /\ tile' \in 1 .. Len(view) /\ Len(view) \in Nat
  BY <1>1 DEF ScanPart
<1>3. ScanPart'
  BY <1>1, <1>2, ScansKept DEF ScanPart, Merging
<1>4. TilesMerged = tile /\ TilesMerged' = tile
  BY <1>1, <1>2 DEF TilesMerged
<1>5. RoadsMerged' /\ (\A k \in 1 .. TilesMerged : InBounds(view[k]))'
  BY <1>1, <1>4 DEF MergePart, RoadsMerged, ShiftAll, Shift, InBounds
<1>6. accepted = Taken
  BY <1>1 DEF MergePart
<1>7. \A k \in 1 .. tile + 1 : MergedOf(k)' = IF k = tile + 1 THEN 0 ELSE MergedOf(k)
  BY <1>1, <1>2 DEF MergedOf
<1>8. \A k, i : Item(k, i)' = Item(k, i)
  BY DEF Item, Translated, Shift
<1>9. Taken' = Taken
  <2>1. ASSUME NEW d \in Taken PROVE d \in Taken'
    <3>1. PICK k \in 1 .. tile : \E i \in 1 .. MergedOf(k) : d = Item(k, i)
      BY DEF Taken
    <3>2. k \in 1 .. tile' /\ MergedOf(k)' = MergedOf(k)
      BY <1>1, <1>2, <1>7
    <3>. QED  BY <1>8, <3>1, <3>2 DEF Taken
  <2>2. ASSUME NEW d \in Taken' PROVE d \in Taken
    <3>1. PICK k \in 1 .. tile + 1 : \E i \in 1 .. MergedOf(k)' : d = Item(k, i)'
      BY <1>1, <2>2 DEF Taken
    <3>2. PICK i \in 1 .. MergedOf(k)' : d = Item(k, i)
      BY <1>8, <3>1
    <3>3. k # tile + 1
      BY <1>7, <3>2
    <3>4. k \in 1 .. tile /\ MergedOf(k)' = MergedOf(k)
      BY <1>2, <1>7, <3>3
    <3>. QED  BY <3>2, <3>4 DEF Taken
  <2>. QED  BY <2>1, <2>2
<1>10. MergePart'
  BY <1>1, <1>5, <1>6, <1>9, ApartKept DEF MergePart, Merging
<1>. QED  BY <1>1, <1>3, <1>10 DEF MergeIsUnion

\* With the last tile everything is merged, and checked once more (map_merge.py:52-61).
LEMMA WriteKeeps ==
  ScanInv /\ Write /\ UNCHANGED <<view, city, tile, scanVars>> => ScanInv'
<1>. SUFFICES ASSUME ScanInv, Write, UNCHANGED <<view, city, tile, scanVars>> PROVE ScanInv'
  OBVIOUS
<1>. USE DEF ScanInv, scanVars, mergeVars
<1>1. /\ stage = "joining" /\ tile = Len(view) /\ position = Len(scans[tile].buildings)
      /\ stage' = IF Consistent(roads, blocked, accepted, Grid!Point) THEN "written" ELSE "conflict"
      /\ UNCHANGED <<roads, blocked, accepted, position>>
  BY DEF Write
<1>2. /\ tile \in 1 .. Len(view) /\ Len(scans) = Len(view)
      /\ position \in 0 .. Len(scans[tile].buildings)
  BY <1>1 DEF ScanPart, MergePart, Merging
<1>3. ScanPart'
  BY <1>1, ScansKept DEF ScanPart, Merging
<1>4. TilesMerged = Len(view)
  BY <1>1 DEF TilesMerged
<1>5. /\ roads = AllRoads /\ blocked = AllBlocked /\ accepted = AllBuildings
      /\ \A k \in 1 .. Len(view) : InBounds(view[k])
  BY <1>1, <1>2, <1>4, TakenAreAll DEF MergePart, RoadsMerged, Merging, AllRoads, AllBlocked
<1>6. MergeIsUnion'
  <2>1. Agreed <=> Consistent(roads, blocked, accepted, Grid!Point)
    BY <1>5 DEF Agreed
  <2>2. stage' = "written" <=> Agreed'
    BY <1>1, <2>1, AgreedKept
  <2>3. roads' = AllRoads' /\ blocked' = AllBlocked' /\ accepted' = AllBuildings'
    BY <1>1, <1>5, AgreedKept
  <2>. QED  BY <2>2, <2>3 DEF MergeIsUnion, Agreed
<1>7. Taken' = Taken /\ RoadsMerged' = RoadsMerged /\ TilesMerged' = TilesMerged
  <2>1. stage' \in {"written", "conflict"}
    BY <1>1
  <2>2. TilesMerged' = TilesMerged
    BY <1>1, <2>1 DEF TilesMerged
  <2>. QED  BY <1>1, <2>2 DEF Taken, MergedOf, Item, Translated, RoadsMerged, ShiftAll, Shift
<1>8. MergePart'
  <2>1. (\A k \in 1 .. TilesMerged : InBounds(view[k]))'
    BY <1>4, <1>5, <1>7 DEF InBounds
  <2>. QED  BY <1>1, <1>7, <2>1, ApartKept DEF MergePart, Merging
<1>. QED  BY <1>3, <1>6, <1>8

-----------------------------------------------------------------------------
(* Theorems                                                                *)

\* No step breaks the invariant.
LEMMA StepKeeps == ScanInv /\ [Next]_vars => ScanInv'
<1>. SUFFICES ASSUME ScanInv, [Next]_vars PROVE ScanInv'
  OBVIOUS
<1>1. ASSUME UNCHANGED vars PROVE ScanInv'
  <2>1. UNCHANGED <<view, city, stage, tile, slips, cells, matched, found, scans,
                    roads, blocked, accepted, position>>
    BY <1>1 DEF vars, scanVars, mergeVars
  <2>2. ScanPart'
    BY <2>1, ScansKept DEF ScanInv, ScanPart
  <2>3. Taken' = Taken /\ RoadsMerged' = RoadsMerged /\ TilesMerged' = TilesMerged
    BY <2>1 DEF Taken, MergedOf, Item, Translated, RoadsMerged, ShiftAll, Shift, TilesMerged
  <2>4. (\A k \in 1 .. TilesMerged : InBounds(view[k]))' <=> \A k \in 1 .. TilesMerged : InBounds(view[k])
    BY <2>1, <2>3 DEF InBounds
  <2>5. MergePart'
    BY <2>1, <2>3, <2>4, ApartKept DEF ScanInv, MergePart
  <2>6. MergeIsUnion'
    BY <2>1, AgreedKept DEF ScanInv, MergeIsUnion, Agreed
  <2>. QED  BY <2>2, <2>5, <2>6 DEF ScanInv
<1>2. CASE Look
  BY <1>2, LookKeeps
<1>3. CASE Slip
  BY <1>3, SlipKeeps
<1>4. CASE SortOut
  BY <1>4, SortOutKeeps
<1>5. CASE Scanned
  BY <1>5, ScannedKeeps
<1>6. CASE Merge
  BY <1>6, MergeCellsKeeps, MergeBuildingKeeps, NextTileKeeps, WriteKeeps DEF Merge
<1>7. CASE Ended
  BY <1>1, <1>7 DEF Ended
<1>. QED  BY <1>1, <1>2, <1>3, <1>4, <1>5, <1>6, <1>7 DEF Next

\* The invariant holds of every run of the scan.
THEOREM ScanInvariant == Spec => []ScanInv
<1>. QED  BY InitScan, StepKeeps, PTL DEF Spec

\* The merged map has only places of the map, and no two buildings on a cell.
THEOREM MapWellFormed == Spec => []ScanTypeOK
<1>1. ScanInv => ScanTypeOK
  BY DEF ScanInv, ScanPart, MergePart, ScanTypeOK
<1>. QED  BY <1>1, ScanInvariant, PTL

\* The map written is all that the tiles show, and it is written just when the
\* tiles agree, whatever the order of the tiles and of the detections
\* (map_merge.py:27-122).
THEOREM OrderDoesNotMatter == Spec => []MergeIsUnion
<1>1. ScanInv => MergeIsUnion
  BY DEF ScanInv
<1>. QED  BY <1>1, ScanInvariant, PTL

-----------------------------------------------------------------------------
(* A scan without slips                                                    *)

\* Buildings that overlap in a tile overlap on the map.
LEMMA MovedOverlap ==
  ASSUME NEW t \in Tile, NEW d \in Detection, NEW e \in Detection, Overlap(d, e)
  PROVE  Overlap(Translated(d, t), Translated(e, t))
<1>1. PICK p : p \in Footprint(d) /\ p \in Footprint(e)
  BY DEF Overlap
<1>2. Shift(p, t) \in ShiftAll(Footprint(d), t) /\ Shift(p, t) \in ShiftAll(Footprint(e), t)
  BY <1>1 DEF ShiftAll
<1>. QED  BY <1>2, MovedFootprint DEF Overlap

\* Where a building is on the map tells where it is in the tile.
LEMMA TranslatedTells ==
  ASSUME NEW t \in Tile, NEW d \in Detection, NEW e \in Detection,
         Translated(d, t) = Translated(e, t)
  PROVE  d = e
<1>1. PICK x \in Nat, y \in Nat, k \in Template : d = <<k, <<x, y>>>>
  BY DEF Detection
<1>2. PICK u \in Nat, v \in Nat, l \in Template : e = <<l, <<u, v>>>>
  BY DEF Detection
<1>3. PICK a \in Nat, b \in Nat : t.origin = <<a, b>>
  BY DEF Tile
<1>4. <<k, <<x + a, y + b>>>> = <<l, <<u + a, v + b>>>>
  BY <1>1, <1>2, <1>3 DEF Translated, Shift
<1>5. k = l /\ x + a = u + a /\ y + b = v + b
  BY <1>4
<1>6. x = u /\ y = v
  BY <1>5
<1>. QED  BY <1>1, <1>2, <1>5, <1>6

\* A building that fits the tile lies in it (map_detectors.py:139-148).
LEMMA FittingInside ==
  ASSUME NEW t \in Tile, NEW d \in Fitting(t)
  PROVE  Footprint(d) \subseteq LocalGrid(t)
<1>1. PICK x \in 0 .. t.width - 1, y \in 0 .. t.height - 1, k \in Template : d = <<k, <<x, y>>>>
  BY DEF Fitting, LocalGrid
<1>2. /\ Size[k].width \in Nat /\ Size[k].height \in Nat
      /\ t.width \in Nat /\ t.height \in Nat
  BY MapAssumption DEF Tile
<1>3. x <= t.width - Size[k].width /\ y <= t.height - Size[k].height
  BY <1>1 DEF Fitting
<1>. SUFFICES ASSUME NEW p \in Footprint(d) PROVE p \in LocalGrid(t)
  OBVIOUS
<1>4. PICK dx \in 0 .. Size[k].width - 1, dy \in 0 .. Size[k].height - 1 : p = <<x + dx, y + dy>>
  BY <1>1 DEF Footprint, Grid!Footprint
<1>5. x + dx \in 0 .. t.width - 1 /\ y + dy \in 0 .. t.height - 1
  BY <1>2, <1>3
<1>. QED  BY <1>4, <1>5 DEF LocalGrid

\* What the tile shows of a city is a map (map_scanner.py:157-167).
LEMMA WholeIsMap ==
  ASSUME NEW t \in Tile, city \in Cities
  PROVE  /\ Consistent(Shown(city.roads, t), Shown(city.blocked, t), Whole(t), LocalGrid(t))
         /\ \A d, e \in Whole(t) : d = e \/ ~ Overlap(d, e)
<1>1. Consistent(city.roads, city.blocked, city.buildings, Grid!Point)
  BY CitiesAreMaps
<1>2. Whole(t) \subseteq Fitting(t) /\ Whole(t) \subseteq Detection
  BY FittingDetects DEF Whole
<1>3. \A d, e \in Whole(t) : d = e \/ ~ Overlap(d, e)
  <2>. SUFFICES ASSUME NEW d \in Whole(t), NEW e \in Whole(t), Overlap(d, e)
                PROVE  d = e
    OBVIOUS
  <2>1. Overlap(Translated(d, t), Translated(e, t))
    BY <1>2, MovedOverlap
  <2>2. Translated(d, t) \in city.buildings /\ Translated(e, t) \in city.buildings
    BY DEF Whole
  <2>3. Translated(d, t) = Translated(e, t)
    BY <1>1, <2>1, <2>2 DEF Consistent
  <2>. QED  BY <1>2, <2>3, TranslatedTells
<1>4. ASSUME NEW d \in Whole(t)
      PROVE  /\ Footprint(d) \subseteq LocalGrid(t)
             /\ Footprint(d) \intersect (Shown(city.roads, t) \union Shown(city.blocked, t)) = {}
  <2>1. Footprint(d) \subseteq LocalGrid(t)
    BY <1>2, FittingInside
  <2>2. ASSUME NEW p \in Footprint(d), p \in Shown(city.roads, t) \union Shown(city.blocked, t)
        PROVE  FALSE
    <3>1. Shift(p, t) \in city.roads \union city.blocked
      BY <2>2 DEF Shown
    <3>2. Shift(p, t) \in Footprint(Translated(d, t))
      BY <1>2, MovedFootprint DEF ShiftAll
    <3>3. Translated(d, t) \in city.buildings
      BY DEF Whole
    <3>. QED  BY <1>1, <3>1, <3>2, <3>3 DEF Consistent
  <2>. QED  BY <2>1, <2>2
<1>5. Shown(city.roads, t) \union Shown(city.blocked, t) \subseteq LocalGrid(t)
  BY DEF Shown
<1>. QED  BY <1>3, <1>4, <1>5 DEF Consistent

\* The building of the city that lies wholly on a tile is one the tile shows.
LEMMA WholeCovers ==
  ASSUME NEW t \in Tile, NEW b \in Detection, b \in city.buildings,
         Footprint(b) \subseteq ShiftAll(LocalGrid(t), t)
  PROVE  \E d \in Whole(t) : Translated(d, t) = b
<1>1. PICK x \in Nat, y \in Nat, k \in Template : b = <<k, <<x, y>>>>
  BY DEF Detection
<1>2. PICK u \in Nat, v \in Nat : t.origin = <<u, v>>
  BY DEF Tile
<1>3. PICK w \in Nat \ {0}, h \in Nat \ {0} : w = Size[k].width /\ h = Size[k].height
  BY MapAssumption
<1>4. PICK tw \in Nat \ {0}, th \in Nat \ {0} : tw = t.width /\ th = t.height
  BY DEF Tile
<1>5. ASSUME NEW dx \in 0 .. w - 1, NEW dy \in 0 .. h - 1
      PROVE  /\ u <= x + dx /\ x + dx <= u + tw - 1
             /\ v <= y + dy /\ y + dy <= v + th - 1
  <2>1. <<x + dx, y + dy>> \in Footprint(b)
    BY <1>1, <1>3 DEF Footprint, Grid!Footprint
  <2>2. PICK q \in LocalGrid(t) : <<x + dx, y + dy>> = Shift(q, t)
    BY <2>1 DEF ShiftAll
  <2>3. PICK r \in 0 .. tw - 1, s \in 0 .. th - 1 : q = <<r, s>>
    BY <1>4 DEF LocalGrid
  <2>4. x + dx = r + u /\ y + dy = s + v
    BY <1>2, <2>2, <2>3 DEF Shift
  <2>. QED  BY <2>3, <2>4
<1>6. u <= x /\ v <= y /\ x + w <= u + tw /\ y + h <= v + th
  <2>1. 0 \in 0 .. w - 1 /\ 0 \in 0 .. h - 1 /\ w - 1 \in 0 .. w - 1 /\ h - 1 \in 0 .. h - 1
    OBVIOUS
  <2>2. u <= x + 0 /\ v <= y + 0
    BY <1>5, <2>1
  <2>3. x + (w - 1) <= u + tw - 1 /\ y + (h - 1) <= v + th - 1
    BY <1>5, <2>1
  <2>. QED  BY <2>2, <2>3
<1>7. PICK i \in Nat, j \in Nat : i = x - u /\ j = y - v
  BY <1>6
<1>8. /\ i \in 0 .. tw - 1 /\ j \in 0 .. th - 1
      /\ i <= tw - w /\ j <= th - h
      /\ i + u = x /\ j + v = y
  BY <1>6, <1>7
<1>. DEFINE d == <<k, <<i, j>>>>
<1>9. d \in Fitting(t)
  <2>1. d \in Template \X LocalGrid(t)
    BY <1>4, <1>8 DEF LocalGrid
  <2>2. d[1] = k /\ d[2][1] = i /\ d[2][2] = j
    OBVIOUS
  <2>. QED  BY <1>3, <1>4, <1>8, <2>1, <2>2 DEF Fitting
<1>10. Translated(d, t) = b
  BY <1>1, <1>2, <1>8 DEF Translated, Shift
<1>. QED  BY <1>9, <1>10 DEF Whole

\* What the tiles show of the cells of a map, together, are the cells.
LEMMA ShownCovers ==
  ASSUME NEW S, S \subseteq Grid!Point, Covered
  PROVE  UNION {ShiftAll(Shown(S, view[k]), view[k]) : k \in 1 .. Len(view)} = S
<1>1. ASSUME NEW p \in S
      PROVE  \E k \in 1 .. Len(view) : p \in ShiftAll(Shown(S, view[k]), view[k])
  <2>1. PICK k \in 1 .. Len(view) : p \in ShiftAll(LocalGrid(view[k]), view[k])
    BY DEF Covered
  <2>2. PICK q \in LocalGrid(view[k]) : p = Shift(q, view[k])
    BY <2>1 DEF ShiftAll
  <2>. QED  BY <2>2 DEF Shown, ShiftAll
<1>2. ASSUME NEW k \in 1 .. Len(view), NEW p \in ShiftAll(Shown(S, view[k]), view[k])
      PROVE  p \in S
  BY DEF ShiftAll, Shown
<1>. QED  BY <1>1, <1>2

\* What a scan shows changes with the city and the tile only.
LEMMA SightKept ==
  ASSUME UNCHANGED city, NEW t
  PROVE  /\ Whole(t)' = Whole(t)
         /\ Shown(city.roads, t)' = Shown(city.roads, t)
         /\ Shown(city.blocked, t)' = Shown(city.blocked, t)
         /\ \A s : ExactlyScanned(s, t) => ExactlyScanned(s, t)'
<1>1. Whole(t)' = Whole(t)
  BY DEF Whole, Fitting, LocalGrid, Translated, Shift
<1>2. /\ Shown(city.roads, t)' = Shown(city.roads, t)
      /\ Shown(city.blocked, t)' = Shown(city.blocked, t)
  BY DEF Shown, LocalGrid, Shift
<1>. QED  BY <1>1, <1>2 DEF ExactlyScanned, Buildings

\* The scans made so far stay what the city has there.
LEMMA ExactKept ==
  ASSUME UNCHANGED <<view, city, scans>>,
         \A k \in 1 .. Len(scans) : ExactlyScanned(scans[k], view[k])
  PROVE  (\A k \in 1 .. Len(scans) : ExactlyScanned(scans[k], view[k]))'
<1>. SUFFICES ASSUME NEW k \in 1 .. Len(scans)
              PROVE  ExactlyScanned(scans[k], view[k])'
  OBVIOUS
<1>1. PICK s, t : s = scans[k] /\ t = view[k]
  OBVIOUS
<1>2. ExactlyScanned(s, t)'
  BY <1>1, SightKept
<1>3. s = scans'[k] /\ t = view'[k]
  BY <1>1
<1>. QED  BY ONLY <1>2, <1>3 DEF ExactlyScanned, Shown, Whole, Buildings, Fitting, LocalGrid, Shift, Translated

\* Every building the tile shows matches; what else matches is beside one.
LEMMA LookSees == ScanInv /\ SeesTheCity /\ Look => SeesTheCity'
<1>. SUFFICES ASSUME ScanInv, SeesTheCity, Look, slips' = 0 PROVE SeesTheCity'
  BY DEF SeesTheCity, Look
<1>1. PICK t : t = view[tile]
  OBVIOUS
<1>2. /\ stage = "looking" /\ stage' = "sorting" /\ slips = 0
      /\ UNCHANGED <<view, city, tile, scans>> /\ found' = found
  BY DEF Look
<1>3. /\ city \in Cities /\ found = <<>>
      /\ \A k \in 1 .. Len(scans) : ExactlyScanned(scans[k], view[k])
  BY <1>2 DEF SeesTheCity
<1>4. (\A k \in 1 .. Len(scans) : ExactlyScanned(scans[k], view[k]))'
  BY <1>2, <1>3, ExactKept
<1>5. /\ cells' = [roads |-> Shown(city.roads, t), blocked |-> Shown(city.blocked, t)]
      /\ Whole(t) \subseteq matched'
      /\ \A c \in matched' \ Whole(t) : \E d \in Whole(t) : Overlap(d, c)
  BY <1>1 DEF Look
<1>6. Buildings(found') = {}
  BY <1>2, <1>3 DEF Buildings
<1>7. /\ Whole(t)' = Whole(t) /\ Shown(city.roads, t)' = Shown(city.roads, t)
      /\ Shown(city.blocked, t)' = Shown(city.blocked, t)
  BY <1>2, SightKept
<1>8. t = view'[tile']
  BY <1>1, <1>2
<1>. QED  BY <1>2, <1>3, <1>4, <1>5, <1>6, <1>7, <1>8 DEF SeesTheCity

\* A building that is shown is kept; what matched beside it is dropped, for the
\* building comes before it (map_detectors.py:158-174).
LEMMA SortOutSees == ScanInv /\ SeesTheCity /\ SortOut => SeesTheCity'
<1>. SUFFICES ASSUME ScanInv, SeesTheCity, SortOut, slips' = 0 PROVE SeesTheCity'
  BY DEF SeesTheCity, SortOut
<1>1. PICK t \in Tile : t = view[tile]
  BY DEF ScanInv, ScanPart
<1>2. PICK c \in Best :
        /\ matched' = matched \ {c}
        /\ found' = IF \E i \in 1 .. Len(found) : Overlap(found[i], c)
                    THEN found ELSE Append(found, c)
  BY DEF SortOut
<1>3. /\ stage = "sorting" /\ stage' = "sorting" /\ slips = 0
      /\ UNCHANGED <<view, city, tile, scans>> /\ cells' = cells
  BY DEF SortOut
<1>4. /\ city \in Cities
      /\ \A k \in 1 .. Len(scans) : ExactlyScanned(scans[k], view[k])
      /\ cells = [roads |-> Shown(city.roads, t), blocked |-> Shown(city.blocked, t)]
      /\ Buildings(found) \subseteq Whole(t)
      /\ Whole(t) \subseteq Buildings(found) \union matched
      /\ \A e \in matched \ Whole(t) : \E d \in Whole(t) : Overlap(d, e)
  BY <1>1, <1>3 DEF SeesTheCity
<1>5. /\ c \in matched /\ c \in Detection /\ found \in Seq(Detection)
      /\ \A d \in matched \intersect Whole(t) : d = c \/ ~ Overlap(d, c)
  BY <1>1, <1>2 DEF Best, ScanInv, ScanPart
<1>6. Buildings(found') \subseteq Whole(t) /\ Buildings(found) \union ({c} \intersect Whole(t)) \subseteq Buildings(found')
  <2>1. CASE \E i \in 1 .. Len(found) : Overlap(found[i], c)
    <3>1. PICK i \in 1 .. Len(found) : Overlap(found[i], c)
      BY <2>1
    <3>2. found[i] \in Whole(t) /\ found[i] \in Buildings(found)
      BY <1>4 DEF Buildings
    <3>3. c \in Whole(t) => c = found[i]
      BY <1>4, <3>1, <3>2, WholeIsMap
    <3>4. found' = found
      BY <1>2, <2>1
    <3>. QED  BY <1>4, <3>2, <3>3, <3>4
  <2>2. CASE ~ \E i \in 1 .. Len(found) : Overlap(found[i], c)
    <3>1. c \in Whole(t)
      <4>. SUFFICES ASSUME c \notin Whole(t) PROVE FALSE
        OBVIOUS
      <4>1. PICK d \in Whole(t) : Overlap(d, c)
        BY <1>4, <1>5
      <4>2. d \notin matched
        BY <1>5, <4>1
      <4>3. d \in Buildings(found)
        BY <1>4, <4>2
      <4>. QED  BY <2>2, <4>1, <4>3 DEF Buildings
    <3>2. found' = Append(found, c)
      BY <1>2, <2>2
    <3>3. Buildings(found') = Buildings(found) \union {c}
      <4>1. /\ Len(found') = Len(found) + 1 /\ Len(found) \in Nat
            /\ \A i \in 1 .. Len(found) : found'[i] = found[i]
            /\ found'[Len(found) + 1] = c
        BY <1>5, <3>2
      <4>. QED  BY <4>1 DEF Buildings
    <3>. QED  BY <1>4, <3>1, <3>3
  <2>. QED  BY <2>1, <2>2
<1>7. /\ Whole(t) \subseteq Buildings(found') \union matched'
      /\ \A e \in matched' \ Whole(t) : \E d \in Whole(t) : Overlap(d, e)
  BY <1>2, <1>4, <1>6
<1>8. (\A k \in 1 .. Len(scans) : ExactlyScanned(scans[k], view[k]))'
  BY <1>3, <1>4, ExactKept
<1>9. /\ Whole(t)' = Whole(t) /\ Shown(city.roads, t)' = Shown(city.roads, t)
      /\ Shown(city.blocked, t)' = Shown(city.blocked, t) /\ t = view'[tile']
  BY <1>1, <1>3, SightKept
<1>. QED  BY <1>3, <1>4, <1>6, <1>7, <1>8, <1>9 DEF SeesTheCity

\* So the tile's CityMap is what the city has there, and CityMap takes it
\* (map_scanner.py:157-167).
LEMMA ScannedSees == ScanInv /\ SeesTheCity /\ Scanned => SeesTheCity'
<1>. SUFFICES ASSUME ScanInv, SeesTheCity, Scanned, slips' = 0 PROVE SeesTheCity'
  BY DEF SeesTheCity, Scanned
<1>1. PICK t \in Tile : t = view[tile]
  BY DEF ScanInv, ScanPart
<1>2. /\ stage = "sorting" /\ matched = {} /\ found' = <<>> /\ slips = 0
      /\ UNCHANGED <<view, city>>
  BY DEF Scanned
<1>3. /\ city \in Cities
      /\ \A k \in 1 .. Len(scans) : ExactlyScanned(scans[k], view[k])
      /\ cells = [roads |-> Shown(city.roads, t), blocked |-> Shown(city.blocked, t)]
      /\ Buildings(found) = Whole(t)
  BY <1>1, <1>2 DEF SeesTheCity
<1>. DEFINE scan == [roads |-> cells.roads, blocked |-> cells.blocked, buildings |-> found]
<1>4. ExactlyScanned(scan, t)
  BY <1>3 DEF ExactlyScanned
<1>5. Consistent(cells.roads, cells.blocked, Buildings(found), LocalGrid(t))
  BY <1>3, WholeIsMap
<1>6. scans' = Append(scans, scan) /\ stage' \in {"merging", "looking"}
  BY <1>1, <1>5 DEF Scanned
<1>7. /\ scans \in Seq([roads : SUBSET (Nat \X Nat), blocked : SUBSET (Nat \X Nat),
                        buildings : Seq(Detection)])
      /\ Len(scans) = tile - 1 /\ tile \in Nat
      /\ cells \in [roads : SUBSET (Nat \X Nat), blocked : SUBSET (Nat \X Nat)]
      /\ found \in Seq(Detection)
  BY <1>2 DEF ScanInv, ScanPart, Merging
<1>8. /\ Len(scans') = tile
      /\ \A k \in 1 .. tile : scans'[k] = IF k = tile THEN scan ELSE scans[k]
  <2>1. scan \in [roads : SUBSET (Nat \X Nat), blocked : SUBSET (Nat \X Nat),
                  buildings : Seq(Detection)]
    BY <1>7
  <2>. HIDE DEF scan
  <2>. QED  BY <1>6, <1>7, <2>1
<1>9. (\A k \in 1 .. Len(scans) : ExactlyScanned(scans[k], view[k]))'
  <2>. HIDE DEF scan
  <2>. SUFFICES ASSUME NEW k \in 1 .. tile PROVE ExactlyScanned(scans[k], view[k])'
    <3>1. Len(scans') = tile
      BY <1>8
    <3>. QED  BY <3>1
  <2>1. PICK s, u : s = scans'[k] /\ u = view[k]
    OBVIOUS
  <2>2. ExactlyScanned(s, u)
    <3>1. CASE k = tile
      BY <1>1, <1>4, <1>8, <2>1, <3>1
    <3>2. CASE k # tile
      <4>1. k \in 1 .. Len(scans) /\ s = scans[k]
        BY <1>7, <1>8, <2>1, <3>2
      <4>. QED  BY <1>3, <2>1, <4>1
    <3>. QED  BY <3>1, <3>2
  <2>3. ExactlyScanned(s, u)'
    BY <1>2, <2>2, SightKept
  <2>4. s = scans'[k] /\ u = view'[k]
    BY <1>2, <2>1
  <2>. QED  BY ONLY <2>3, <2>4 DEF ExactlyScanned, Shown, Whole, Buildings, Fitting, LocalGrid, Shift, Translated
<1>. QED  BY <1>2, <1>3, <1>6, <1>9 DEF SeesTheCity

\* A slip, and the merge, change nothing that a scan without slips has.
LEMMA StepSees == ScanInv /\ SeesTheCity /\ [Next]_vars => SeesTheCity'
<1>. SUFFICES ASSUME ScanInv, SeesTheCity, [Next]_vars PROVE SeesTheCity'
  OBVIOUS
<1>1. ASSUME UNCHANGED <<view, city, scans, slips>>,
             \/ stage' = stage /\ stage \notin {"looking", "sorting"}
             \/ stage' \in {"merging", "joining", "written", "conflict"}
      PROVE  SeesTheCity'
  <2>. SUFFICES ASSUME slips = 0 PROVE SeesTheCity'
    BY <1>1 DEF SeesTheCity
  <2>1. /\ city \in Cities /\ stage # "unreadable"
        /\ \A k \in 1 .. Len(scans) : ExactlyScanned(scans[k], view[k])
    BY DEF SeesTheCity
  <2>2. (\A k \in 1 .. Len(scans) : ExactlyScanned(scans[k], view[k]))'
    BY <1>1, <2>1, ExactKept
  <2>3. stage' \notin {"looking", "sorting", "unreadable"} /\ city' \in Cities
    BY <1>1, <2>1
  <2>. QED  BY <2>2, <2>3 DEF SeesTheCity
<1>2. ASSUME UNCHANGED vars PROVE SeesTheCity'
  <2>1. UNCHANGED <<view, city, stage, tile, slips, cells, matched, found, scans>>
    BY <1>2 DEF vars, scanVars
  <2>2. CASE slips # 0
    BY <2>1, <2>2 DEF SeesTheCity
  <2>3. CASE slips = 0 /\ stage \notin {"looking", "sorting"}
    BY <1>1, <2>1, <2>3
  <2>4. CASE slips = 0 /\ stage \in {"looking", "sorting"}
    <3>1. PICK t : t = view[tile]
      OBVIOUS
    <3>2. (\A k \in 1 .. Len(scans) : ExactlyScanned(scans[k], view[k]))'
      BY <2>1, <2>4, ExactKept DEF SeesTheCity
    <3>3. /\ Whole(t)' = Whole(t) /\ Shown(city.roads, t)' = Shown(city.roads, t)
          /\ Shown(city.blocked, t)' = Shown(city.blocked, t) /\ t = view'[tile']
      BY <2>1, <3>1, SightKept
    <3>. QED  BY <2>1, <2>4, <3>1, <3>2, <3>3 DEF SeesTheCity
  <2>. QED  BY <2>2, <2>3, <2>4
<1>3. CASE Look
  BY <1>3, LookSees
<1>4. CASE Slip
  <2>1. slips' = slips + 1 /\ slips \in Nat /\ UNCHANGED city
    BY <1>4, MapAssumption DEF Slip, ScanInv, ScanPart
  <2>. QED  BY <2>1 DEF SeesTheCity
<1>5. CASE SortOut
  BY <1>5, SortOutSees
<1>6. CASE Scanned
  BY <1>6, ScannedSees
<1>7. CASE Merge
  <2>1. UNCHANGED <<view, city, scans, slips>>
    BY <1>7 DEF Merge, scanVars
  <2>2. stage' \in {"merging", "joining", "written", "conflict"}
    BY <1>7 DEF Merge, MergeCells, MergeBuilding, NextTile, Write
  <2>. QED  BY <1>1, <2>1, <2>2
<1>8. CASE Ended
  BY <1>2, <1>8 DEF Ended
<1>. QED  BY <1>2, <1>3, <1>4, <1>5, <1>6, <1>7, <1>8 DEF Next

\* What all the tiles show, when each was seen exactly and they leave nothing out.
LEMMA AllIsCity ==
  ASSUME ScanInv, SeesTheCity, slips = 0, Covered, stage \in Merging
  PROVE  AllRoads = city.roads /\ AllBlocked = city.blocked /\ AllBuildings = city.buildings
<1>1. /\ Len(scans) = Len(view) /\ city \in Cities
      /\ \A k \in 1 .. Len(view) : ExactlyScanned(scans[k], view[k]) /\ view[k] \in Tile
  BY DEF ScanInv, ScanPart, SeesTheCity
<1>2. /\ city.roads \subseteq Grid!Point /\ city.blocked \subseteq Grid!Point
      /\ city.buildings \subseteq Detection
  BY <1>1, MapAssumption, CitiesAreMaps DEF Consistent
<1>3. AllRoads = UNION {ShiftAll(Shown(city.roads, view[k]), view[k]) : k \in 1 .. Len(view)}
  BY <1>1 DEF AllRoads, ExactlyScanned
<1>4. AllBlocked = UNION {ShiftAll(Shown(city.blocked, view[k]), view[k]) : k \in 1 .. Len(view)}
  BY <1>1 DEF AllBlocked, ExactlyScanned
<1>5. ASSUME NEW b \in city.buildings PROVE b \in AllBuildings
  <2>1. PICK k \in 1 .. Len(view) : Footprint(b) \subseteq ShiftAll(LocalGrid(view[k]), view[k])
    BY DEF Covered
  <2>2. PICK d \in Whole(view[k]) : Translated(d, view[k]) = b
    <3>1. view[k] \in Tile /\ b \in Detection
      BY <1>1, <1>2
    <3>. QED  BY <2>1, <3>1, WholeCovers
  <2>3. PICK i \in 1 .. Len(scans[k].buildings) : d = scans[k].buildings[i]
    <3>1. d \in Buildings(scans[k].buildings)
      BY <1>1, <2>2 DEF ExactlyScanned
    <3>. QED  BY ONLY <3>1 DEF Buildings
  <2>. QED  BY <1>1, <2>2, <2>3 DEF AllBuildings
<1>6. ASSUME NEW b \in AllBuildings PROVE b \in city.buildings
  <2>1. PICK k \in 1 .. Len(view) :
          \E i \in 1 .. Len(scans[k].buildings) : b = Translated(scans[k].buildings[i], view[k])
    BY <1>1 DEF AllBuildings
  <2>2. PICK i \in 1 .. Len(scans[k].buildings) : b = Translated(scans[k].buildings[i], view[k])
    BY <2>1
  <2>3. scans[k].buildings[i] \in Whole(view[k])
    BY <1>1 DEF ExactlyScanned, Buildings
  <2>. QED  BY <2>2, <2>3 DEF Whole
<1>. QED  BY <1>2, <1>3, <1>4, <1>5, <1>6, ShownCovers

\* In a scan without slips each tile is what the city has there: templates that match
\* beside a building are dropped, and no building that a tile shows is lost
\* (map_detectors.py:139-174, map_scanner.py:157-167).
THEOREM TilesAreExact == Spec => []SeesTheCity
<1>1. Init => SeesTheCity
  BY DEF Init, SeesTheCity
<1>2. Spec => [](ScanInv /\ SeesTheCity)
  BY <1>1, InitScan, StepKeeps, StepSees, PTL DEF Spec
<1>. QED  BY <1>2, PTL

\* With detectors that do not slip and tiles that leave nothing out the scan succeeds,
\* and the map is the city (map_app.py:111-150, map_merge.py:27-122).
THEOREM ExactScanSucceeds == Spec => []ExactScanIsCity
<1>1. ScanInv /\ SeesTheCity => ExactScanIsCity
  <2>. SUFFICES ASSUME ScanInv, SeesTheCity, slips = 0, Covered
                PROVE  /\ stage \notin {"conflict", "unreadable"}
                       /\ stage = "written" =>
                            /\ roads = city.roads /\ blocked = city.blocked
                            /\ accepted = city.buildings
    BY DEF ExactScanIsCity
  <2>1. stage # "unreadable" /\ city \in Cities
    BY DEF SeesTheCity
  <2>2. ASSUME stage \in {"written", "conflict"}
        PROVE  /\ stage = "written"
               /\ roads = city.roads /\ blocked = city.blocked /\ accepted = city.buildings
    <3>1. AllRoads = city.roads /\ AllBlocked = city.blocked /\ AllBuildings = city.buildings
      BY <2>2, AllIsCity DEF Merging
    <3>2. Consistent(AllRoads, AllBlocked, AllBuildings, Grid!Point)
      BY <2>1, <3>1, CitiesAreMaps
    <3>3. \A k \in 1 .. Len(view) : InBounds(view[k])
      BY DEF Covered
    <3>. QED  BY <2>2, <3>1, <3>2, <3>3 DEF ScanInv, MergeIsUnion
  <2>. QED  BY <2>1, <2>2
<1>. QED  BY <1>1, ScanInvariant, TilesAreExact, PTL
=============================================================================
