----------------------------- MODULE MCMapScan -----------------------------
(***************************************************************************)
(* A map of three by two cells, houses of one cell and villas of two, and  *)
(* tiles that overlap and cut the villa.                                   *)
(***************************************************************************)
EXTENDS MapScan

MCSize == [t \in Template |-> [width |-> IF t = "villa" THEN 2 ELSE 1, height |-> 1]]

At(x, y, w, h) == [origin |-> <<x, y>>, width |-> w, height |-> h]

\* Two tiles that share a column; three, the first of them cutting a villa that
\* the second shows; two, the second reaching beyond the map.
SmallViews ==
  {<<At(0, 0, 2, 2), At(1, 0, 2, 2)>>,
   <<At(1, 0, 2, 2), At(0, 0, 3, 1), At(0, 1, 1, 1)>>,
   <<At(0, 0, 3, 2), At(2, 0, 2, 1)>>}

SmallCities ==
  {[roads |-> {<<0, 1>>, <<1, 1>>}, blocked |-> {<<2, 1>>},
    buildings |-> {<<"villa", <<0, 0>>>>, <<"house", <<2, 0>>>>}],
   [roads |-> {<<0, 1>>, <<1, 1>>, <<2, 1>>}, blocked |-> {},
    buildings |-> {<<"house", <<0, 0>>>>, <<"villa", <<1, 0>>>>}]}
=============================================================================
