-------------------------- MODULE MCConstructionSite --------------------------
(***************************************************************************)
(* Small cities for ConstructionSite: two houses that look the same and    *)
(* may be moved, and a school that may not.                                *)
(***************************************************************************)
EXTENDS ConstructionSite

MCSize == [b \in Building |-> [width |-> 1, height |-> 1]]

MCKind == [b \in Building |-> IF b = 3 THEN "school" ELSE "house"]

Row(y, xs) == {<<x, y>> : x \in xs}

\* A street with the three side by side, and one more cell of road.
Street ==
  [roads |-> Row(1, 0 .. 3), at |-> [b \in Building |-> <<b - 1, 0>>]]

\* The school is not yet on the road.
Remote ==
  [roads |-> Row(1, 0 .. 1),
   at |-> [b \in Building |-> CASE b = 1 -> <<0, 0>> [] b = 2 -> <<1, 0>> [] b = 3 -> <<3, 0>>]]

\* Neither here, where a house stands in the way of its road.
Hidden ==
  [roads |-> {<<1, 0>>, <<1, 1>>},
   at |-> [b \in Building |-> CASE b = 1 -> <<0, 0>> [] b = 2 -> <<2, 1>> [] b = 3 -> <<3, 1>>]]

SmallCities == {Street, Remote, Hidden}

\* A villa of two cells, and two houses that would stand where it does.
MCWideSize == [b \in Building |-> [width |-> IF b = 3 THEN 2 ELSE 1, height |-> 1]]

Avenue ==
  [roads |-> Row(1, 0 .. 5),
   at |-> [b \in Building |-> CASE b = 1 -> <<2, 0>> [] b = 2 -> <<3, 0>> [] b = 3 -> <<0, 0>>]]

WideCities == {Avenue}
=============================================================================
