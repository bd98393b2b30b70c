---------------------------- MODULE MCRegionMap -----------------------------
(* Two region_maps over three cells; the functors are those of horizons: the *)
(* larger of the value and a command id.                                     *)
EXTENDS RegionMap

MCExtent == {1, 2, 3}
MCValue == {0, 1, 2}
AtLeast(k) == [v \in MCValue |-> IF v < k THEN k ELSE v]
MCFunctor == {AtLeast(1), AtLeast(2)}
=============================================================================
