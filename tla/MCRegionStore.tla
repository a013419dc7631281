--------------------------- MODULE MCRegionStore ---------------------------
(* RegionStore with two regions: the root with two columns, and one whose  *)
(* key comes before the root's with one column.                            *)
EXTENDS RegionStore

CONSTANTS near, far, away

MCColumns == {near, far, away}
MCRegions == {-1, 0}
MCRegionOf == [c \in MCColumns |-> IF c = away THEN -1 ELSE 0]
=============================================================================
