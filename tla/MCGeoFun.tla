-------------------------------- MODULE MCGeoFun -------------------------------
(* Walks over all pairs of coordinates of a small globe, one unit at a     *)
(* time, to compare the codes of neighbours.                               *)
EXTENDS GeoFun

VARIABLES first, second, code

Globe == 0..(2 ^ Bits - 1)
WalkInit == first = 0 /\ second = 0 /\ code = Combine(0, 0)
East == second + 1 \in Globe /\ second' = second + 1 /\ UNCHANGED first
North == first + 1 \in Globe /\ first' = first + 1 /\ UNCHANGED second
WalkNext == (North \/ East) /\ code' = Combine(first', second')
WalkSpec == WalkInit /\ [][WalkNext]_<<first, second, code>>

(* Nothing of a point is lost in its key: Split and ByteToLong recover it. *)
KeyRecovers ==
  /\ ByteToLong(LongToByte(code)) = code
  /\ Split(code) = [first |-> first, second |-> second]

(* A step north or east leads to a greater key for the BTREE, byte by      *)
(* byte, so that an area's keys lie between those of two of its corners,   *)
(* whichever way one walks.                                                *)
KeysAscend == [][KeyBefore(LongToByte(code), LongToByte(code'))]_<<first, second, code>>
=============================================================================
