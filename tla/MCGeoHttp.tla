------------------------------- MODULE MCGeoHttp -------------------------------
(* A small instance of GeoHttp for TLC: a globe of 24 steps from pole to   *)
(* pole and 48 around, two steps to a unit, float sums three steps apart,  *)
(* and floats on the way back two units.                                   *)
EXTENDS GeoHttp, TLC

Symmetry == Permutations(Workers)

P(lat, lng) == [lat |-> lat, lng |-> lng]
(* Either point loses something in every rounding of its longitude. *)
MCPoints == {P(4, 7), P(-3, -5)}

A(lat1, lng1, lat2, lng2) == [lat1 |-> lat1, lng1 |-> lng1, lat2 |-> lat2, lng2 |-> lng2]
MCAreas == {
  A(-2, 10, 6, 1),       \* east of the zero meridian: the first point
  A(6, -10, -8, 10),     \* across it: both
  A(6, 1, -8, -23),      \* around the back of the globe: the first point,
                         \* and not the second, which lies on its front
  A(-20, -30, 20, -1),   \* with a corner off the globe: what it lists of the
                         \* second point is up to the conversion
  A(6, 0, -8, Infinity), \* 0 times infinity: lists the second point
  A(6, 1, -8, NaN)       \* fails the assertion
}
=============================================================================
