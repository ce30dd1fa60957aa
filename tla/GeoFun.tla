--------------------------------- MODULE GeoFun --------------------------------
(***************************************************************************)
(* The codes under which points are stored (geofunction.cpp): the bits of  *)
(* the two coordinates interleaved, written most significant byte first,   *)
(* so that the BTREE, which compares keys byte by byte, is ordered by      *)
(* code.                                                                   *)
(*                                                                         *)
(* A coordinate is an integer, Grain to a unit of the code (1e-6 degrees), *)
(* as clients give more digits than a code keeps; atof makes infinities    *)
(* too, and what is not a number.  A float sum is rounded, here to a       *)
(* multiple of SumStep; and a unit that does not fit a float is rounded on *)
(* the way back, with the float sum that follows, to a multiple of         *)
(* FloatStep units.  Floats lie closer for smaller numbers: what is used   *)
(* of a rounding is that it keeps the order and how far it leads.          *)
(***************************************************************************)
EXTENDS Integers, Sequences, FiniteSetsExt

CONSTANTS
  Bits,       \* bits of a coordinate (32)
  ByteBits,   \* bits of a byte of a key (8)
  Grain,      \* steps of a coordinate to a unit
  FloatStep,  \* units between floats, on the way back
  SumStep,    \* steps between floats, in sums
  HalfLat,    \* 90 degrees
  HalfLng,    \* 180 degrees
  Infinity,   \* off every globe and every code
  Undefined   \* what a number that does not fit may be converted to

ASSUME GlobeAssumption ==
  /\ Bits \in Nat \ {0} /\ ByteBits \in Nat \ {0} /\ (2 * Bits) % ByteBits = 0
  /\ Grain \in Nat \ {0} /\ FloatStep \in Nat \ {0} /\ SumStep \in Nat \ {0}
  /\ HalfLat \in Nat \ {0} /\ 2 * HalfLat + SumStep < Grain * 2 ^ Bits
  /\ HalfLng \in Nat \ {0} /\ 2 * HalfLng + SumStep < Grain * 2 ^ Bits
ASSUME FloatAssumption ==
  /\ Infinity \in Nat
  /\ Infinity > Grain * (2 ^ Bits + FloatStep) + SumStep + HalfLat + HalfLng
  /\ Undefined # {} /\ Undefined \subseteq 0..(2 ^ Bits - 1)

(* Floats and their comparisons: nothing is less than what is no number,   *)
(* or more.                                                                *)
NaN == Infinity + 1
Float == (-Infinity)..NaN
Less(a, b) == NaN \notin {a, b} /\ a < b
AtMost(a, b) == NaN \notin {a, b} /\ a <= b
Nearest(n, step) == ((n + step \div 2) \div step) * step
FloatSum(n) == Nearest(n, SumStep)

Bit(n, i) == (n \div 2 ^ i) % 2
SumOver(value(_), S) == MapThenSumSet(value, S)

(* The bits of first at the even places, those of second at the odd ones. *)
Combine(first, second) ==
  LET place(i) == Bit(first, i) * 2 ^ (2 * i) + Bit(second, i) * 2 ^ (2 * i + 1)
  IN SumOver(place, 0..(Bits - 1))

(* Faulty variant of Split: the odd places are shifted too little. *)
SplitUneven(src) ==
  LET even(i) == Bit(src, 2 * i) * 2 ^ i
      odd(i) == Bit(src, 2 * i + 1) * 2 ^ (i + 1)
  IN [first |-> SumOver(even, 0..(Bits - 1)), second |-> SumOver(odd, 0..(Bits - 1))]

Split(src) ==
  LET even(i) == Bit(src, 2 * i) * 2 ^ i
      odd(i) == Bit(src, 2 * i + 1) * 2 ^ i
  IN [first |-> SumOver(even, 0..(Bits - 1)), second |-> SumOver(odd, 0..(Bits - 1))]

(* Faulty variant of LongToByte: least significant byte first. *)
LongToByteReversed(src) ==
  [k \in 1..((2 * Bits) \div ByteBits) |-> (src \div 2 ^ (ByteBits * (k - 1))) % 2 ^ ByteBits]

(* A key: the bytes of a code, the most significant one first. *)
Bytes == (2 * Bits) \div ByteBits
LongToByte(src) ==
  [k \in 1..Bytes |-> (src \div 2 ^ (ByteBits * (Bytes - k))) % 2 ^ ByteBits]
ByteToLong(key) ==
  LET place(k) == key[k] * 2 ^ (ByteBits * (Bytes - k))
  IN SumOver(place, 1..Bytes)

(* How the BTREE compares two keys. *)
KeyBefore(key, other) ==
  \E k \in DOMAIN key : key[k] < other[k] /\ \A j \in 1..(k - 1) : key[j] = other[j]

(* The conversion of (x + half) * 1e6 to unsigned.  It cuts off what is    *)
(* less than a unit, and is undefined where that leaves no number or one   *)
(* that does not fit.                                                      *)
Unsigned(x, half) ==
  LET sum == FloatSum(x + half)
  IN IF x # NaN /\ -Grain < sum /\ sum < Grain * 2 ^ Bits
     THEN {IF sum < 0 THEN 0 ELSE sum \div Grain}
     ELSE Undefined

(* What CombineForGeo may return. *)
CombineForGeo(lat, lng) ==
  {Combine(first, second) : first \in Unsigned(lat, HalfLat), second \in Unsigned(lng, HalfLng)}

ToFloat(n) == Nearest(n, FloatStep)
SplitForGeo(src) ==
  [lat |-> ToFloat(Split(src).first) * Grain - HalfLat,
   lng |-> ToFloat(Split(src).second) * Grain - HalfLng]
=============================================================================
