------------------------------- MODULE ByteStream ------------------------------
(***************************************************************************)
(* ByteStream, the body of a request: bytes that are written at a position *)
(* and grow where there is no room behind it.  `bytes' holds nowsize       *)
(* bytes; what realloc reserves beyond them is never seen, and memory is   *)
(* taken to suffice.  Read and SetSize of another size than 0 have no      *)
(* caller.                                                                 *)
(***************************************************************************)
EXTENDS Naturals, Sequences

(* CreateInstanse, and SetSize(0). *)
NewStream == [bytes |-> <<>>, nowpos |-> 0]

(* The bytes are written over what is behind nowpos, and where that is too *)
(* short the stream ends with them.                                        *)
Write(s, pv) ==
  LET end == s.nowpos + Len(pv)
  IN [bytes  |-> SubSeq(s.bytes, 1, s.nowpos) \o pv \o SubSeq(s.bytes, end + 1, Len(s.bytes)),
      nowpos |-> end]
=============================================================================
