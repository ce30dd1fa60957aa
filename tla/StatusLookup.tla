------------------------------ MODULE StatusLookup -----------------------------
(***************************************************************************)
(* GetHttpCodeMessage: the message of a status code, found in the table    *)
(* rescode by the lower_bound of stdext.h, one action per round of its     *)
(* loop.  The table is a C array: positions count from 0, and one that is  *)
(* not below Size must not be read.                                        *)
(***************************************************************************)
EXTENDS Integers, Sequences

CONSTANTS
  rescode,  \* the codes of the table, in its order
  Codes     \* codes that are looked up

ASSUME TableAssumption ==
  /\ rescode \in Seq(Nat)
  /\ \A i, j \in DOMAIN rescode : i < j => rescode[i] < rescode[j]
ASSUME CodesAssumption == Codes \subseteq Nat

VARIABLES
  code,     \* the code that is looked up
  first,    \* where the rest of the search begins
  len,      \* how long it is
  message   \* where the message was found; Nowhere for the empty message

lookupvars == <<code, first, len, message>>

Size == Len(rescode)
Entry(position) == rescode[position + 1]
Searching == -1
Nowhere == -2

Init ==
  /\ code \in Codes
  /\ first = 0 /\ len = Size
  /\ message = Searching

(* Faulty variant of Before: an entry that is equal counts as before. *)
BeforeOrAt(position) == Entry(position) <= code

(* HttpCodeLess. *)
Before(position) == Entry(position) < code

Half == len \div 2

(* Faulty variant of GoRight: the middle stays in the rest. *)
GoRightKeepsMiddle ==
  /\ message = Searching /\ len > 0
  /\ Before(first + Half)
  /\ first' = first + Half + 1
  /\ len' = len - Half
  /\ UNCHANGED <<code, message>>

(* The middle is before the code: it and all in front of it are left out.  *)
GoRight ==
  /\ message = Searching /\ len > 0
  /\ Before(first + Half)
  /\ first' = first + Half + 1
  /\ len' = len - Half - 1
  /\ UNCHANGED <<code, message>>

GoLeft ==
  /\ message = Searching /\ len > 0
  /\ ~Before(first + Half)
  /\ len' = Half
  /\ UNCHANGED <<code, first, message>>

(* lower_bound returned: behind the table, or at an entry that may be      *)
(* another code's.                                                         *)
Answer ==
  /\ message = Searching /\ len = 0
  /\ message' = IF first # Size /\ Entry(first) = code THEN first ELSE Nowhere
  /\ UNCHANGED <<code, first, len>>

Next == GoRight \/ GoLeft \/ Answer

Spec == Init /\ [][Next]_lookupvars
-----------------------------------------------------------------------------
(* The search stays in the table: the entry that the next round reads      *)
(* exists (stdext.h:42-54).                                                *)
TypeOK ==
  /\ code \in Codes
  /\ first \in 0..Size /\ len \in 0..Size /\ first + len <= Size
  /\ message \in {Searching, Nowhere} \cup 0..(Size - 1)

(* The message is the code's own, and it is empty only for codes that are  *)
(* not in the table (HttpServerResponse.cpp:115-123).                      *)
LookupRight ==
  /\ message >= 0 => Entry(message) = code
  /\ message = Nowhere => \A i \in DOMAIN rescode : rescode[i] # code
=============================================================================
