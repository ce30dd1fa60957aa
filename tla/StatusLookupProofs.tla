--------------------------- MODULE StatusLookupProofs ---------------------------
(***************************************************************************)
(* Proofs about StatusLookup, for any ascending table and any codes.       *)
(*                                                                         *)
(* The argument: what lies in front of the rest is smaller than the code,  *)
(* what lies behind it is not, because the table ascends and the entry in  *)
(* the middle was compared.                                                *)
(***************************************************************************)
EXTENDS StatusLookup, TLAPS

(* The rest of the search is all that can hold the code. *)
Narrowed ==
  /\ \A i \in DOMAIN rescode : i <= first => rescode[i] < code
  /\ \A i \in DOMAIN rescode : first + len < i => code <= rescode[i]

Inv == TypeOK /\ Narrowed /\ LookupRight
-----------------------------------------------------------------------------
(* The table is a sequence of numbers. *)
LEMMA TableType ==
  /\ Size \in Nat
  /\ DOMAIN rescode = 1..Size
  /\ \A i \in 1..Size : rescode[i] \in Nat
BY TableAssumption DEF Size

(* The middle of what is left lies in the table. *)
LEMMA MiddleInside ==
  ASSUME TypeOK, len > 0
  PROVE  /\ Half \in Nat /\ Half < len
         /\ first + Half + 1 \in 1..Size
BY TableType DEF TypeOK, Half

(* The search begins with the whole table. *)
LEMMA InitInv == Init => Inv
BY TableType DEF Init, Inv, TypeOK, Narrowed, LookupRight, Searching, Nowhere

(* What is in front of an entry before the code is smaller. *)
LEMMA GoRightInv ==
  ASSUME Inv, GoRight
  PROVE  Inv'
<1>1. /\ message = Searching /\ len > 0
      /\ Entry(first + Half) < code
      /\ first' = first + Half + 1 /\ len' = len - Half - 1
      /\ UNCHANGED <<code, message>>
  BY DEF GoRight, Before
<1>2. Half \in Nat /\ Half < len /\ first + Half + 1 \in 1..Size
  BY <1>1, MiddleInside DEF Inv
<1>3. TypeOK'
  BY <1>1, <1>2, TableType DEF Inv, TypeOK
<1>4. rescode[first'] < code
  BY <1>1 DEF Entry
<1>5. \A i \in DOMAIN rescode : i <= first' => rescode[i] < code
  <2> SUFFICES ASSUME NEW i \in DOMAIN rescode, i <= first' PROVE rescode[i] < code
    OBVIOUS
  <2>1. PICK m \in 1..Size : m = first'
    BY <1>1, <1>2
  <2>2. i \in 1..Size /\ rescode[i] \in Nat /\ rescode[m] \in Nat /\ code \in Nat
    BY TableType, CodesAssumption DEF Inv, TypeOK
  <2>3. i = m \/ rescode[i] < rescode[m]
    BY <2>1, <2>2, TableAssumption, TableType
  <2>4. QED
    BY <1>4, <2>1, <2>2, <2>3
<1>6. first' + len' = first + len
  BY <1>1, <1>2, TableType DEF Inv, TypeOK
<1>7. Narrowed'
  BY <1>1, <1>5, <1>6 DEF Inv, Narrowed
<1>8. LookupRight'
  BY <1>1 DEF LookupRight, Searching, Nowhere
<1>9. QED
  BY <1>3, <1>7, <1>8 DEF Inv

(* What is behind an entry that is not before the code is not either. *)
LEMMA GoLeftInv ==
  ASSUME Inv, GoLeft
  PROVE  Inv'
<1>1. /\ message = Searching /\ len > 0
      /\ ~(Entry(first + Half) < code)
      /\ len' = Half
      /\ UNCHANGED <<code, first, message>>
  BY DEF GoLeft, Before
<1>2. Half \in Nat /\ Half < len /\ first + Half + 1 \in 1..Size
  BY <1>1, MiddleInside DEF Inv
<1>3. TypeOK'
  BY <1>1, <1>2, TableType DEF Inv, TypeOK
<1>4. code <= rescode[first + Half + 1]
  BY <1>1, <1>2, TableType, CodesAssumption DEF Entry, Inv, TypeOK
<1>5. \A i \in DOMAIN rescode : first' + len' < i => code <= rescode[i]
  <2> SUFFICES ASSUME NEW i \in DOMAIN rescode, first' + len' < i PROVE code <= rescode[i]
    OBVIOUS
  <2>1. PICK m \in 1..Size : m = first + Half + 1
    BY <1>2
  <2>2. i \in 1..Size /\ rescode[i] \in Nat /\ rescode[m] \in Nat /\ code \in Nat
    BY TableType, CodesAssumption DEF Inv, TypeOK
  <2>3. m <= i
    BY <1>1, <1>2, <2>1, <2>2, TableType DEF Inv, TypeOK
  <2>4. i = m \/ rescode[m] < rescode[i]
    BY <2>1, <2>2, <2>3, TableAssumption, TableType
  <2>5. QED
    BY <1>4, <2>1, <2>2, <2>4
<1>6. Narrowed'
  BY <1>1, <1>5 DEF Inv, Narrowed
<1>7. LookupRight'
  BY <1>1 DEF LookupRight, Searching, Nowhere
<1>8. QED
  BY <1>3, <1>6, <1>7 DEF Inv

(* With nothing left, the code is at first or nowhere. *)
LEMMA AnswerInv ==
  ASSUME Inv, Answer
  PROVE  Inv'
<1>1. /\ message = Searching /\ len = 0
      /\ message' = IF first # Size /\ Entry(first) = code THEN first ELSE Nowhere
      /\ UNCHANGED <<code, first, len>>
  BY DEF Answer
<1>2. Narrowed'
  BY <1>1 DEF Inv, Narrowed
<1>3. CASE first # Size /\ Entry(first) = code
  <2>1. message' = first /\ first \in 0..(Size - 1)
    BY <1>1, <1>3, TableType DEF Inv, TypeOK
  <2>2. TypeOK' /\ LookupRight'
    BY <1>1, <1>3, <2>1, TableType DEF Inv, TypeOK, LookupRight, Entry, Nowhere
  <2>3. QED
    BY <1>2, <2>2 DEF Inv
<1>4. CASE ~(first # Size /\ Entry(first) = code)
  <2>1. message' = Nowhere
    BY <1>1, <1>4
  <2>2. \A i \in DOMAIN rescode : rescode[i] # code
    <3> SUFFICES ASSUME NEW i \in DOMAIN rescode, rescode[i] = code PROVE FALSE
      OBVIOUS
    <3>1. ~(i <= first)
      BY TableType, CodesAssumption DEF Inv, Narrowed, TypeOK
    <3>2. i # first + 1
      BY <1>4, <3>1, TableType DEF Entry, Inv, TypeOK
    <3>3. first + 1 \in DOMAIN rescode /\ first + 1 < i
      BY <3>1, <3>2, TableType DEF Inv, TypeOK
    <3>4. rescode[first + 1] < rescode[i] /\ code <= rescode[first + 1]
      BY <1>1, <3>3, TableAssumption, TableType DEF Inv, Narrowed, TypeOK
    <3>5. QED
      BY <3>3, <3>4, TableType, CodesAssumption DEF Inv, TypeOK
  <2>3. TypeOK' /\ LookupRight'
    BY <1>1, <2>1, <2>2 DEF Inv, TypeOK, LookupRight, Nowhere
  <2>4. QED
    BY <1>2, <2>3 DEF Inv
<1>5. QED
  BY <1>3, <1>4

(* The invariant holds of every look-up. *)
THEOREM Invariance == Spec => []Inv
<1>1. Inv /\ [Next]_lookupvars => Inv'
  <2> SUFFICES ASSUME Inv, [Next]_lookupvars PROVE Inv'
    OBVIOUS
  <2>1. CASE UNCHANGED lookupvars
    BY <2>1 DEF lookupvars, Inv, TypeOK, Narrowed, LookupRight
  <2>2. QED
    BY <2>1, GoRightInv, GoLeftInv, AnswerInv DEF Next
<1>2. QED
  BY <1>1, InitInv, PTL DEF Spec

(* No round reads an entry outside the table. *)
THEOREM InsideTable == Spec => []TypeOK
<1>1. Inv => TypeOK
  BY DEF Inv
<1>2. QED
  BY <1>1, Invariance, PTL

(* The message belongs to the code, for every ascending table. *)
THEOREM MessageRight == Spec => []LookupRight
<1>1. Inv => LookupRight
  BY DEF Inv
<1>2. QED
  BY <1>1, Invariance, PTL
=============================================================================
