---------------------------- MODULE RefPointerProofs ---------------------------
(***************************************************************************)
(* Proofs about RefPointer, for any threads, pointers and objects.         *)
(*                                                                         *)
(* The argument: a thread may only copy from a pointer that it holds and   *)
(* that counts, so what it is about to point to has a count of one at      *)
(* least, or was created by it and is known to nobody else.  A count of 0  *)
(* therefore means that no pointer counts in the object and that no thread *)
(* is on the way to it: the thread that saw the 0 may delete it.           *)
(***************************************************************************)
EXTENDS RefPointer, FiniteSetTheorems, TLAPS

Busy(t) == work[t].at # "idle"

(* A thread works on a pointer that it holds. *)
WorkOK ==
  \A t \in Thread :
    /\ Busy(t) => work[t].to \in Pointer /\ holder[work[t].to] = t
    /\ ~Busy(t) => work[t] = Idle
    /\ work[t].at \in {"release", "delete"} => point[work[t].to] # NULL
    /\ work[t].at = "addref" => work[t].value # NULL /\ point[work[t].to] = work[t].value

(* Where the value comes from: another pointer that the thread holds, or   *)
(* an object that only this thread knows.                                  *)
Copied(t) ==
  /\ work[t].from \in Pointer /\ work[t].from # work[t].to
  /\ holder[work[t].from] = t
  /\ point[work[t].from] = work[t].value
Fresh(t) ==
  /\ Counted(work[t].value) = {}
  /\ \A u \in Thread \ {t} : Busy(u) => work[u].value # work[t].value
SourceOK ==
  \A t \in Thread : Busy(t) /\ work[t].value # NULL =>
    work[t].value \in live /\ (Copied(t) \/ Fresh(t))

(* What is about to be deleted is known to no other thread. *)
Doomed(t, o) == work[t].at = "delete" /\ point[work[t].to] = o
DeleteOK ==
  \A t \in Thread, o \in Obj : Doomed(t, o) =>
    /\ o \in live
    /\ Counted(o) = {}
    /\ \A u \in Thread \ {t} : ~Doomed(u, o)
    /\ \A u \in Thread : Busy(u) => work[u].value # o

CountedLive == \A o \in Obj : Counted(o) # {} => o \in live

Kept ==
  \A o \in live :
    \/ Counted(o) # {}
    \/ \E t \in Thread : Busy(t) /\ work[t].value = o
    \/ \E t \in Thread : Doomed(t, o)

Inv ==
  /\ TypeOK /\ WorkOK /\ SourceOK /\ DeleteOK
  /\ RefIsCount /\ CountedLive /\ Kept
-----------------------------------------------------------------------------
(* The pointers that count in an object are finitely many. *)
LEMMA CountedFinite ==
  ASSUME NEW o
  PROVE  IsFiniteSet(Counted(o)) /\ Cardinality(Counted(o)) \in Nat
<1>1. Counted(o) \subseteq Pointer
  BY DEF Counted
<1>2. QED
  BY <1>1, FS_Subset, FS_CardinalityType, PointerAssumption

(* Two threads do not work on the same pointer. *)
LEMMA OneWorker ==
  ASSUME WorkOK, NEW t \in Thread, NEW u \in Thread, Busy(t), Busy(u),
         work[t].to = work[u].to
  PROVE  t = u
BY DEF WorkOK

(* A pointer that a thread holds, and is not working on, counts.           *)
LEMMA HeldCounts ==
  ASSUME TypeOK, WorkOK, NEW t \in Thread, NEW q \in Pointer,
         holder[q] = t, point[q] # NULL, ~Busy(t) \/ work[t].to # q
  PROVE  point[q] \in Obj /\ q \in Counted(point[q])
<1>1. \A u \in Thread : Busy(u) => work[u].to # q
  BY DEF WorkOK
<1>2. ~Uncounted(q)
  BY <1>1 DEF Uncounted, Busy
<1>3. QED
  BY <1>2 DEF Counted, TypeOK

(* What a thread is about to point to has a count, or is its own. *)
LEMMA ValueCounts ==
  ASSUME TypeOK, WorkOK, NEW t \in Thread, Busy(t), work[t].value # NULL, Copied(t)
  PROVE  work[t].from \in Counted(work[t].value)
BY HeldCounts DEF Copied
-----------------------------------------------------------------------------
(* Before the first step no pointer points anywhere. *)
LEMMA InitInv == Init => Inv
<1> SUFFICES ASSUME Init PROVE Inv
  OBVIOUS
<1>1. TypeOK
  BY PointerAssumption DEF Init, TypeOK, Idle, Stage
<1>2. WorkOK /\ SourceOK /\ DeleteOK
  BY DEF Init, WorkOK, SourceOK, DeleteOK, Doomed, Busy, Idle
<1>3. \A o \in Obj : Counted(o) = {}
  BY PointerAssumption DEF Init, Counted
<1>4. RefIsCount /\ CountedLive /\ Kept
  BY <1>3 DEF Init, RefIsCount, CountedLive, Kept
<1>5. QED
  BY <1>1, <1>2, <1>4 DEF Inv

(* Taking or giving back a mutex. *)
LEMMA LockInv ==
  ASSUME Inv, NEW t \in Thread, NEW p \in Pointer, Lock(t, p) \/ Unlock(t, p)
  PROVE  Inv'
<1> USE DEF Inv
<1>1. UNCHANGED <<point, ref, live, work>> /\ holder' \in [Pointer -> Thread \cup {Nobody}]
  BY DEF Lock, Unlock, TypeOK
<1>2. \A q \in Pointer, u \in Thread : Busy(u) /\ holder[q] = u => holder'[q] = u
  BY PointerAssumption DEF Lock, Unlock, Mine, Busy, Idle, TypeOK
<1>3. \A u \in Thread : Busy(u)' = Busy(u)
  BY <1>1 DEF Busy
<1>4. \A o : Counted(o)' = Counted(o)
  BY <1>1 DEF Counted, Uncounted
<1>5. TypeOK'
  BY <1>1 DEF TypeOK
<1>6. WorkOK'
  BY <1>1, <1>2, <1>3 DEF WorkOK
<1>7. SourceOK'
  BY <1>1, <1>2, <1>3, <1>4 DEF SourceOK, Copied, Fresh
<1>8. DeleteOK' /\ RefIsCount' /\ CountedLive' /\ Kept'
  BY <1>1, <1>3, <1>4 DEF DeleteOK, Doomed, RefIsCount, CountedLive, Kept
<1>9. QED
  BY <1>5, <1>6, <1>7, <1>8
-----------------------------------------------------------------------------
(* The beginning of an assignment changes no count: a pointer that is      *)
(* NULL counts nowhere.                                                    *)
LEMMA BeginCounted ==
  ASSUME TypeOK, WorkOK, NEW t \in Thread, NEW p \in Pointer, NEW v \in Obj \cup {NULL},
         NEW q \in Pointer \cup {NoPointer}, Begin(t, p, v, q), point' = point
  PROVE  /\ \A o \in Obj : Counted(o)' = Counted(o)
         /\ work' \in [Thread -> [at : Stage, to : Pointer \cup {NoPointer},
                                  value : Obj \cup {NULL}, from : Pointer \cup {NoPointer}]]
         /\ \A u \in Thread \ {t} : work'[u] = work[u]
         /\ work'[t].to = p /\ work'[t].value = v /\ work'[t].from = q
         /\ work'[t].at = IF point[p] = NULL THEN "assign" ELSE "release"
         /\ work[t] = Idle /\ holder[p] = t
<1>1. work[t] = Idle /\ holder[p] = t
  BY DEF Begin, Mine
<1>2. \A u \in Thread \ {t} : work'[u] = work[u]
  BY DEF Begin, TypeOK
<1>3. work'[t] = [at |-> IF point[p] = NULL THEN "assign" ELSE "release",
                  to |-> p, value |-> v, from |-> q]
  BY DEF Begin, TypeOK
<1>4. work' \in [Thread -> [at : Stage, to : Pointer \cup {NoPointer},
                            value : Obj \cup {NULL}, from : Pointer \cup {NoPointer}]]
  BY DEF Begin, TypeOK, Stage
<1>5. \A x \in Pointer : point[x] # NULL => (Uncounted(x)' <=> Uncounted(x))
  <2> SUFFICES ASSUME NEW x \in Pointer, point[x] # NULL
               PROVE  Uncounted(x)' <=> Uncounted(x)
    OBVIOUS
  <2>1. ~(work[t].to = x /\ work[t].at \in {"delete", "assign", "addref"})
    BY <1>1 DEF Idle
  <2>2. ~(work'[t].to = x /\ work'[t].at \in {"delete", "assign", "addref"})
    BY <1>3
  <2>3. QED
    BY <1>2, <2>1, <2>2 DEF Uncounted
<1>6. \A o \in Obj : Counted(o)' = Counted(o)
  BY <1>5, PointerAssumption DEF Counted
<1>7. QED
  BY <1>1, <1>2, <1>3, <1>4, <1>6

(* An assignment begins whose value is live, or NULL, and is copied from a *)
(* pointer of the thread or known to it alone.                             *)
LEMMA BeginInv ==
  ASSUME Inv, NEW t \in Thread, NEW p \in Pointer, NEW v \in Obj \cup {NULL},
         NEW q \in Pointer \cup {NoPointer}, Begin(t, p, v, q),
         UNCHANGED <<point, holder>>, live' \subseteq Obj, live \subseteq live',
         live' \subseteq live \cup {v},
         ref' \in [Obj -> Nat], \A o \in live : ref'[o] = ref[o],
         v \in live' \ live => ref'[v] = 0,
         v # NULL => /\ v \in live'
                     /\ \A o \in Obj, u \in Thread : Doomed(u, o) => v # o
                     /\ \/ q \in Pointer /\ q # p /\ holder[q] = t /\ point[q] = v
                        \/ v \notin live
  PROVE  Inv'
<1> USE DEF Inv
<1>1. /\ \A o \in Obj : Counted(o)' = Counted(o)
      /\ work' \in [Thread -> [at : Stage, to : Pointer \cup {NoPointer},
                               value : Obj \cup {NULL}, from : Pointer \cup {NoPointer}]]
      /\ \A u \in Thread \ {t} : work'[u] = work[u]
      /\ work'[t].to = p /\ work'[t].value = v /\ work'[t].from = q
      /\ work'[t].at = IF point[p] = NULL THEN "assign" ELSE "release"
      /\ work[t] = Idle /\ holder[p] = t
  BY BeginCounted
<1>2. Busy(t)' /\ ~Busy(t) /\ \A u \in Thread \ {t} : Busy(u)' = Busy(u)
  BY <1>1 DEF Busy, Idle
<1>3. \A u \in Thread, o \in Obj : Doomed(u, o)' = Doomed(u, o)
  BY <1>1 DEF Doomed, Idle
<1>4. TypeOK'
  BY <1>1 DEF TypeOK
<1>5. WorkOK'
  <2> SUFFICES ASSUME NEW u \in Thread
               PROVE  /\ Busy(u)' => work'[u].to \in Pointer /\ holder'[work'[u].to] = u
                      /\ ~Busy(u)' => work'[u] = Idle
                      /\ work'[u].at \in {"release", "delete"} => point'[work'[u].to] # NULL
                      /\ work'[u].at = "addref" =>
                           work'[u].value # NULL /\ point'[work'[u].to] = work'[u].value
    BY DEF WorkOK
  <2>1. CASE u = t
    BY <1>1, <1>2, <2>1
  <2>2. CASE u # t
    BY <1>1, <1>2, <2>2 DEF WorkOK
  <2>3. QED
    BY <2>1, <2>2
<1>6. SourceOK'
  <2> SUFFICES ASSUME NEW u \in Thread, Busy(u)', work'[u].value # NULL
               PROVE  work'[u].value \in live' /\ (Copied(u)' \/ Fresh(u)')
    BY DEF SourceOK
  <2>1. CASE u = t
    <3>1. CASE q \in Pointer /\ q # p /\ holder[q] = t /\ point[q] = v
      BY <1>1, <2>1, <3>1 DEF Copied
    <3>2. CASE v \notin live
      <4>1. Counted(v) = {}
        BY <2>1, <1>1, <3>2 DEF CountedLive
      <4>2. \A w \in Thread \ {t} : Busy(w) => work[w].value # v
        BY <1>1, <2>1, <3>2 DEF SourceOK
      <4>3. QED
        BY <1>1, <1>2, <2>1, <4>1, <4>2 DEF Fresh
    <3>3. QED
      BY <1>1, <2>1, <3>1, <3>2
  <2>2. CASE u # t
    <3>1. work'[u] = work[u] /\ Busy(u) /\ work[u].value \in live /\ work[u].value \in Obj
      BY <1>1, <1>2, <2>2 DEF SourceOK, TypeOK
    <3>2. CASE Copied(u)
      BY <3>1, <3>2 DEF Copied
    <3>3. CASE Fresh(u)
      <4>1. work[u].value # v
        <5> SUFFICES ASSUME work[u].value = v PROVE FALSE
          OBVIOUS
        <5>1. q \in Pointer /\ q # p /\ holder[q] = t /\ point[q] = v
          BY <1>1, <3>1, <2>2
        <5>2. q \in Counted(v)
          BY <5>1, <1>2, <3>1, HeldCounts, PointerAssumption
        <5>3. QED
          BY <5>2, <3>3 DEF Fresh
      <4>2. QED
        BY <1>1, <1>2, <3>1, <3>3, <4>1 DEF Fresh
    <3>4. QED
      BY <3>1, <3>2, <3>3, <2>2 DEF SourceOK
  <2>3. QED
    BY <2>1, <2>2
<1>7. DeleteOK'
  BY <1>1, <1>2, <1>3, PointerAssumption DEF DeleteOK
<1>8. RefIsCount'
  <2> SUFFICES ASSUME NEW o \in live'
               PROVE  ref'[o] = Cardinality(Counted(o)')
    BY DEF RefIsCount
  <2>1. CASE o \in live
    BY <1>1, <2>1 DEF RefIsCount
  <2>2. CASE o \notin live
    <3>1. o = v /\ Counted(o) = {}
      BY <2>2 DEF CountedLive
    <3>2. QED
      BY <1>1, <2>2, <3>1, FS_EmptySet
  <2>3. QED
    BY <2>1, <2>2
<1>9. CountedLive'
  BY <1>1 DEF CountedLive
<1>10. Kept'
  <2> SUFFICES ASSUME NEW o \in live'
               PROVE  \/ Counted(o)' # {}
                      \/ \E u \in Thread : Busy(u)' /\ work'[u].value = o
                      \/ \E u \in Thread : Doomed(u, o)'
    BY DEF Kept
  <2>1. CASE o = v
    BY <1>1, <1>2, <2>1
  <2>2. CASE o \in live
    BY <1>1, <1>2, <1>3, <2>2 DEF Kept
  <2>3. QED
    BY <2>1, <2>2
<1>11. QED
  BY <1>4, <1>5, <1>6, <1>7, <1>8, <1>9, <1>10

(* A copy begins from a pointer of the same thread, which counts. *)
LEMMA CopyInv ==
  ASSUME Inv, NEW t \in Thread, NEW p \in Pointer, NEW q \in Pointer, Copy(t, p, q)
  PROVE  Inv'
<1> USE DEF Inv
<1>1. /\ holder[q] = t /\ point[q] # NULL /\ Begin(t, p, point[q], q)
      /\ UNCHANGED <<point, ref, live, holder>>
  BY DEF Copy, Mine
<1>2. ~Busy(t) /\ q # p
  BY <1>1 DEF Begin, Busy, Idle
<1>3. point[q] \in Obj /\ q \in Counted(point[q])
  BY <1>1, <1>2, HeldCounts
<1>4. point[q] \in live /\ \A o \in Obj, u \in Thread : Doomed(u, o) => point[q] # o
  BY <1>3 DEF CountedLive, DeleteOK
<1>5. QED
  BY <1>1, <1>2, <1>3, <1>4, BeginInv DEF TypeOK

(* A pointer that goes gets no new value. *)
LEMMA DropInv ==
  ASSUME Inv, NEW t \in Thread, NEW p \in Pointer, Drop(t, p)
  PROVE  Inv'
<1>1. Begin(t, p, NULL, NoPointer) /\ UNCHANGED <<point, ref, live, holder>>
  BY DEF Drop
<1>2. QED
  BY <1>1, BeginInv, PointerAssumption DEF Inv, TypeOK

(* Nobody else knows the address of a new object. *)
LEMMA CreateInv ==
  ASSUME Inv, NEW t \in Thread, NEW p \in Pointer, Create(t, p)
  PROVE  Inv'
<1> USE DEF Inv
<1>1. PICK o \in Obj \ live :
        /\ Begin(t, p, o, NoPointer)
        /\ live' = live \cup {o}
        /\ ref' = [ref EXCEPT ![o] = 0]
        /\ UNCHANGED <<point, holder>>
  BY DEF Create
<1>2. \A x \in Obj, u \in Thread : Doomed(u, x) => o # x
  BY <1>1 DEF DeleteOK
<1>3. ref' \in [Obj -> Nat] /\ ref'[o] = 0 /\ \A x \in live : ref'[x] = ref[x]
  BY <1>1 DEF TypeOK
<1>4. live' \subseteq Obj
  BY <1>1 DEF TypeOK
<1>5. QED
  BY <1>1, <1>2, <1>3, <1>4, BeginInv
-----------------------------------------------------------------------------
(* A step of a thread in the middle of an assignment changes its work only *)
(* in how far it is.                                                       *)
LEMMA StageStep ==
  ASSUME TypeOK, WorkOK, NEW t \in Thread, NEW at \in Stage \ {"idle"}, Busy(t),
         work' = [work EXCEPT ![t].at = at], holder' = holder
  PROVE  /\ work' \in [Thread -> [at : Stage, to : Pointer \cup {NoPointer},
                                  value : Obj \cup {NULL}, from : Pointer \cup {NoPointer}]]
         /\ \A u \in Thread \ {t} : work'[u] = work[u]
         /\ work'[t].at = at /\ work'[t].to = work[t].to
         /\ work'[t].value = work[t].value /\ work'[t].from = work[t].from
         /\ \A u \in Thread : Busy(u)' = Busy(u)
         /\ work[t].to \in Pointer /\ holder[work[t].to] = t
BY DEF TypeOK, WorkOK, Busy, Stage

(* The decrement takes one pointer out of the count of one object.  Where  *)
(* it leaves 0, nobody else can reach the object any more.                 *)
LEMMA ReleaseInv ==
  ASSUME Inv, NEW t \in Thread, Release(t)
  PROVE  Inv'
<1> USE DEF Inv
<1> DEFINE p == work[t].to
           o == point[p]
           next == IF ref[o] - 1 = 0 THEN "delete" ELSE "assign"
<1>1. /\ work[t].at = "release" /\ Busy(t)
      /\ ref' = [ref EXCEPT ![o] = @ - 1]
      /\ work' = [work EXCEPT ![t].at = next]
      /\ UNCHANGED <<point, live, holder>>
  BY DEF Release, Busy
<1>2. /\ work' \in [Thread -> [at : Stage, to : Pointer \cup {NoPointer},
                               value : Obj \cup {NULL}, from : Pointer \cup {NoPointer}]]
      /\ \A u \in Thread \ {t} : work'[u] = work[u]
      /\ work'[t].at = next /\ work'[t].to = p
      /\ work'[t].value = work[t].value /\ work'[t].from = work[t].from
      /\ \A u \in Thread : Busy(u)' = Busy(u)
      /\ p \in Pointer /\ holder[p] = t
  <2>1. next \in Stage \ {"idle"}
    BY DEF Stage
  <2> HIDE DEF next
  <2>2. QED
    BY <1>1, <2>1, StageStep
<1>3. o # NULL /\ o \in Obj
  BY <1>1, <1>2 DEF WorkOK, TypeOK
<1>4. \A u \in Thread \ {t} : Busy(u) => work[u].to # p
  BY <1>1, OneWorker
<1>5. p \in Counted(o)
  BY <1>1, <1>2, <1>3, <1>4 DEF Counted, Uncounted, Busy
<1>6. Uncounted(p)'
  BY <1>2 DEF Uncounted
<1>7. \A x \in Pointer \ {p} : Uncounted(x)' = Uncounted(x)
  BY <1>1, <1>2 DEF Uncounted
<1>8. Counted(o)' = Counted(o) \ {p}
  BY <1>1, <1>5, <1>6, <1>7 DEF Counted
<1>9. \A x \in Obj \ {o} : Counted(x)' = Counted(x)
  BY <1>1, <1>6, <1>7 DEF Counted
<1>10. o \in live /\ ref[o] = Cardinality(Counted(o)) /\ ref[o] \in Nat
  BY <1>3, <1>5 DEF CountedLive, RefIsCount, TypeOK
<1>11. /\ IsFiniteSet(Counted(o)) /\ Cardinality(Counted(o) \ {p}) = ref[o] - 1
       /\ ref[o] - 1 \in Nat
  <2>1. IsFiniteSet(Counted(o))
    BY CountedFinite
  <2>2. Cardinality(Counted(o) \ {p}) = ref[o] - 1
    BY <1>5, <1>10, <2>1, FS_RemoveElement
  <2>3. Cardinality(Counted(o) \ {p}) \in Nat
    BY <2>1, FS_RemoveElement, FS_CardinalityType
  <2>4. QED
    BY <2>1, <2>2, <2>3
<1>12. Counted(o)' = {} <=> ref[o] - 1 = 0
  <2>1. IsFiniteSet(Counted(o) \ {p})
    BY <1>11, FS_RemoveElement
  <2>2. QED
    BY <1>8, <1>11, <2>1, FS_EmptySet
<1>13. \A u \in Thread, x \in Obj : u # t => Doomed(u, x)' = Doomed(u, x)
  BY <1>1, <1>2 DEF Doomed
<1>14. \A u \in Thread : ~Doomed(u, o)
  BY <1>3, <1>5 DEF DeleteOK
<1>15. TypeOK'
  BY <1>1, <1>2, <1>3, <1>10, <1>11 DEF TypeOK
<1>16. WorkOK'
  BY <1>1, <1>2, <1>3 DEF WorkOK
<1>17. SourceOK'
  <2> SUFFICES ASSUME NEW u \in Thread, Busy(u)', work'[u].value # NULL
               PROVE  work'[u].value \in live' /\ (Copied(u)' \/ Fresh(u)')
    BY DEF SourceOK
  <2>1. /\ work'[u].value = work[u].value /\ work'[u].to = work[u].to
        /\ work'[u].from = work[u].from /\ Busy(u)
    BY <1>2
  <2>2. work[u].value \in live /\ (Copied(u) \/ Fresh(u))
    BY <2>1 DEF SourceOK
  <2>3. Copied(u) => Copied(u)'
    BY <1>1, <2>1 DEF Copied
  <2>4. Fresh(u) => Fresh(u)'
    <3> SUFFICES ASSUME Fresh(u) PROVE Fresh(u)'
      OBVIOUS
    <3>1. work[u].value \in Obj /\ work[u].value # o
      BY <1>5, <2>2 DEF Fresh, TypeOK
    <3>2. QED
      BY <1>2, <1>9, <2>1, <3>1 DEF Fresh
  <2>5. QED
    BY <1>1, <2>1, <2>2, <2>3, <2>4
<1>18. DeleteOK'
  <2> SUFFICES ASSUME NEW u \in Thread, NEW x \in Obj, Doomed(u, x)'
               PROVE  /\ x \in live' /\ Counted(x)' = {}
                      /\ \A w \in Thread \ {u} : ~Doomed(w, x)'
                      /\ \A w \in Thread : Busy(w)' => work'[w].value # x
    BY DEF DeleteOK
  <2>1. CASE u = t
    <3>1. x = o /\ ref[o] - 1 = 0
      BY <1>1, <1>2, <2>1 DEF Doomed
    <3>2. Counted(o)' = {} /\ Counted(o) = {p}
      BY <1>5, <1>8, <1>12, <3>1
    <3>3. \A w \in Thread : Busy(w) => work[w].value # o
      <4> SUFFICES ASSUME NEW w \in Thread, Busy(w), work[w].value = o PROVE FALSE
        OBVIOUS
      <4>1. Copied(w)
        BY <1>3, <1>5 DEF SourceOK, Fresh
      <4>2. work[w].from \in Counted(o)
        BY <1>3, <4>1, ValueCounts
      <4>3. work[w].from = p /\ holder[p] = w
        BY <3>2, <4>1, <4>2 DEF Copied
      <4>4. w = t
        BY <1>2, <4>3
      <4>5. QED
        BY <4>1, <4>3, <4>4 DEF Copied
    <3>4. QED
      BY <1>1, <1>2, <1>10, <1>13, <1>14, <2>1, <3>1, <3>2, <3>3
  <2>2. CASE u # t
    <3>1. Doomed(u, x) /\ x # o
      BY <1>13, <1>14, <2>2
    <3>2. ~Doomed(t, x)'
      BY <1>1, <1>2, <3>1 DEF Doomed
    <3>3. QED
      BY <1>1, <1>2, <1>9, <1>13, <3>1, <3>2 DEF DeleteOK
  <2>3. QED
    BY <2>1, <2>2
<1>19. RefIsCount'
  <2>1. ref'[o] = Cardinality(Counted(o)')
    BY <1>1, <1>3, <1>8, <1>11 DEF TypeOK
  <2>2. \A x \in live \ {o} : x \in Obj /\ ref'[x] = ref[x]
    BY <1>1, <1>3 DEF TypeOK
  <2>3. QED
    BY <1>1, <1>9, <2>1, <2>2 DEF RefIsCount
<1>20. CountedLive'
  BY <1>1, <1>9, <1>10 DEF CountedLive
<1>21. Kept'
  <2> SUFFICES ASSUME NEW x \in live
               PROVE  \/ Counted(x)' # {}
                      \/ \E u \in Thread : Busy(u)' /\ work'[u].value = x
                      \/ \E u \in Thread : Doomed(u, x)'
    BY <1>1 DEF Kept
  <2>1. CASE x = o
    BY <1>1, <1>2, <1>12, <2>1 DEF Doomed
  <2>2. CASE x # o
    <3>1. x \in Obj /\ ~Doomed(t, x)
      BY <1>1 DEF Doomed, TypeOK
    <3>2. QED
      BY <1>2, <1>9, <1>13, <2>2, <3>1 DEF Kept
  <2>3. QED
    BY <2>1, <2>2
<1>22. QED
  BY <1>15, <1>16, <1>17, <1>18, <1>19, <1>20, <1>21

(* The deletion: no pointer counts in the object and no thread is on the   *)
(* way to it.                                                              *)
LEMMA DeleteInv ==
  ASSUME Inv, NEW t \in Thread, Delete(t)
  PROVE  Inv'
<1> USE DEF Inv
<1> DEFINE p == work[t].to
           o == point[p]
<1>1. /\ work[t].at = "delete" /\ Busy(t)
      /\ live' = live \ {o}
      /\ work' = [work EXCEPT ![t].at = "assign"]
      /\ UNCHANGED <<point, ref, holder>>
  BY DEF Delete, Busy
<1>2. /\ work' \in [Thread -> [at : Stage, to : Pointer \cup {NoPointer},
                               value : Obj \cup {NULL}, from : Pointer \cup {NoPointer}]]
      /\ \A u \in Thread \ {t} : work'[u] = work[u]
      /\ work'[t].at = "assign" /\ work'[t].to = p
      /\ work'[t].value = work[t].value /\ work'[t].from = work[t].from
      /\ \A u \in Thread : Busy(u)' = Busy(u)
      /\ p \in Pointer /\ holder[p] = t
  BY <1>1, StageStep DEF Stage
<1>3. o \in Obj /\ Doomed(t, o)
  BY <1>1, <1>2 DEF WorkOK, TypeOK, Doomed
<1>4. /\ o \in live /\ Counted(o) = {}
      /\ \A u \in Thread \ {t} : ~Doomed(u, o)
      /\ \A u \in Thread : Busy(u) => work[u].value # o
  BY <1>3 DEF DeleteOK
<1>5. \A x \in Pointer : Uncounted(x)' = Uncounted(x)
  BY <1>1, <1>2 DEF Uncounted
<1>6. \A x \in Obj : Counted(x)' = Counted(x)
  BY <1>1, <1>5 DEF Counted
<1>7. \A u \in Thread, x \in Obj : Doomed(u, x)' <=> Doomed(u, x) /\ u # t
  BY <1>1, <1>2 DEF Doomed
<1>8. TypeOK'
  BY <1>1, <1>2 DEF TypeOK
<1>9. WorkOK'
  BY <1>1, <1>2 DEF WorkOK
<1>10. SourceOK'
  <2> SUFFICES ASSUME NEW u \in Thread, Busy(u)', work'[u].value # NULL
               PROVE  work'[u].value \in live' /\ (Copied(u)' \/ Fresh(u)')
    BY DEF SourceOK
  <2>1. /\ work'[u].value = work[u].value /\ work'[u].to = work[u].to
        /\ work'[u].from = work[u].from /\ Busy(u)
    BY <1>2
  <2>2. work[u].value \in live /\ work[u].value # o /\ (Copied(u) \/ Fresh(u))
    BY <1>4, <2>1 DEF SourceOK
  <2>3. Copied(u) => Copied(u)'
    BY <1>1, <2>1 DEF Copied
  <2>4. Fresh(u) => Fresh(u)'
    BY <1>2, <1>6, <2>1, <2>2 DEF Fresh, TypeOK
  <2>5. QED
    BY <1>1, <2>1, <2>2, <2>3, <2>4
<1>11. DeleteOK'
  <2> SUFFICES ASSUME NEW u \in Thread, NEW x \in Obj, Doomed(u, x)'
               PROVE  /\ x \in live' /\ Counted(x)' = {}
                      /\ \A w \in Thread \ {u} : ~Doomed(w, x)'
                      /\ \A w \in Thread : Busy(w)' => work'[w].value # x
    BY DEF DeleteOK
  <2>1. Doomed(u, x) /\ u # t /\ x # o
    BY <1>4, <1>7
  <2>2. QED
    BY <1>1, <1>2, <1>6, <1>7, <2>1 DEF DeleteOK
<1>12. RefIsCount'
  BY <1>1, <1>6 DEF RefIsCount, TypeOK
<1>13. CountedLive'
  BY <1>1, <1>4, <1>6 DEF CountedLive
<1>14. Kept'
  <2> SUFFICES ASSUME NEW x \in live, x # o
               PROVE  \/ Counted(x)' # {}
                      \/ \E u \in Thread : Busy(u)' /\ work'[u].value = x
                      \/ \E u \in Thread : Doomed(u, x)'
    BY <1>1 DEF Kept
  <2>1. x \in Obj /\ ~Doomed(t, x)
    BY DEF Doomed, TypeOK
  <2>2. QED
    BY <1>2, <1>6, <1>7, <2>1 DEF Kept
<1>15. QED
  BY <1>8, <1>9, <1>10, <1>11, <1>12, <1>13, <1>14

(* The pointer is overwritten while it counts nowhere. *)
LEMMA AssignInv ==
  ASSUME Inv, NEW t \in Thread, Assign(t)
  PROVE  Inv'
<1> USE DEF Inv
<1>0. PICK p, v : p = work[t].to /\ v = work[t].value
  OBVIOUS
<1> DEFINE next == IF v = NULL THEN Idle ELSE [work[t] EXCEPT !.at = "addref"]
<1>1. /\ work[t].at = "assign" /\ Busy(t)
      /\ point' = [point EXCEPT ![p] = v]
      /\ work' = [work EXCEPT ![t] = next]
      /\ UNCHANGED <<ref, live, holder>>
  BY <1>0 DEF Assign, Busy
<1>2. p \in Pointer /\ holder[p] = t /\ v \in Obj \cup {NULL}
  BY <1>0, <1>1 DEF WorkOK, TypeOK
<1>3. /\ next \in [at : Stage, to : Pointer \cup {NoPointer},
                   value : Obj \cup {NULL}, from : Pointer \cup {NoPointer}]
      /\ v = NULL => next = Idle
      /\ v # NULL => /\ next.at = "addref" /\ next.to = p
                     /\ next.value = v /\ next.from = work[t].from
  <2>1. work[t] \in [at : Stage, to : Pointer \cup {NoPointer},
                     value : Obj \cup {NULL}, from : Pointer \cup {NoPointer}]
    BY DEF TypeOK
  <2>2. Idle \in [at : Stage, to : Pointer \cup {NoPointer},
                  value : Obj \cup {NULL}, from : Pointer \cup {NoPointer}]
    BY DEF Idle, Stage
  <2>3. QED
    BY <1>0, <2>1, <2>2 DEF Stage
<1> HIDE DEF next
<1>4. work'[t] = next /\ \A u \in Thread \ {t} : work'[u] = work[u]
  BY <1>1 DEF TypeOK
<1>5. point'[p] = v /\ \A x \in Pointer \ {p} : point'[x] = point[x]
  BY <1>1, <1>2 DEF TypeOK
<1>6. /\ \A u \in Thread \ {t} : Busy(u)' = Busy(u)
      /\ v = NULL => ~Busy(t)'
      /\ v # NULL => Busy(t)'
  BY <1>3, <1>4 DEF Busy, Idle
<1>7. \A u \in Thread \ {t} : Busy(u) => work[u].to # p
  BY <1>0, <1>1, OneWorker
<1>8. Uncounted(p) /\ (v # NULL => Uncounted(p)')
  BY <1>0, <1>1, <1>3, <1>4 DEF Uncounted
<1>9. \A x \in Pointer \ {p} : Uncounted(x)' = Uncounted(x)
  <2> SUFFICES ASSUME NEW x \in Pointer, x # p
               PROVE  Uncounted(x)' = Uncounted(x)
    OBVIOUS
  <2>1. ~(work[t].to = x) /\ ~(work'[t].to = x)
    BY <1>0, <1>3, <1>4, PointerAssumption DEF Idle
  <2>2. QED
    BY <1>4, <2>1 DEF Uncounted
<1>10. \A o \in Obj : Counted(o)' = Counted(o)
  BY <1>2, <1>5, <1>8, <1>9, PointerAssumption DEF Counted
<1>11. \A u \in Thread, o \in Obj : Doomed(u, o)' = Doomed(u, o)
  <2>1. ~(work[t].at = "delete") /\ ~(work'[t].at = "delete")
    BY <1>0, <1>1, <1>3, <1>4 DEF Idle
  <2>2. \A u \in Thread \ {t} : work[u].at = "delete" =>
          work[u].to \in Pointer /\ work[u].to # p
    BY <1>7 DEF WorkOK, Busy
  <2>3. QED
    BY <1>4, <1>5, <2>1, <2>2 DEF Doomed
<1>12. TypeOK'
  BY <1>1, <1>2, <1>3 DEF TypeOK
<1>13. WorkOK'
  <2> SUFFICES ASSUME NEW u \in Thread
               PROVE  /\ Busy(u)' => work'[u].to \in Pointer /\ holder'[work'[u].to] = u
                      /\ ~Busy(u)' => work'[u] = Idle
                      /\ work'[u].at \in {"release", "delete"} => point'[work'[u].to] # NULL
                      /\ work'[u].at = "addref" =>
                           work'[u].value # NULL /\ point'[work'[u].to] = work'[u].value
    BY DEF WorkOK
  <2>1. CASE u = t
    BY <1>1, <1>2, <1>3, <1>4, <1>5, <1>6, <2>1 DEF Idle
  <2>2. CASE u # t
    <3>1. work'[u] = work[u] /\ Busy(u)' = Busy(u) /\ (Busy(u) => work[u].to # p)
      BY <1>4, <1>6, <1>7, <2>2
    <3>2. work[u].at \in {"release", "delete", "addref"} => Busy(u)
      BY DEF Busy
    <3>3. QED
      BY <1>1, <1>5, <3>1, <3>2 DEF WorkOK
  <2>3. QED
    BY <2>1, <2>2
<1>14. SourceOK'
  <2> SUFFICES ASSUME NEW u \in Thread, Busy(u)', work'[u].value # NULL
               PROVE  work'[u].value \in live' /\ (Copied(u)' \/ Fresh(u)')
    BY DEF SourceOK
  <2>1. /\ work'[u].value = work[u].value /\ work'[u].to = work[u].to
        /\ work'[u].from = work[u].from /\ Busy(u)
    BY <1>0, <1>1, <1>3, <1>4, <1>6
  <2>2. work[u].value \in live /\ (Copied(u) \/ Fresh(u))
    BY <2>1 DEF SourceOK
  <2>3. Copied(u) => Copied(u)'
    <3> SUFFICES ASSUME Copied(u) PROVE Copied(u)'
      OBVIOUS
    <3>1. work[u].from # p
      BY <1>0, <1>2 DEF Copied
    <3>2. QED
      BY <1>1, <1>5, <2>1, <3>1 DEF Copied
  <2>4. Fresh(u) => Fresh(u)'
    <3> SUFFICES ASSUME Fresh(u) PROVE Fresh(u)'
      OBVIOUS
    <3>1. \A w \in Thread \ {u} : Busy(w)' => work'[w].value = work[w].value /\ Busy(w)
      BY <1>0, <1>1, <1>3, <1>4, <1>6
    <3>2. QED
      BY <1>10, <2>1, <2>2, <3>1 DEF Fresh, TypeOK
  <2>5. QED
    BY <1>1, <2>1, <2>2, <2>3, <2>4
<1>15. DeleteOK'
  <2>1. \A w \in Thread : Busy(w)' => work'[w].value = work[w].value /\ Busy(w)
    BY <1>0, <1>1, <1>3, <1>4, <1>6
  <2>2. QED
    BY <1>1, <1>10, <1>11, <2>1 DEF DeleteOK
<1>16. RefIsCount' /\ CountedLive'
  BY <1>1, <1>10 DEF RefIsCount, CountedLive, TypeOK
<1>17. Kept'
  <2> SUFFICES ASSUME NEW x \in live
               PROVE  \/ Counted(x)' # {}
                      \/ \E u \in Thread : Busy(u)' /\ work'[u].value = x
                      \/ \E u \in Thread : Doomed(u, x)'
    BY <1>1 DEF Kept
  <2>1. x \in Obj /\ x # NULL
    BY PointerAssumption DEF TypeOK
  <2>2. \A u \in Thread : Busy(u) /\ work[u].value = x => Busy(u)' /\ work'[u].value = x
    BY <1>0, <1>3, <1>4, <1>6, <2>1
  <2>3. QED
    BY <1>10, <1>11, <2>1, <2>2 DEF Kept
<1>18. QED
  BY <1>12, <1>13, <1>14, <1>15, <1>16, <1>17

(* The increment puts the pointer into the count. *)
LEMMA AddRefInv ==
  ASSUME Inv, NEW t \in Thread, AddRef(t)
  PROVE  Inv'
<1> USE DEF Inv
<1>0. PICK p, v : p = work[t].to /\ v = work[t].value
  OBVIOUS
<1>1. /\ work[t].at = "addref" /\ Busy(t)
      /\ ref' = [ref EXCEPT ![v] = @ + 1]
      /\ work' = [work EXCEPT ![t] = Idle]
      /\ UNCHANGED <<point, live, holder>>
  BY <1>0 DEF AddRef, Busy
<1>2. p \in Pointer /\ holder[p] = t /\ v # NULL /\ point[p] = v /\ v \in Obj /\ v \in live
  BY <1>0, <1>1 DEF WorkOK, SourceOK, TypeOK
<1>3. work'[t] = Idle /\ \A u \in Thread \ {t} : work'[u] = work[u]
  BY <1>1 DEF TypeOK
<1>4. ~Busy(t)' /\ \A u \in Thread \ {t} : Busy(u)' = Busy(u)
  BY <1>3 DEF Busy, Idle
<1>5. \A u \in Thread \ {t} : Busy(u) => work[u].to # p
  BY <1>0, <1>1, OneWorker
<1>6. Uncounted(p)
  BY <1>0, <1>1 DEF Uncounted
<1>7. ~Uncounted(p)'
  BY <1>3, <1>5 DEF Uncounted, Busy, Idle
<1>8. \A x \in Pointer \ {p} : Uncounted(x)' = Uncounted(x)
  BY <1>0, <1>3, PointerAssumption DEF Uncounted, Idle
<1>9. Counted(v)' = Counted(v) \cup {p} /\ p \notin Counted(v)
  BY <1>1, <1>2, <1>6, <1>7, <1>8 DEF Counted
<1>10. \A x \in Obj \ {v} : Counted(x)' = Counted(x)
  BY <1>1, <1>2, <1>7, <1>8 DEF Counted
<1>11. \A u \in Thread, x \in Obj : Doomed(u, x)' = Doomed(u, x)
  BY <1>1, <1>3 DEF Doomed, Idle
<1>12. \A u \in Thread : ~Doomed(u, v)
  BY <1>0, <1>1, <1>2 DEF DeleteOK
<1>13. TypeOK'
  BY <1>1, <1>2 DEF TypeOK, Idle, Stage
<1>14. WorkOK'
  BY <1>1, <1>3, <1>4 DEF WorkOK, Idle
<1>15. SourceOK'
  <2> SUFFICES ASSUME NEW u \in Thread, Busy(u)', work'[u].value # NULL
               PROVE  work'[u].value \in live' /\ (Copied(u)' \/ Fresh(u)')
    BY DEF SourceOK
  <2>1. u # t /\ work'[u] = work[u] /\ Busy(u)
    BY <1>3, <1>4
  <2>2. work[u].value \in live /\ (Copied(u) \/ Fresh(u))
    BY <2>1 DEF SourceOK
  <2>3. Copied(u) => Copied(u)'
    BY <1>1, <2>1 DEF Copied
  <2>4. Fresh(u) => Fresh(u)'
    <3> SUFFICES ASSUME Fresh(u) PROVE Fresh(u)'
      OBVIOUS
    <3>1. work[u].value # v /\ work[u].value \in Obj
      BY <1>0, <1>1, <2>1, <2>2 DEF Fresh, TypeOK
    <3>2. \A w \in Thread \ {u} : Busy(w)' => work'[w] = work[w] /\ Busy(w)
      BY <1>3, <1>4
    <3>3. QED
      BY <1>10, <2>1, <3>1, <3>2 DEF Fresh
  <2>5. QED
    BY <1>1, <2>1, <2>2, <2>3, <2>4
<1>16. DeleteOK'
  <2> SUFFICES ASSUME NEW u \in Thread, NEW x \in Obj, Doomed(u, x)'
               PROVE  /\ x \in live' /\ Counted(x)' = {}
                      /\ \A w \in Thread \ {u} : ~Doomed(w, x)'
                      /\ \A w \in Thread : Busy(w)' => work'[w].value # x
    BY DEF DeleteOK
  <2>1. Doomed(u, x) /\ x # v
    BY <1>11, <1>12
  <2>2. \A w \in Thread : Busy(w)' => work'[w] = work[w] /\ Busy(w)
    BY <1>3, <1>4
  <2>3. QED
    BY <1>1, <1>10, <1>11, <2>1, <2>2 DEF DeleteOK
<1>17. RefIsCount'
  <2>1. ref[v] = Cardinality(Counted(v)) /\ IsFiniteSet(Counted(v))
    BY <1>2, CountedFinite DEF RefIsCount
  <2>2. Cardinality(Counted(v) \cup {p}) = ref[v] + 1
    BY <1>9, <2>1, FS_AddElement
  <2>3. ref'[v] = Cardinality(Counted(v)')
    BY <1>1, <1>2, <1>9, <2>2 DEF TypeOK
  <2>4. \A x \in live \ {v} : x \in Obj /\ ref'[x] = ref[x]
    BY <1>1, <1>2 DEF TypeOK
  <2>5. QED
    BY <1>1, <1>10, <2>3, <2>4 DEF RefIsCount
<1>18. CountedLive'
  BY <1>1, <1>2, <1>10 DEF CountedLive
<1>19. Kept'
  <2> SUFFICES ASSUME NEW x \in live
               PROVE  \/ Counted(x)' # {}
                      \/ \E u \in Thread : Busy(u)' /\ work'[u].value = x
                      \/ \E u \in Thread : Doomed(u, x)'
    BY <1>1 DEF Kept
  <2>1. CASE x = v
    BY <1>9, <2>1
  <2>2. CASE x # v
    <3>1. x \in Obj
      BY DEF TypeOK
    <3>2. \A u \in Thread : Busy(u) /\ work[u].value = x => Busy(u)' /\ work'[u].value = x
      BY <1>0, <1>3, <1>4, <2>2
    <3>3. QED
      BY <1>10, <1>11, <2>2, <3>1, <3>2 DEF Kept
  <2>3. QED
    BY <2>1, <2>2
<1>20. QED
  BY <1>13, <1>14, <1>15, <1>16, <1>17, <1>18, <1>19
-----------------------------------------------------------------------------
(* No step of a thread breaks the invariant. *)
LEMMA NextInv == Inv /\ [Next]_refvars => Inv'
<1> SUFFICES ASSUME Inv, [Next]_refvars PROVE Inv'
  OBVIOUS
<1>1. ASSUME NEW t \in Thread, Step(t) PROVE Inv'
  <2>1. ASSUME NEW p \in Pointer, Lock(t, p) \/ Unlock(t, p) PROVE Inv'
    BY <2>1, LockInv
  <2>2. ASSUME NEW p \in Pointer, Drop(t, p) PROVE Inv'
    BY <2>2, DropInv
  <2>3. ASSUME NEW p \in Pointer, Create(t, p) PROVE Inv'
    BY <2>3, CreateInv
  <2>4. ASSUME NEW p \in Pointer, NEW q \in Pointer, Copy(t, p, q) PROVE Inv'
    BY <2>4, CopyInv
  <2>5. CASE Release(t)
    BY <2>5, ReleaseInv
  <2>6. CASE Delete(t)
    BY <2>6, DeleteInv
  <2>7. CASE Assign(t)
    BY <2>7, AssignInv
  <2>8. CASE AddRef(t)
    BY <2>8, AddRefInv
  <2>9. QED
    BY <1>1, <2>1, <2>2, <2>3, <2>4, <2>5, <2>6, <2>7, <2>8 DEF Step
<1>2. CASE UNCHANGED refvars
  <2>1. UNCHANGED <<point, ref, live, holder, work>>
    BY <1>2 DEF refvars
  <2>2. QED
    BY <2>1 DEF Inv, TypeOK, WorkOK, SourceOK, DeleteOK, RefIsCount, CountedLive, Kept,
                Busy, Copied, Fresh, Doomed, Counted, Uncounted
<1>3. QED
  BY <1>1, <1>2 DEF Next

(* The invariant holds of every execution. *)
THEOREM Invariance == Spec => []Inv
BY InitInv, NextInv, PTL DEF Spec

(* The variables keep their types: in particular no count falls below 0. *)
THEOREM TypeCorrect == Spec => []TypeOK
<1>1. Inv => TypeOK
  BY DEF Inv
<1>2. QED
  BY <1>1, Invariance, PTL

(* m_ref is the number of pointers that count in the object, for any       *)
(* number of threads that copy and drop pointers to it at the same time.   *)
THEOREM CountCorrect == Spec => []RefIsCount
<1>1. Inv => RefIsCount
  BY DEF Inv
<1>2. QED
  BY <1>1, Invariance, PTL

(* No thread uses an object that another one deleted. *)
THEOREM NothingFreedInUse == Spec => []NoUseAfterFree
<1>1. Inv => NoUseAfterFree
  <2> SUFFICES ASSUME Inv PROVE NoUseAfterFree
    OBVIOUS
  <2> USE DEF Inv
  <2>1. ASSUME NEW p \in Pointer, point[p] # NULL, ~Uncounted(p)
        PROVE  point[p] \in live
    BY <2>1 DEF CountedLive, Counted, TypeOK
  <2>2. ASSUME NEW t \in Thread, work[t].at = "delete"
        PROVE  point[work[t].to] \in live
    <3>1. point[work[t].to] \in Obj
      BY <2>2 DEF WorkOK, Busy, TypeOK
    <3>2. QED
      BY <2>2, <3>1 DEF DeleteOK, Doomed
  <2>3. ASSUME NEW t \in Thread, work[t].at # "idle", work[t].value # NULL
        PROVE  work[t].value \in live
    BY <2>3 DEF SourceOK, Busy
  <2>4. QED
    BY <2>1, <2>2, <2>3 DEF NoUseAfterFree
<1>2. QED
  BY <1>1, Invariance, PTL

(* Every object that exists can still be reached. *)
THEOREM NothingForgotten == Spec => []NoLeak
<1>1. Inv => NoLeak
  <2> SUFFICES ASSUME Inv, NEW o \in live
               PROVE  \/ \E p \in Pointer : point[p] = o
                      \/ \E t \in Thread : work[t].at # "idle" /\ work[t].value = o
    BY DEF NoLeak
  <2> USE DEF Inv
  <2>1. CASE Counted(o) # {}
    BY <2>1 DEF Counted
  <2>2. CASE \E t \in Thread : Busy(t) /\ work[t].value = o
    BY <2>2 DEF Busy
  <2>3. CASE \E t \in Thread : Doomed(t, o)
    BY <2>3 DEF Doomed, WorkOK, Busy
  <2>4. QED
    BY <2>1, <2>2, <2>3 DEF Kept
<1>2. QED
  BY <1>1, Invariance, PTL
=============================================================================
