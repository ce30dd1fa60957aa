------------------------------- MODULE RefPointer ------------------------------
(***************************************************************************)
(* CIPtr and IPtrBase: pointers that count themselves in the object they   *)
(* point to, used by several threads.  Tasks, buffers, queues, states and  *)
(* databases are all held this way, in variables of one thread and in maps *)
(* and lists behind mutexes.                                               *)
(*                                                                         *)
(* A pointer may be used by the thread that holds it: a variable by its    *)
(* own thread, an element of a map by the thread that has the map's mutex. *)
(* Here each shared pointer has a mutex of its own; a mutex that guards    *)
(* many is one that is taken for all of them.                              *)
(*                                                                         *)
(* Every change of a pointer goes the way of operator=: release what it    *)
(* pointed to, point to the new object, count it there.  A copy begins     *)
(* with NULL, and the destructor ends with it.  The counter's operations   *)
(* are the atomic ones of InterlockCounter; between any two steps other    *)
(* threads may run.  The addresses of deleted objects are given out again. *)
(***************************************************************************)
EXTENDS Integers, FiniteSets

CONSTANTS
  Thread,
  Pointer,    \* all CIPtr objects
  Home,       \* the thread a pointer is a variable of, Nobody for a shared one
  Obj,        \* addresses of objects
  NULL, Nobody, NoPointer

ASSUME PointerAssumption ==
  /\ IsFiniteSet(Pointer)
  /\ Home \in [Pointer -> Thread \cup {Nobody}]
  /\ NULL \notin Obj /\ Nobody \notin Thread /\ NoPointer \notin Pointer

VARIABLES
  point,   \* what each pointer points to
  ref,     \* m_ref of each object
  live,    \* the objects that exist
  holder,  \* the thread that may use a pointer
  work     \* how far each thread is in operator=

refvars == <<point, ref, live, holder, work>>

(* to is the pointer that is assigned, value what it gets, from the        *)
(* pointer where value comes from, NoPointer for NULL and new objects.     *)
Idle == [at |-> "idle", to |-> NoPointer, value |-> NULL, from |-> NoPointer]
Stage == {"idle", "release", "delete", "assign", "addref"}

Init ==
  /\ point = [p \in Pointer |-> NULL]
  /\ ref = [o \in Obj |-> 0]
  /\ live = {}
  /\ holder = Home
  /\ work = [t \in Thread |-> Idle]

(* Faulty variant of Mine: elements of a map are used without its mutex. *)
MineUnlocked(t, p) == holder[p] = t \/ Home[p] = Nobody

Mine(t, p) == holder[p] = t

(* AutoMyMutexLock around the use of a shared pointer. *)
Lock(t, p) ==
  /\ work[t] = Idle
  /\ holder[p] = Nobody
  /\ holder' = [holder EXCEPT ![p] = t]
  /\ UNCHANGED <<point, ref, live, work>>

Unlock(t, p) ==
  /\ work[t] = Idle
  /\ Mine(t, p)
  /\ Home[p] = Nobody
  /\ holder' = [holder EXCEPT ![p] = Nobody]
  /\ UNCHANGED <<point, ref, live, work>>
-----------------------------------------------------------------------------
(* The beginning of operator=, which does nothing where the pointer points *)
(* to the object already.                                                  *)
Begin(t, p, value, from) ==
  /\ work[t] = Idle
  /\ Mine(t, p)
  /\ point[p] # value
  /\ work' = [work EXCEPT ![t] =
       [at |-> IF point[p] = NULL THEN "assign" ELSE "release",
        to |-> p, value |-> value, from |-> from]]

(* From another pointer: a copy, or an assignment. *)
Copy(t, p, q) ==
  /\ Mine(t, q)
  /\ point[q] # NULL
  /\ Begin(t, p, point[q], q)
  /\ UNCHANGED <<point, ref, live, holder>>

(* The destructor, and the assignment of NULL. *)
Drop(t, p) ==
  /\ Begin(t, p, NULL, NoPointer)
  /\ UNCHANGED <<point, ref, live, holder>>

(* An object is created for the pointer, with a count of 0. *)
Create(t, p) ==
  \E o \in Obj \ live :
    /\ Begin(t, p, o, NoPointer)
    /\ live' = live \cup {o}
    /\ ref' = [ref EXCEPT ![o] = 0]
    /\ UNCHANGED <<point, holder>>

(* Faulty variant of Release: the object stays when its last pointer goes. *)
ReleaseKeeps(t) ==
  /\ work[t].at = "release"
  /\ ref' = [ref EXCEPT ![point[work[t].to]] = @ - 1]
  /\ work' = [work EXCEPT ![t].at = "assign"]
  /\ UNCHANGED <<point, live, holder>>

(* Release: the count that the decrement returns decides. *)
Release(t) ==
  /\ work[t].at = "release"
  /\ LET o == point[work[t].to]
     IN /\ ref' = [ref EXCEPT ![o] = @ - 1]
        /\ work' = [work EXCEPT ![t].at = IF ref[o] - 1 = 0 THEN "delete" ELSE "assign"]
  /\ UNCHANGED <<point, live, holder>>

Delete(t) ==
  /\ work[t].at = "delete"
  /\ live' = live \ {point[work[t].to]}
  /\ work' = [work EXCEPT ![t].at = "assign"]
  /\ UNCHANGED <<point, ref, holder>>

(* Faulty variant of Assign: the new object is not counted. *)
AssignUncounted(t) ==
  /\ work[t].at = "assign"
  /\ point' = [point EXCEPT ![work[t].to] = work[t].value]
  /\ work' = [work EXCEPT ![t] = Idle]
  /\ UNCHANGED <<ref, live, holder>>

Assign(t) ==
  /\ work[t].at = "assign"
  /\ point' = [point EXCEPT ![work[t].to] = work[t].value]
  /\ work' = [work EXCEPT ![t] = IF @.value = NULL THEN Idle ELSE [@ EXCEPT !.at = "addref"]]
  /\ UNCHANGED <<ref, live, holder>>

(* Faulty variant of AddRef: the object is counted twice. *)
AddRefTwice(t) ==
  /\ work[t].at = "addref"
  /\ ref' = [ref EXCEPT ![work[t].value] = @ + 2]
  /\ work' = [work EXCEPT ![t] = Idle]
  /\ UNCHANGED <<point, live, holder>>

AddRef(t) ==
  /\ work[t].at = "addref"
  /\ ref' = [ref EXCEPT ![work[t].value] = @ + 1]
  /\ work' = [work EXCEPT ![t] = Idle]
  /\ UNCHANGED <<point, live, holder>>

Step(t) ==
  \/ \E p \in Pointer : Lock(t, p) \/ Unlock(t, p) \/ Drop(t, p) \/ Create(t, p)
  \/ \E p, q \in Pointer : Copy(t, p, q)
  \/ Release(t) \/ Delete(t) \/ Assign(t) \/ AddRef(t)

Next == \E t \in Thread : Step(t)

Spec == Init /\ [][Next]_refvars
-----------------------------------------------------------------------------
TypeOK ==
  /\ point \in [Pointer -> Obj \cup {NULL}]
  /\ ref \in [Obj -> Nat]
  /\ live \subseteq Obj
  /\ holder \in [Pointer -> Thread \cup {Nobody}]
  /\ work \in [Thread -> [at : Stage, to : Pointer \cup {NoPointer},
                          value : Obj \cup {NULL}, from : Pointer \cup {NoPointer}]]

(* A pointer that a thread is just assigning does not count in what it     *)
(* points to, from the decrement to the increment.                         *)
Uncounted(p) ==
  \E t \in Thread : work[t].to = p /\ work[t].at \in {"delete", "assign", "addref"}
Counted(o) == {p \in Pointer : point[p] = o /\ ~Uncounted(p)}

(* m_ref is the number of pointers that count in the object, whatever the  *)
(* threads are doing (IPtr.h:14-24, 104-127).                              *)
RefIsCount == \A o \in live : ref[o] = Cardinality(Counted(o))

(* Nothing is used after it was deleted: not through a pointer that may be *)
(* dereferenced, not by the decrement and the deletion of a pointer that   *)
(* goes, and not by the increment of one that comes.                       *)
NoUseAfterFree ==
  /\ \A p \in Pointer : point[p] # NULL /\ ~Uncounted(p) => point[p] \in live
  /\ \A t \in Thread :
       /\ work[t].at = "delete" => point[work[t].to] \in live
       /\ work[t].at # "idle" /\ work[t].value # NULL => work[t].value \in live

(* Nothing is forgotten: an object exists as long as a pointer points to   *)
(* it, or a thread is about to make one do so, or to delete it.            *)
NoLeak ==
  \A o \in live :
    \/ \E p \in Pointer : point[p] = o
    \/ \E t \in Thread : work[t].at # "idle" /\ work[t].value = o
=============================================================================
