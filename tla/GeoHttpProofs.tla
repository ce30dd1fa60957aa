------------------------------ MODULE GeoHttpProofs ----------------------------
(***************************************************************************)
(* Proofs about GeoHttp, for any workers, ids, points and areas, whatever  *)
(* the database fails at and whenever the process ends.                    *)
(*                                                                         *)
(* Whether a point survives is decided by what recovery may find: so the   *)
(* first invariant, GeoInv, is about every database in `since', not only   *)
(* about the present one.  Each of them is well formed and holds the ids   *)
(* that are safe.                                                          *)
(*                                                                         *)
(* What a reply lists is decided by the walk of a cursor: the second       *)
(* invariant, SoundInv, relates what a worker has listed to the boxes that *)
(* are left and to the place of its cursor.  It needs that codes and keys  *)
(* are numbers, of any width, and that entries are totally ordered, by     *)
(* their keys and their places.                                            *)
(*                                                                         *)
(* What it must list is decided by the codes: the third invariant,         *)
(* CompleteInv, says of every entry that was there all the time and lies   *)
(* in the area for sure, an area with its corners on the globe, that it is *)
(* listed or that the cursor will come past it, in a box that holds it as  *)
(* stored and as rounded, a step of a float sum to either side included.   *)
(* Then its code lies between the codes of two corners of the box.         *)
(***************************************************************************)
EXTENDS GeoHttp, GeoFunProofs, SequenceTheorems

(* A database, where the index ever got n entries. *)
WellFormed(d, n) ==
  /\ d = [main |-> d.main, point |-> d.point]
  /\ DOMAIN d.main \subseteq Ids
  /\ {e.id : e \in d.point} = DOMAIN d.main
  /\ \A e \in d.point : e.place \in 1..n
  /\ \A e, f \in d.point : e.place = f.place => e = f
Recoverable ==
  /\ entries \in Nat
  /\ Databases \in since
  /\ \A d \in since : WellFormed(d, entries) /\ safe \subseteq DOMAIN d.main

Place == {"idle", "put", "commit", "checkpoint", "scan", "failed"}
(* t and r are a task and a reply, stored the ids that maindb holds. *)
TaskOK(t, stored) ==
  /\ "at" \in DOMAIN t /\ t.at \in Place
  /\ t.at \in {"put", "commit", "checkpoint"} => t.id \in Ids
  /\ t.at = "checkpoint" /\ t.done => t.id \in stored
ReplyOK(r, stored) ==
  r # NoReply => /\ r.code \in {200, 404, 500}
                 /\ r.content \in Content
                 /\ r.content = "insertOk" /\ r.done => r.id \in stored
WorkerOK(w) ==
  /\ TaskOK(task[w], DOMAIN maindb)
  /\ ReplyOK(reply[w], DOMAIN maindb)
  /\ ~alive => task[w] = Idle /\ reply[w] = NoReply

SiteType ==
  /\ master \in BOOLEAN /\ canwrite \in BOOLEAN /\ alive \in BOOLEAN /\ opened \in BOOLEAN
  /\ events \in Seq(BOOLEAN)
  /\ asked \in [Workers -> Areas \cup {NoArea}]
  /\ task = [w \in Workers |-> task[w]]
  /\ reply = [w \in Workers |-> reply[w]]

GeoInv == SiteType /\ Recoverable /\ \A w \in Workers : WorkerOK(w)
-----------------------------------------------------------------------------
LEMMA PresentIsWellFormed ==
  ASSUME Recoverable
  PROVE  /\ DOMAIN maindb \subseteq Ids
         /\ {e.id : e \in pointdb} = DOMAIN maindb
         /\ \A e \in pointdb : e.place \in 1..entries
         /\ \A e, f \in pointdb : e.place = f.place => e = f
         /\ safe \subseteq DOMAIN maindb
BY DEF Recoverable, WellFormed, Databases

LEMMA InitGeo == GeoInit => GeoInv
<1> SUFFICES ASSUME GeoInit PROVE GeoInv
  OBVIOUS
<1>1. SiteType
  <2>1. task = [w \in Workers |-> task[w]] /\ reply = [w \in Workers |-> reply[w]]
    BY DEF GeoInit, Init
  <2>2. asked \in [Workers -> Areas \cup {NoArea}]
    BY DEF GeoInit
  <2>3. events \in Seq(BOOLEAN)
    BY DEF GeoInit, Init
  <2> QED
    BY <2>1, <2>2, <2>3 DEF GeoInit, Init, SiteType
<1>2. Recoverable
  <2>1. entries \in Nat
    BY PointsAssumption DEF GeoInit, Init
  <2>2. PICK old \in [1..entries -> [id : Ids, key : UNION {KeysOf(point) : point \in Points}]] :
          /\ pointdb = {[key |-> old[i].key, id |-> old[i].id, place |-> i] : i \in 1..entries}
          /\ maindb \in [{e.id : e \in pointdb} -> {e.key : e \in pointdb}]
    BY DEF GeoInit, Init
  <2>3. \A e \in pointdb : e.id \in Ids /\ e.place \in 1..entries
    BY <2>2
  <2>4. \A e, f \in pointdb : e.place = f.place => e = f
    BY <2>2
  <2>5. {e.id : e \in pointdb} = DOMAIN maindb /\ DOMAIN maindb \subseteq Ids
    BY <2>2, <2>3
  <2>6. WellFormed(Databases, entries)
    BY <2>3, <2>4, <2>5 DEF WellFormed, Databases
  <2> QED
    BY <2>1, <2>6 DEF GeoInit, Init, Recoverable
<1>3. \A w \in Workers : WorkerOK(w)
  BY DEF GeoInit, Init, WorkerOK, TaskOK, ReplyOK, Idle, Place
<1> QED
  BY <1>1, <1>2, <1>3 DEF GeoInv

(* Steps that change no database. *)
LEMMA SameDatabases ==
  ASSUME GeoInv, UNCHANGED dbvars
  PROVE  Recoverable'
BY DEF GeoInv, Recoverable, WellFormed, Databases, dbvars

(* Steps of one worker that change no database. *)
LEMMA OneWorker ==
  ASSUME GeoInv, SiteType', UNCHANGED <<dbvars, alive>>, NEW w \in Workers, WorkerOK(w)',
         \A v \in Workers \ {w} : task'[v] = task[v] /\ reply'[v] = reply[v]
  PROVE  GeoInv'
<1>1. Recoverable'
  BY SameDatabases
<1>2. ASSUME NEW v \in Workers, v # w PROVE WorkerOK(v)'
  <2>1. task'[v] = task[v] /\ reply'[v] = reply[v] /\ alive' = alive /\ maindb' = maindb
    BY <1>2 DEF dbvars
  <2>2. WorkerOK(v)
    BY DEF GeoInv
  <2> QED
    BY <2>1, <2>2 DEF WorkerOK
<1> QED
  BY <1>1, <1>2 DEF GeoInv
LEMMA IdleOK == \A stored : TaskOK(Idle, stored) /\ ReplyOK(NoReply, stored)
BY DEF TaskOK, ReplyOK, Idle, Place

(* Steps of worker w that change its task only. *)
LEMMA TaskStep ==
  ASSUME GeoInv, NEW w \in Workers, alive, NEW t, task' = [task EXCEPT ![w] = t],
         TaskOK(t, DOMAIN maindb), UNCHANGED <<rolevars, dbvars, runvars, reply>>,
         asked' \in [Workers -> Areas \cup {NoArea}]
  PROVE  GeoInv'
<1>1. task'[w] = t /\ \A v \in Workers \ {w} : task'[v] = task[v]
  BY DEF GeoInv, SiteType
<1>2. task' = [v \in Workers |-> task'[v]]
  BY DEF GeoInv, SiteType
<1>3. SiteType'
  BY <1>2 DEF GeoInv, SiteType, rolevars, runvars
<1>4. WorkerOK(w)'
  BY <1>1 DEF GeoInv, WorkerOK, dbvars, runvars
<1> QED
  BY <1>1, <1>3, <1>4, OneWorker DEF runvars

(* Steps of worker w that change its reply only, or its reply and its task. *)
LEMMA ReplyStep ==
  ASSUME GeoInv, NEW w \in Workers, alive, NEW r, reply' = [reply EXCEPT ![w] = r],
         ReplyOK(r, DOMAIN maindb), UNCHANGED <<rolevars, dbvars, runvars>>,
         task' = [task EXCEPT ![w] = Idle] \/ UNCHANGED task,
         asked' \in [Workers -> Areas \cup {NoArea}]
  PROVE  GeoInv'
<1>1. /\ reply'[w] = r /\ \A v \in Workers \ {w} : reply'[v] = reply[v]
      /\ task'[w] \in {Idle, task[w]} /\ \A v \in Workers \ {w} : task'[v] = task[v]
  BY DEF GeoInv, SiteType
<1>2. task' = [v \in Workers |-> task'[v]] /\ reply' = [v \in Workers |-> reply'[v]]
  BY DEF GeoInv, SiteType
<1>3. SiteType'
  BY <1>2 DEF GeoInv, SiteType, rolevars, runvars
<1>4. WorkerOK(w)'
  BY <1>1, IdleOK DEF GeoInv, WorkerOK, dbvars, runvars
<1> QED
  BY <1>1, <1>3, <1>4, OneWorker DEF runvars

(* The requests that need no database, and the answers. *)
LEMMA AnswerInv ==
  ASSUME GeoInv, NEW w \in Workers,
         \/ Refused(w) \/ NotGeo(w) \/ NotFound(w) \/ SaveInPart(w) \/ WriteReply(w)
         \/ AreaReturns(w)
  PROVE  GeoInv'
<1> USE DEF backvars
<1>1. CASE Refused(w)
  BY <1>1, OneWorker DEF Refused, GeoInv, SiteType, rolevars, runvars, Other, WorkerOK, dbvars
<1>2. CASE NotGeo(w) \/ NotFound(w) \/ SaveInPart(w)
  <2>1. PICK status \in {200, 404, 500}, content \in {"none", "notEnoughParam"} :
          Plain(w, status, content)
    BY <1>2 DEF NotGeo, NotFound, SaveInPart
  <2> DEFINE r == [code |-> status, content |-> content]
  <2>2. ReplyOK(r, DOMAIN maindb)
    BY DEF ReplyOK, Content
  <2>3. /\ alive /\ reply' = [reply EXCEPT ![w] = r] /\ UNCHANGED <<backvars, asked>>
        /\ asked' \in [Workers -> Areas \cup {NoArea}]
    BY <2>1 DEF Plain, Free, At, Say, GeoInv, SiteType
  <2> HIDE DEF r
  <2> QED
    BY <2>2, <2>3, ReplyStep
<1>3. CASE WriteReply(w)
  <2>1. asked' \in [Workers -> Areas \cup {NoArea}]
    BY <1>3 DEF WriteReply, GeoInv, SiteType
  <2> QED
    BY <1>3, <2>1, IdleOK, ReplyStep DEF WriteReply, Say
<1>4. CASE AreaReturns(w)
  <2> DEFINE r == [code |-> 200, content |-> "data", list |-> task[w].list,
                   there |-> task[w].there, whole |-> task[w].whole]
  <2>1. ReplyOK(r, DOMAIN maindb)
    BY DEF ReplyOK, Content
  <2>2. /\ alive /\ reply' = [reply EXCEPT ![w] = r] /\ task' = [task EXCEPT ![w] = Idle]
        /\ UNCHANGED <<rolevars, dbvars, runvars, asked>>
        /\ asked' \in [Workers -> Areas \cup {NoArea}]
    BY <1>4 DEF AreaReturns, Return, Say, At, requestvars, GeoInv, SiteType
  <2> HIDE DEF r
  <2> QED
    BY <2>1, <2>2, ReplyStep
<1> QED
  BY <1>1, <1>2, <1>3, <1>4
(* The requests that begin to work with the database, and their steps that *)
(* leave it as it is.                                                      *)
LEMMA WorkInv ==
  ASSUME GeoInv, NEW w \in Workers,
         \/ SavePoint(w) \/ ReadArea(w)
         \/ Within(Put(w)) \/ Within(NextEntry(w)) \/ Within(PgetFails(w))
  PROVE  GeoInv'
<1> USE DEF backvars
<1>1. ASSUME NEW id \in Ids, NEW point, AddPoint(w, id, point), UNCHANGED <<asked, reply>>
      PROVE  GeoInv'
  <2>3. PICK key \in KeysOf(point) :
          task' = [task EXCEPT ![w] = [at |-> "put", id |-> id, key |-> key]]
    BY <1>1 DEF AddPoint
  <2> DEFINE t == [at |-> "put", id |-> id, key |-> key]
  <2>1. TaskOK(t, DOMAIN maindb)
    BY DEF TaskOK, Place
  <2>2. /\ alive /\ task' = [task EXCEPT ![w] = t] /\ UNCHANGED <<rolevars, dbvars, runvars, reply>>
        /\ asked' \in [Workers -> Areas \cup {NoArea}]
    BY <1>1, <2>3 DEF AddPoint, At, GeoInv, SiteType
  <2> HIDE DEF t
  <2> QED
    BY <2>1, <2>2, TaskStep
<1>2. ASSUME NEW id \in Ids, CannotWrite(w), Say(w, InsertOk(id, FALSE)), UNCHANGED asked
      PROVE  GeoInv'
  <2> DEFINE r == InsertOk(id, FALSE)
  <2>1. ReplyOK(r, DOMAIN maindb)
    BY DEF ReplyOK, Content, InsertOk
  <2>2. /\ alive /\ reply' = [reply EXCEPT ![w] = r] /\ UNCHANGED backvars
        /\ asked' \in [Workers -> Areas \cup {NoArea}]
    BY <1>2 DEF CannotWrite, At, Say, GeoInv, SiteType
  <2> HIDE DEF r
  <2> QED
    BY <2>1, <2>2, ReplyStep
<1>3. CASE SavePoint(w)
  BY <1>1, <1>2, <1>3 DEF SavePoint, Save
<1>4. CASE ReadArea(w)
  <2>1. PICK r \in Areas : /\ asked' = [asked EXCEPT ![w] = r]
                           /\ ReadAreaPoint(w, Corners(r))
    BY <1>4 DEF ReadArea
  <2>2. PICK t : task' = [task EXCEPT ![w] = t] /\ (t = Failed \/ \E boxes : t = Scan(boxes))
    BY <2>1 DEF ReadAreaPoint
  <2>3. TaskOK(t, DOMAIN maindb)
    BY <2>2 DEF TaskOK, Place, Scan, Failed
  <2>4. /\ alive /\ UNCHANGED <<rolevars, dbvars, runvars, reply>>
        /\ asked' \in [Workers -> Areas \cup {NoArea}]
    BY <1>4, <2>1 DEF ReadArea, ReadAreaPoint, At, GeoInv, SiteType
  <2> QED
    BY <2>2, <2>3, <2>4, TaskStep
<1>5. CASE Within(Put(w))
  <2>1. PICK done \in BOOLEAN :
          task' = [task EXCEPT ![w] =
                     [at |-> "commit", id |-> task[w].id, key |-> task[w].key, done |-> done]]
    BY <1>5 DEF Within, Put
  <2> DEFINE t == [at |-> "commit", id |-> task[w].id, key |-> task[w].key, done |-> done]
  <2>2. TaskOK(t, DOMAIN maindb)
    BY <1>5 DEF TaskOK, Place, Within, Put, At, GeoInv, WorkerOK
  <2>3. /\ alive /\ task' = [task EXCEPT ![w] = t] /\ UNCHANGED <<rolevars, dbvars, runvars, reply>>
        /\ asked' \in [Workers -> Areas \cup {NoArea}]
    BY <1>5, <2>1 DEF Within, Put, At, requestvars, GeoInv, SiteType
  <2> HIDE DEF t
  <2> QED
    BY <2>2, <2>3, TaskStep
<1>6. CASE Within(NextEntry(w)) \/ Within(PgetFails(w))
  <2>1. /\ alive /\ task[w].at = "scan" /\ "at" \in DOMAIN task[w]
        /\ UNCHANGED <<rolevars, dbvars, runvars, requestvars, reply>>
    BY <1>6 DEF Within, NextEntry, PgetFails, Scanning, At, GeoInv, WorkerOK, TaskOK
  <2>2. PICK t : task' = [task EXCEPT ![w] = t] /\ t.at = "scan" /\ "at" \in DOMAIN t
    BY <1>6, <2>1 DEF Within, NextEntry, PgetFails, EndBox, GeoInv, SiteType
  <2>3. TaskOK(t, DOMAIN maindb)
    BY <2>2 DEF TaskOK, Place
  <2>4. asked' \in [Workers -> Areas \cup {NoArea}]
    BY <2>1 DEF requestvars, GeoInv, SiteType
  <2> QED
    BY <2>1, <2>2, <2>3, <2>4, TaskStep
<1> QED
  BY <1>3, <1>4, <1>5, <1>6
-----------------------------------------------------------------------------
(* The steps that change what is stored.  It only grows. *)

LEMMA Grows ==
  ASSUME NEW stored, NEW more, stored \subseteq more
  PROVE  /\ \A t : TaskOK(t, stored) => TaskOK(t, more)
         /\ \A r : ReplyOK(r, stored) => ReplyOK(r, more)
BY DEF TaskOK, ReplyOK

(* The new entry has a place of its own, whatever becomes of the index. *)
LEMMA ReindexedWellFormed ==
  ASSUME Recoverable, NEW id \in Ids, NEW key, pointdb' \in Reindexed(id, key),
         maindb' = [i \in DOMAIN maindb \cup {id} |-> IF i = id THEN key ELSE maindb[i]]
  PROVE  WellFormed(Databases', entries + 1)
<1> DEFINE new == NewEntry(id, key)
<1>1. /\ DOMAIN maindb' = DOMAIN maindb \cup {id}
      /\ DOMAIN maindb' \subseteq Ids
  BY PresentIsWellFormed
<1>2. new.id = id /\ new.place = entries + 1 /\ entries \in Nat
  BY DEF NewEntry, Recoverable
<1>3. \/ pointdb' = {e \in pointdb : e.id # id} \cup {new}
      \/ id \in DOMAIN maindb /\ pointdb' = pointdb
      \/ id \in DOMAIN maindb /\ pointdb' = pointdb \cup {new}
  BY DEF Reindexed
<1> HIDE DEF new
<1>4. pointdb' \subseteq pointdb \cup {new}
  BY <1>3
<1>5. \A e \in pointdb' : e.place \in 1..(entries + 1) /\ e.id \in DOMAIN maindb'
  BY <1>1, <1>2, <1>4, PresentIsWellFormed
<1>6. ASSUME NEW e \in pointdb', NEW f \in pointdb', e.place = f.place PROVE e = f
  <2>1. \A x \in pointdb : x.place # new.place
    BY <1>2, PresentIsWellFormed
  <2> QED
    BY <1>4, <1>6, <2>1, PresentIsWellFormed
<1>7. ASSUME NEW i \in DOMAIN maindb' PROVE \E e \in pointdb' : e.id = i
  <2>1. CASE i \in DOMAIN maindb /\ (i # id \/ pointdb \subseteq pointdb')
    <3>1. PICK e \in pointdb : e.id = i
      BY <2>1, PresentIsWellFormed
    <3>2. e \in pointdb'
      BY <1>3, <2>1, <3>1
    <3> QED
      BY <3>1, <3>2
  <2>2. CASE i = id /\ ~(pointdb \subseteq pointdb')
    BY <1>2, <1>3, <2>2
  <2>3. CASE i \notin DOMAIN maindb
    BY <1>1, <1>2, <1>3, <2>3
  <2> QED
    BY <1>1, <2>1, <2>2, <2>3
<1>8. {e.id : e \in pointdb'} = DOMAIN maindb'
  BY <1>5, <1>7
<1>9. Databases' = [main |-> maindb', point |-> pointdb']
  BY DEF Databases
<1> QED
  BY <1>1, <1>5, <1>6, <1>8, <1>9 DEF WellFormed

LEMMA StillWellFormed ==
  ASSUME NEW n \in Nat, NEW d, WellFormed(d, n)
  PROVE  WellFormed(d, n + 1)
<1>1. \A p \in 1..n : p \in 1..(n + 1)
  OBVIOUS
<1> QED
  BY <1>1 DEF WellFormed

LEMMA CommitInv ==
  ASSUME GeoInv, NEW w \in Workers, Within(Commit(w))
  PROVE  GeoInv'
<1>1. /\ alive /\ task[w].at = "commit" /\ UNCHANGED <<rolevars, runvars, safe, requestvars, reply>>
      /\ Proceed(w, [at |-> "checkpoint", id |-> task[w].id, done |-> task[w].done])
  BY DEF Within, Commit, At
<1>2. TaskOK(task[w], DOMAIN maindb) /\ task[w].id \in Ids
  BY <1>1 DEF GeoInv, WorkerOK, TaskOK
<1>3. /\ DOMAIN maindb \subseteq DOMAIN maindb'
      /\ task[w].done => task[w].id \in DOMAIN maindb'
  BY DEF Within, Commit
<1>4. Recoverable'
  <2>1. CASE task[w].done
    <3>1. /\ since' = since \cup {Databases'} /\ WellFormed(Databases', entries')
          /\ entries' = entries + 1 /\ entries \in Nat
      BY <1>2, <2>1, ReindexedWellFormed DEF Within, Commit, GeoInv, Recoverable
    <3>2. safe' \subseteq DOMAIN Databases'.main
      BY <1>1, <1>3, PresentIsWellFormed DEF Databases, GeoInv
    <3>3. \A d \in since' : WellFormed(d, entries') /\ safe' \subseteq DOMAIN d.main
      BY <1>1, <3>1, <3>2, StillWellFormed DEF GeoInv, Recoverable
    <3>4. entries' \in Nat /\ Databases' \in since'
      BY <3>1
    <3> QED
      BY <3>3, <3>4 DEF Recoverable
  <2>2. CASE ~task[w].done
    BY <1>1, <2>2, SameDatabases DEF Within, Commit, dbvars
  <2> QED
    BY <2>1, <2>2
<1>5. SiteType'
  <2>1. task' = [v \in Workers |-> task'[v]]
    BY <1>1 DEF Proceed
  <2> QED
    BY <1>1, <2>1 DEF GeoInv, SiteType, rolevars, runvars, requestvars
<1>6. ASSUME NEW v \in Workers PROVE WorkerOK(v)'
  <2>1. TaskOK(task[v], DOMAIN maindb') /\ ReplyOK(reply[v], DOMAIN maindb')
    BY <1>3, Grows DEF GeoInv, WorkerOK
  <2>2. TaskOK(task'[v], DOMAIN maindb')
    <3>1. CASE v = w
      <4>1. task'[v] = [at |-> "checkpoint", id |-> task[w].id, done |-> task[w].done]
        BY <1>1, <3>1 DEF Proceed
      <4> QED
        BY <1>2, <1>3, <4>1 DEF TaskOK, Place
    <3>2. CASE v # w /\ task[v].at = "scan"
      <4>1. task'[v] = [task[v] EXCEPT !.there = @ \cap pointdb']
        BY <1>1, <3>2 DEF Proceed
      <4>2. "at" \in DOMAIN task'[v] /\ task'[v].at = "scan"
        BY <2>1, <3>2, <4>1 DEF TaskOK
      <4> QED
        BY <4>2 DEF TaskOK, Place
    <3>3. CASE v # w /\ task[v].at # "scan"
      BY <1>1, <2>1, <3>3 DEF Proceed
    <3> QED
      BY <3>1, <3>2, <3>3
  <2> QED
    BY <1>1, <2>1, <2>2 DEF WorkerOK, runvars
<1> QED
  BY <1>4, <1>5, <1>6 DEF GeoInv

LEMMA SaveReturnsInv ==
  ASSUME GeoInv, NEW w \in Workers, SaveReturns(w)
  PROVE  GeoInv'
<1> DEFINE r == InsertOk(task[w].id, task[w].done)
<1>1. /\ alive /\ task[w].at = "checkpoint"
      /\ UNCHANGED <<rolevars, runvars, maindb, pointdb, entries, requestvars>>
      /\ task' = [task EXCEPT ![w] = Idle] /\ reply' = [reply EXCEPT ![w] = r]
  BY DEF SaveReturns, Checkpoint, At, Say
<1>2. task[w].done => task[w].id \in DOMAIN maindb
  BY <1>1 DEF GeoInv, WorkerOK, TaskOK
<1>3. ReplyOK(r, DOMAIN maindb)
  BY <1>2 DEF ReplyOK, InsertOk, Content
<1>4. Recoverable'
  <2>1. CASE UNCHANGED <<since, safe>>
    BY <1>1, <2>1, SameDatabases DEF dbvars
  <2>2. CASE /\ since' = {Databases}
             /\ safe' = safe \cup IF task[w].done THEN {task[w].id} ELSE {}
    <3>1. Databases' = Databases /\ WellFormed(Databases, entries) /\ entries \in Nat
      BY <1>1 DEF Databases, GeoInv, Recoverable
    <3>2. safe' \subseteq DOMAIN Databases.main
      BY <1>2, <2>2, PresentIsWellFormed DEF Databases, GeoInv
    <3> QED
      BY <1>1, <2>2, <3>1, <3>2 DEF Recoverable
  <2> QED
    BY <2>1, <2>2 DEF SaveReturns, Checkpoint
<1> HIDE DEF r
<1>5. /\ task'[w] = Idle /\ reply'[w] = r
      /\ \A v \in Workers \ {w} : task'[v] = task[v] /\ reply'[v] = reply[v]
      /\ task' = [v \in Workers |-> task'[v]] /\ reply' = [v \in Workers |-> reply'[v]]
  BY <1>1 DEF GeoInv, SiteType
<1>6. SiteType'
  BY <1>1, <1>5 DEF GeoInv, SiteType, rolevars, runvars, requestvars
<1>7. \A v \in Workers : WorkerOK(v)'
  BY <1>1, <1>3, <1>5, IdleOK DEF GeoInv, WorkerOK, runvars
<1> QED
  BY <1>4, <1>6, <1>7 DEF GeoInv
-----------------------------------------------------------------------------
(* The site: changes of role, the end of the process and its recovery. *)

LEMMA RoleInv ==
  ASSUME GeoInv, Within(ChangeRole) \/ Within(OnDbEnent)
  PROVE  GeoInv'
<1>1. UNCHANGED <<dbvars, runvars, task, requestvars, reply>>
  BY DEF Within, ChangeRole, OnDbEnent
<1>2. SiteType'
  <2>1. CASE Within(ChangeRole)
    <3>1. master' \in BOOLEAN /\ events' = Append(events, master') /\ canwrite' = canwrite
      BY <2>1 DEF Within, ChangeRole, GeoInv, SiteType
    <3>2. events' \in Seq(BOOLEAN)
      BY <3>1 DEF GeoInv, SiteType
    <3> QED
      BY <1>1, <3>1, <3>2 DEF GeoInv, SiteType, runvars, requestvars
  <2>2. CASE Within(OnDbEnent)
    <3>1. /\ events # <<>> /\ events' = Tail(events) /\ canwrite' = Head(events)
          /\ master' = master
      BY <2>2 DEF Within, OnDbEnent
    <3>2. events' \in Seq(BOOLEAN) /\ canwrite' \in BOOLEAN
      BY <3>1 DEF GeoInv, SiteType
    <3> QED
      BY <1>1, <3>1, <3>2 DEF GeoInv, SiteType, runvars, requestvars
  <2> QED
    BY <2>1, <2>2
<1> QED
  BY <1>1, <1>2, SameDatabases DEF GeoInv, WorkerOK, dbvars, runvars

LEMMA EndInv ==
  ASSUME GeoInv, End
  PROVE  GeoInv'
<1>1. /\ alive' = FALSE /\ opened' = FALSE /\ master' = FALSE /\ canwrite' = FALSE
      /\ events' = <<>> /\ UNCHANGED dbvars
      /\ task' = [w \in Workers |-> Idle] /\ reply' = [w \in Workers |-> NoReply]
      /\ asked' = [w \in Workers |-> NoArea]
  BY DEF End, Crash, Die
<1>2. SiteType'
  <2>1. /\ task' = [w \in Workers |-> task'[w]] /\ reply' = [w \in Workers |-> reply'[w]]
        /\ asked' \in [Workers -> Areas \cup {NoArea}] /\ events' \in Seq(BOOLEAN)
    BY <1>1
  <2> QED
    BY <1>1, <2>1 DEF SiteType
<1>3. \A w \in Workers : WorkerOK(w)'
  BY <1>1, IdleOK DEF WorkerOK
<1> QED
  BY <1>1, <1>2, <1>3, SameDatabases DEF GeoInv

(* What recovery finds is one of the databases since the last checkpoint.  *)
LEMMA RestartInv ==
  ASSUME GeoInv, Within(Restart)
  PROVE  GeoInv'
<1>1. /\ ~alive /\ alive' = TRUE /\ opened' \in BOOLEAN
      /\ UNCHANGED <<rolevars, entries, safe, task, requestvars, reply>>
  BY DEF Within, Restart
<1>2. PICK found \in since :
        maindb' = found.main /\ pointdb' = found.point /\ since' = {found}
  BY DEF Within, Restart
<1>3. WellFormed(found, entries) /\ entries \in Nat /\ safe \subseteq DOMAIN found.main
  BY DEF GeoInv, Recoverable
<1>4. Recoverable'
  <2>1. Databases' = found
    BY <1>2, <1>3 DEF Databases, WellFormed
  <2> QED
    BY <1>1, <1>2, <1>3, <2>1 DEF Recoverable
<1>5. SiteType'
  BY <1>1 DEF GeoInv, SiteType, rolevars, requestvars
<1>6. \A w \in Workers : WorkerOK(w)'
  BY <1>1, IdleOK DEF GeoInv, WorkerOK
<1> QED
  BY <1>4, <1>5, <1>6 DEF GeoInv
-----------------------------------------------------------------------------
LEMMA GeoStep == GeoInv /\ [GeoNext]_geovars => GeoInv'
<1> SUFFICES ASSUME GeoInv, [GeoNext]_geovars PROVE GeoInv'
  OBVIOUS
<1>1. CASE UNCHANGED geovars
  BY <1>1, SameDatabases
     DEF GeoInv, SiteType, WorkerOK, geovars, backvars, rolevars, dbvars, runvars, requestvars
<1>2. ASSUME NEW w \in Workers,
             \/ Refused(w) \/ NotGeo(w) \/ NotFound(w) \/ SaveInPart(w) \/ WriteReply(w)
             \/ AreaReturns(w)
      PROVE  GeoInv'
  BY <1>2, AnswerInv
<1>3. ASSUME NEW w \in Workers,
             \/ SavePoint(w) \/ ReadArea(w)
             \/ Within(Put(w)) \/ Within(NextEntry(w)) \/ Within(PgetFails(w))
      PROVE  GeoInv'
  BY <1>3, WorkInv
<1>4. ASSUME NEW w \in Workers, SaveReturns(w) PROVE GeoInv'
  BY <1>4, SaveReturnsInv
<1>5. ASSUME NEW w \in Workers, Within(Commit(w)) PROVE GeoInv'
  BY <1>5, CommitInv
<1>6. CASE Within(ChangeRole) \/ Within(OnDbEnent)
  BY <1>6, RoleInv
<1>7. CASE Within(Restart)
  BY <1>7, RestartInv
<1>8. CASE End
  BY <1>8, EndInv
<1> QED
  BY <1>1, <1>2, <1>3, <1>4, <1>5, <1>6, <1>7, <1>8 DEF GeoNext

LEMMA GeoInvariant == GeoSpec => []GeoInv
<1>1. GeoInit => GeoInv
  BY InitGeo
<1>2. GeoInv /\ [GeoNext]_geovars => GeoInv'
  BY GeoStep
<1> QED
  BY <1>1, <1>2, PTL DEF GeoSpec

(* "insert ok" is never written before the point is stored, in the records *)
(* and in the index, unless the put failed or the site might not write.    *)
THEOREM OkIsStored == GeoSpec => []OkMeansStored
<1>1. GeoInv => OkMeansStored
  <2> SUFFICES ASSUME GeoInv, NEW w \in Workers, reply[w].code # 0,
                      reply[w].content = "insertOk", reply[w].done
               PROVE  /\ reply[w].id \in DOMAIN maindb
                      /\ \E e \in pointdb : e.id = reply[w].id
    BY DEF OkMeansStored
  <2>1. reply[w] # NoReply
    <3>1. NoReply.code = 0
      BY DEF NoReply
    <3> QED
      BY <3>1
  <2>2. reply[w].id \in DOMAIN maindb
    BY <2>1 DEF GeoInv, WorkerOK, ReplyOK
  <2> QED
    BY <2>2, PresentIsWellFormed DEF GeoInv
<1> QED
  BY <1>1, GeoInvariant, PTL

(* A save whose own AddPoint went on to a checkpoint survives every end of *)
(* the process: there is no database that recovery may find without it.    *)
THEOREM SafeSurvives == GeoSpec => []CheckpointedSurvives
<1>1. GeoInv => CheckpointedSurvives
  BY PresentIsWellFormed DEF GeoInv, CheckpointedSurvives
<1> QED
  BY <1>1, GeoInvariant, PTL
-----------------------------------------------------------------------------
(* Rounding: its type, that it keeps the order, and how far it leads. *)
LEMMA NearestType ==
  ASSUME NEW step \in Nat \ {0}, NEW n \in Int
  PROVE  Nearest(n, step) \in Int
<1>1. step \div 2 \in Int
  OBVIOUS
<1>2. (n + step \div 2) \div step \in Int
  BY <1>1
<1> QED
  BY <1>2 DEF Nearest

LEMMA NearestWithin ==
  ASSUME NEW step \in Nat \ {0}, NEW n \in Int
  PROVE  /\ Nearest(n, step) <= n + step /\ n - step <= Nearest(n, step)
         /\ n >= 0 => Nearest(n, step) >= 0
<1> DEFINE h == step \div 2
           x == n + h
           q == x \div step
           m == x % step
<1>1. h \in 0..(step - 1)
  OBVIOUS
<1> HIDE DEF h
<1>2. x \in Int
  BY <1>1
<1> HIDE DEF x
<1>3. q \in Int /\ m \in 0..(step - 1) /\ x = step * q + m
  BY <1>2, Divided
<1>4. Nearest(n, step) = q * step
  BY DEF Nearest, q, x, h
<1>5. x >= 0 => q >= 0
  BY <1>2
<1> HIDE DEF q, m
<1>6. q * step = x - m /\ x = n + h
  BY <1>2, <1>3 DEF x
<1>7. q >= 0 => q * step >= 0
  <2>1. 0 * step = 0
    OBVIOUS
  <2>2. q >= 0 => 0 * step <= q * step
    BY <1>3, TimesMonotone
  <2>3. q * step \in Int
    BY <1>3
  <2> QED
    BY <2>1, <2>2, <2>3
<1> QED
  BY <1>1, <1>3, <1>4, <1>5, <1>6, <1>7

(* Positions, as points and as what SplitForGeo rounds them to. *)
Position == [lat : Int, lng : Int]

LEMMA SplitForGeoType ==
  ASSUME NEW n \in Int
  PROVE  SplitForGeo(n) \in Position
<1>1. ToFloat(Split(n).first) \in Int /\ ToFloat(Split(n).second) \in Int
  BY SplitType, Widths, NearestType DEF ToFloat
<1>2. Grain \in Int /\ HalfLat \in Int /\ HalfLng \in Int
  BY Widths
<1> QED
  BY <1>1, <1>2 DEF SplitForGeo, Position

(* Codes and keys of any numbers, converted or undefined. *)
LEMMA UnsignedType ==
  ASSUME NEW x \in Int, NEW half \in Int
  PROVE  Unsigned(x, half) \subseteq Coordinates
<1> DEFINE W == 2 ^ Bits
           sum == FloatSum(x + half)
<1>1. W \in Nat \ {0} /\ Coordinates = 0..(W - 1)
  <2>1. W = Bin[Bits]
    BY Widths, CodeWeights
  <2> QED
    BY <2>1, Capacity DEF Coordinates
<1>2. Undefined \subseteq 0..(W - 1)
  BY FloatAssumption
<1>3. sum \in Int /\ Grain \in Nat \ {0}
  BY GlobeAssumption, NearestType DEF FloatSum
<1>4. Unsigned(x, half) \subseteq {IF sum < 0 THEN 0 ELSE sum \div Grain} \cup Undefined
  BY DEF Unsigned
<1>5. sum < Grain * W \/ Unsigned(x, half) \subseteq Undefined
  BY DEF Unsigned
<1> HIDE DEF sum, W
<1>6. ASSUME sum >= 0, sum < Grain * W PROVE sum \div Grain \in 0..(W - 1)
  <2> DEFINE q == sum \div Grain
             m == sum % Grain
  <2>1. q \in Int /\ m \in 0..(Grain - 1) /\ sum = Grain * q + m
    BY <1>3, Divided
  <2>2. q >= 0
    BY <1>3, <1>6
  <2> HIDE DEF q, m
  <2>3. ~(W <= q)
    <3>1. ASSUME W <= q PROVE W * Grain <= q * Grain
      BY <1>1, <1>3, <2>1, <3>1, TimesMonotone
    <3>2. W * Grain \in Int /\ Grain * q \in Int /\ W * Grain = Grain * W /\ q * Grain = Grain * q
      BY <1>1, <1>3, <2>1
    <3> QED
      BY <1>3, <1>6, <2>1, <3>1, <3>2
  <2> QED
    BY <1>1, <2>1, <2>2, <2>3 DEF q
<1>7. ASSUME NEW u \in Unsigned(x, half), u \notin Undefined PROVE u \in 0..(W - 1)
  <2>1. u = IF sum < 0 THEN 0 ELSE sum \div Grain
    BY <1>4, <1>7
  <2>2. sum < Grain * W
    BY <1>5, <1>7
  <2>3. CASE sum < 0
    BY <1>1, <2>1, <2>3
  <2>4. CASE sum >= 0
    <3>1. u = sum \div Grain
      BY <1>3, <2>1, <2>4
    <3> QED
      BY <1>6, <2>2, <2>4, <3>1
  <2> QED
    BY <1>3, <2>3, <2>4
<1> QED
  BY <1>1, <1>2, <1>7

LEMMA CodesOfPoint ==
  ASSUME NEW lat \in Int, NEW lng \in Int
  PROVE  \A n \in CombineForGeo(lat, lng) :
           \E a, b \in Coordinates : n = Combine(a, b) /\ n \in Codes
<1>1. Unsigned(lat, HalfLat) \subseteq Coordinates /\ Unsigned(lng, HalfLng) \subseteq Coordinates
  BY Widths, UnsignedType
<1>2. \A a, b \in Coordinates : Combine(a, b) \in Codes
  BY CombineType DEF Coordinates
<1> QED
  BY <1>1, <1>2 DEF CombineForGeo

(* Keys as AddPoint makes them. *)
PointKey == {LongToByte(Combine(a, b)) : a, b \in Coordinates}

LEMMA PointKeyType == PointKey \subseteq Key
<1>1. ASSUME NEW a \in Coordinates, NEW b \in Coordinates
      PROVE  LongToByte(Combine(a, b)) \in Key
  BY CombineType, LongToByteType DEF Codes, Coordinates
<1> QED
  BY <1>1 DEF PointKey

LEMMA KeysOfPoint ==
  ASSUME NEW point \in Points
  PROVE  KeysOf(point) \subseteq PointKey
<1>1. point.lat \in Int /\ point.lng \in Int
  BY PointsAssumption, FloatAssumption DEF Float, NaN
<1> QED
  BY <1>1, CodesOfPoint DEF KeysOf, PointKey

(* The code under which an entry is stored, and its units. *)
LEMMA CodeOfKey ==
  ASSUME NEW key \in PointKey
  PROVE  \E a, b \in Coordinates :
           /\ ByteToLong(key) = Combine(a, b) /\ Combine(a, b) \in Codes
           /\ key = LongToByte(Combine(a, b))
           /\ Split(ByteToLong(key)) = [first |-> a, second |-> b]
<1>1. PICK a \in Coordinates, b \in Coordinates : key = LongToByte(Combine(a, b))
  BY DEF PointKey
<1>2. Combine(a, b) \in Codes
  BY CombineType DEF Coordinates
<1> QED
  BY <1>1, <1>2, KeyHoldsCode, SplitInverts
-----------------------------------------------------------------------------
(* The order of a cursor is total on entries with places of their own, so  *)
(* there is a first one wherever there is one ahead.                       *)
Entry == [key : PointKey, id : Ids, place : Int]
Apart(T) == \A e, f \in T : e.place = f.place => e = f

LEMMA KeyTransitive ==
  ASSUME NEW x \in Key, NEW y \in Key, NEW z \in Key, KeyBefore(x, y), KeyBefore(y, z)
  PROVE  KeyBefore(x, z)
<1>1. PICK j \in 1..Bytes : x[j] < y[j] /\ \A i \in 1..(j - 1) : x[i] = y[i]
  BY DEF KeyBefore, Key
<1>2. PICK k \in 1..Bytes : y[k] < z[k] /\ \A i \in 1..(k - 1) : y[i] = z[i]
  BY DEF KeyBefore, Key
<1>3. /\ DOMAIN x = 1..Bytes
      /\ \A i \in 1..Bytes : x[i] \in Int /\ y[i] \in Int /\ z[i] \in Int
  BY DEF Key
<1>4. Bytes \in Nat
  BY Widths
<1>5. PICK m \in {j, k} : m <= j /\ m <= k
  BY <1>4
<1>6. x[m] < z[m]
  BY <1>1, <1>2, <1>3, <1>4, <1>5
<1>7. \A i \in 1..(m - 1) : x[i] = z[i]
  BY <1>1, <1>2, <1>4, <1>5
<1> QED
  BY <1>3, <1>5, <1>6, <1>7 DEF KeyBefore

LEMMA FollowsIrreflexive == \A e \in Entry : ~Follows(e, e)
<1> SUFFICES ASSUME NEW e \in Entry PROVE ~Follows(e, e)
  OBVIOUS
<1>1. e.key \in Key /\ e.place \in Int
  BY PointKeyType DEF Entry
<1> QED
  BY <1>1, KeyIrreflexive DEF Follows

LEMMA FollowsTransitive ==
  ASSUME NEW e \in Entry, NEW f \in Entry, NEW g \in Entry, Follows(g, f), Follows(f, e)
  PROVE  Follows(g, e)
<1>1. /\ e.key \in Key /\ f.key \in Key /\ g.key \in Key
      /\ e.place \in Int /\ f.place \in Int /\ g.place \in Int
  BY PointKeyType DEF Entry
<1>2. CASE KeyBefore(e.key, f.key) /\ KeyBefore(f.key, g.key)
  BY <1>1, <1>2, KeyTransitive DEF Follows
<1>3. CASE f.key = e.key \/ g.key = f.key
  BY <1>1, <1>3 DEF Follows
<1> QED
  BY <1>2, <1>3 DEF Follows

LEMMA FollowsTotal ==
  ASSUME NEW e \in Entry, NEW f \in Entry, e.place # f.place
  PROVE  Follows(e, f) \/ Follows(f, e)
<1>1. e.key \in Key /\ f.key \in Key /\ e.place \in Int /\ f.place \in Int
  BY PointKeyType DEF Entry
<1>2. CASE e.key # f.key
  BY <1>1, <1>2, KeyTotal DEF Follows
<1>3. CASE e.key = f.key
  <2>1. e.place > f.place \/ f.place > e.place
    BY <1>1
  <2> QED
    BY <1>3, <2>1 DEF Follows
<1> QED
  BY <1>2, <1>3

(* A cursor finds an entry wherever there is one ahead. *)
LEMMA FirstIsAhead ==
  ASSUME NEW T \in SUBSET Entry, IsFiniteSet(T), Apart(T), T # {}
  PROVE  First(T) \in T /\ \A f \in T \ {First(T)} : Follows(f, First(T))
<1> DEFINE Least(e, U) == \A f \in U \ {e} : Follows(f, e)
           Bad == {U \in SUBSET T : U # {} /\ \A e \in U : ~Least(e, U)}
<1>1. Bad = {}
  <2> SUFFICES ASSUME Bad # {} PROVE FALSE
    OBVIOUS
  <2>1. Bad \in SUBSET (SUBSET T)
    OBVIOUS
  <2>2. PICK U \in Bad : \A V \in Bad : V \subseteq U => V = U
    <3> HIDE DEF Bad
    <3> QED
      BY <2>1, LeastSet
  <2>3. PICK x \in U : TRUE
    BY <2>2
  <2>4. U \ {x} # {}
    BY <2>2, <2>3
  <2>5. U \ {x} \in SUBSET T /\ U \ {x} \subseteq U /\ U \ {x} # U
    BY <2>2, <2>3
  <2>6. U \ {x} \notin Bad
    <3> HIDE DEF Bad
    <3> QED
      BY <2>2, <2>5
  <2>7. PICK e \in U \ {x} : Least(e, U \ {x})
    BY <2>4, <2>5, <2>6
  <2>8. x \in Entry /\ e \in Entry /\ x.place # e.place /\ U \subseteq Entry
    <3>1. x \in T /\ e \in T /\ x # e
      BY <2>2, <2>3, <2>7
    <3> QED
      BY <2>2, <3>1 DEF Apart
  <2>9. CASE Follows(x, e)
    <3>1. Least(e, U)
      BY <2>7, <2>9
    <3> QED
      BY <2>2, <2>7, <3>1
  <2>10. CASE Follows(e, x)
    <3>1. ASSUME NEW f \in U \ {x} PROVE Follows(f, x)
      <4>1. CASE f = e
        BY <2>10, <4>1
      <4>2. CASE f # e
        <5>1. Follows(f, e) /\ f \in Entry
          BY <2>7, <2>8, <4>2
        <5> QED
          BY <2>8, <2>10, <5>1, FollowsTransitive
      <4> QED
        BY <4>1, <4>2
    <3>2. Least(x, U)
      BY <3>1
    <3> QED
      BY <2>2, <2>3, <3>2
  <2> QED
    BY <2>8, <2>9, <2>10, FollowsTotal
<1>2. \E e \in T : \A f \in T \ {e} : Follows(f, e)
  BY <1>1
<1> QED
  BY <1>2 DEF First
-----------------------------------------------------------------------------
(* The boxes of an area, and with the codes between which they are walked. *)
Rect == [latmin : Int, latmax : Int, lngmin : Int, lngmax : Int]
Box == [latmin : Int, latmax : Int, lngmin : Int, lngmax : Int, minpos : Int, maxpos : Int]

(* Whatever lies in one of the boxes lies in the area, and in no other box. *)
Lies(p, r) == Finite(r) => InArea(p, r)
Disjoint(boxes, r) ==
  /\ \A k \in DOMAIN boxes : \A p \in Position : Inside(p, boxes[k]) => Lies(p, r)
  /\ \A j, k \in DOMAIN boxes : j # k =>
       \A p \in Position : ~(Inside(p, boxes[j]) /\ Inside(p, boxes[k]))
BoxesOK(boxes, r) == boxes \in Seq(Box) /\ Disjoint(boxes, r)

LEMMA AreaType ==
  ASSUME NEW r \in Areas
  PROVE  /\ r.lat1 \in Int /\ r.lat2 \in Int /\ r.lng1 \in Int /\ r.lng2 \in Int
         /\ NaN \in Int /\ Infinity \in Nat \ {0} /\ NaN = Infinity + 1
<1>1. Infinity \in Nat
  BY FloatAssumption
<1>2. Infinity \in Nat \ {0}
  <2> DEFINE z == Grain * (2 ^ Bits + FloatStep)
  <2>1. Bin[Bits] = 2 ^ Bits /\ Bin[Bits] \in Nat
    BY Widths, CodeWeights, Capacity
  <2>2. 2 ^ Bits + FloatStep \in Nat /\ Grain \in Nat
    BY <2>1, Widths
  <2>3. z \in Nat
    BY <2>2, TimesNat
  <2>4. Infinity > z + SumStep + HalfLat + HalfLng
    BY FloatAssumption
  <2> HIDE DEF z
  <2> QED
    BY <1>1, <2>3, <2>4, Widths, GlobeAssumption
<1> QED
  BY <1>1, <1>2, AreasAssumption DEF Float, NaN

(* MIN and MAX of what is no number return the other one, or no number: so *)
(* either corners are in order, or no number lies between them.            *)
LEMMA CornersOf ==
  ASSUME NEW r \in Areas
  PROVE  LET a == Corners(r)
         IN  /\ a \in Rect
             /\ {a.latmin, a.latmax} \subseteq {r.lat1, r.lat2}
             /\ {a.lngmin, a.lngmax} \subseteq {r.lng1, r.lng2}
             /\ AtMost(a.lngmin, a.lngmax) <=> r.lng2 # NaN
             /\ a.latmin < a.latmax => \/ a.latmin = r.lat1 /\ a.latmax = r.lat2
                                       \/ a.latmin = r.lat2 /\ a.latmax = r.lat1
             /\ a.lngmin < a.lngmax => \/ a.lngmin = r.lng1 /\ a.lngmax = r.lng2
                                       \/ a.lngmin = r.lng2 /\ a.lngmax = r.lng1
<1> DEFINE s == MIN(r.lat1, r.lat2)
           n == MAX(r.lat1, r.lat2)
           w == MIN(r.lng1, r.lng2)
           o == MAX(r.lng1, r.lng2)
<1>1. /\ r.lat1 \in Int /\ r.lat2 \in Int /\ r.lng1 \in Int /\ r.lng2 \in Int
      /\ NaN \in Int
  BY AreaType
<1>2. ASSUME NEW x \in Int, NEW y \in Int
      PROVE  /\ MIN(x, y) \in {x, y} /\ MAX(x, y) \in {x, y}
             /\ AtMost(MIN(x, y), MAX(x, y)) <=> y # NaN
             /\ MIN(x, y) < MAX(x, y) => \/ MIN(x, y) = x /\ MAX(x, y) = y
                                         \/ MIN(x, y) = y /\ MAX(x, y) = x
  BY <1>1 DEF MIN, MAX, Less, AtMost
<1>3. /\ s \in {r.lat1, r.lat2} /\ n \in {r.lat1, r.lat2}
      /\ w \in {r.lng1, r.lng2} /\ o \in {r.lng1, r.lng2}
      /\ AtMost(w, o) <=> r.lng2 # NaN
      /\ s < n => \/ s = r.lat1 /\ n = r.lat2
                  \/ s = r.lat2 /\ n = r.lat1
      /\ w < o => \/ w = r.lng1 /\ o = r.lng2
                  \/ w = r.lng2 /\ o = r.lng1
  BY <1>1, <1>2
<1>4. Corners(r) = [latmin |-> s, latmax |-> n, lngmin |-> w, lngmax |-> o]
  BY DEF Corners
<1> HIDE DEF s, n, w, o
<1>5. Corners(r) \in Rect
  BY <1>1, <1>3, <1>4 DEF Rect
<1> QED
  BY <1>3, <1>4, <1>5

LEMMA OppositeSigns ==
  ASSUME NEW a \in Int, NEW b \in Int, a <= b, ~(a * b >= 0)
  PROVE  a < 0 /\ 0 < b
OBVIOUS

LEMMA SquareSign == \A x \in Int : x * x >= 0
OBVIOUS

(* How an area lies is what Boxes tells from its corners. *)
LEMMA ShapeOfArea ==
  ASSUME NEW r \in Areas, Finite(r), Corners(r).lngmin < Corners(r).lngmax, r.lng2 # NaN
  PROVE  LET a == Corners(r)
         IN  /\ Across(r) <=> ~SameSide(a.lngmin, a.lngmax)
             /\ Wide(r) <=> Across(r) /\ ~(FloatSum(a.lngmax - a.lngmin) < HalfLng)
             /\ Across(r) => a.lngmin < 0 /\ 0 < a.lngmax
<1> DEFINE a == Corners(r)
<1>1. /\ a \in Rect
      /\ \/ a.lngmin = r.lng1 /\ a.lngmax = r.lng2
         \/ a.lngmin = r.lng2 /\ a.lngmax = r.lng1
      /\ AtMost(a.lngmin, a.lngmax) /\ a.lngmin < a.lngmax
  BY CornersOf
<1>2. r.lng1 \in Int /\ r.lng2 \in Int /\ HalfLng \in Nat \ {0}
  BY AreaType, Widths
<1> SUFFICES /\ Across(r) <=> ~SameSide(a.lngmin, a.lngmax)
             /\ Wide(r) <=> Across(r) /\ ~(FloatSum(a.lngmax - a.lngmin) < HalfLng)
             /\ Across(r) => a.lngmin < 0 /\ 0 < a.lngmax
  OBVIOUS
<1> HIDE DEF a
<1> DEFINE x == a.lngmin
           y == a.lngmax
<1>3. x \in Int /\ y \in Int /\ x < y /\ NaN \notin {x, y}
  BY <1>1 DEF Rect, AtMost
<1>4. x * y = r.lng1 * r.lng2
  BY <1>1, <1>2
<1>5. {x, y} \cap {Infinity, -Infinity} = {}
  BY <1>1 DEF Finite
<1>6. Across(r) <=> ~(x * y >= 0)
  <2>1. r.lng1 * r.lng2 \in Int
    BY <1>2, TimesType
  <2> QED
    BY <1>4, <2>1 DEF Across
<1>7. SameSide(x, y) <=> x * y >= 0
  BY <1>3, <1>5 DEF SameSide
<1>8. Wide(r) <=> Across(r) /\ ~(FloatSum(y - x) < HalfLng)
  <2> DEFINE way == IF r.lng1 < r.lng2 THEN r.lng2 - r.lng1 ELSE r.lng1 - r.lng2
  <2>1. way = y - x
    BY <1>1, <1>2, <1>3
  <2>2. Wide(r) <=> Across(r) /\ FloatSum(way) >= HalfLng
    BY DEF Wide
  <2> HIDE DEF way
  <2>3. FloatSum(y - x) \in Int
    BY <1>3, GlobeAssumption, NearestType DEF FloatSum
  <2> HIDE DEF x, y
  <2> QED
    BY <1>2, <2>1, <2>2, <2>3
<1>9. Across(r) => x < 0 /\ 0 < y
  BY <1>3, <1>6, OppositeSigns
<1> QED
  BY <1>6, <1>7, <1>8, <1>9

LEMMA TwoBoxes ==
  ASSUME NEW r, NEW b \in Rect, NEW c \in Rect, b.lngmax <= c.lngmin,
         \A p \in Position : Inside(p, b) \/ Inside(p, c) => Lies(p, r)
  PROVE  <<b, c>> \in Seq(Rect) /\ Disjoint(<<b, c>>, r)
<1>1. \A p \in Position : ~(Inside(p, b) /\ Inside(p, c))
  BY DEF Inside, Less, Rect, Position
<1>2. <<b, c>> \in Seq(Rect)
  OBVIOUS
<1>3. /\ DOMAIN <<b, c>> = {1, 2}
      /\ <<b, c>>[1] = b /\ <<b, c>>[2] = c
  OBVIOUS
<1> DEFINE boxes == <<b, c>>
<1> HIDE DEF boxes
<1> QED
  BY <1>1, <1>2, <1>3 DEF Disjoint, boxes

LEMMA BoxesOfArea ==
  ASSUME NEW r \in Areas, r.lng2 # NaN
  PROVE  Boxes(Corners(r)) \in Seq(Rect) /\ Disjoint(Boxes(Corners(r)), r)
<1> DEFINE a == Corners(r)
<1>1. /\ a \in Rect
      /\ a.latmin < a.latmax => \/ a.latmin = r.lat1 /\ a.latmax = r.lat2
                                \/ a.latmin = r.lat2 /\ a.latmax = r.lat1
      /\ a.lngmin < a.lngmax => \/ a.lngmin = r.lng1 /\ a.lngmax = r.lng2
                                \/ a.lngmin = r.lng2 /\ a.lngmax = r.lng1
      /\ AtMost(a.lngmin, a.lngmax)
  BY CornersOf
<1>2. /\ r.lat1 \in Int /\ r.lng1 \in Int /\ r.lat2 \in Int /\ r.lng2 \in Int
      /\ HalfLng \in Nat /\ Infinity \in Nat \ {0}
  BY AreaType, Widths
<1>3. /\ a.latmin \in Int /\ a.latmax \in Int /\ a.lngmin \in Int /\ a.lngmax \in Int
      /\ a = [latmin |-> a.latmin, latmax |-> a.latmax, lngmin |-> a.lngmin, lngmax |-> a.lngmax]
      /\ a.lngmin <= a.lngmax /\ NaN \notin {a.lngmin, a.lngmax}
  BY <1>1 DEF Rect, AtMost
<1>4. Finite(r) /\ a.lngmin < a.lngmax =>
        /\ Across(r) <=> ~SameSide(a.lngmin, a.lngmax)
        /\ Wide(r) <=> Across(r) /\ ~(FloatSum(a.lngmax - a.lngmin) < HalfLng)
        /\ Across(r) => a.lngmin < 0 /\ 0 < a.lngmax
  BY ShapeOfArea
<1> SUFFICES Boxes(a) \in Seq(Rect) /\ Disjoint(Boxes(a), r)
  OBVIOUS
<1> HIDE DEF a
<1>5. a.lngmin = a.lngmax => SameSide(a.lngmin, a.lngmax)
  BY <1>2, <1>3, SquareSign DEF SameSide
<1>6. ASSUME NEW p \in Position, a.latmin < p.lat, p.lat < a.latmax
      PROVE  Between(p.lat, r.lat1, r.lat2)
  <2>1. p.lat \in Int
    BY DEF Position
  <2> QED
    BY <1>1, <1>3, <1>6, <2>1 DEF Between
<1>7. ASSUME NEW p \in Position, a.lngmin < p.lng, p.lng < a.lngmax
      PROVE  Between(p.lng, r.lng1, r.lng2) /\ a.lngmin < a.lngmax
  <2>1. p.lng \in Int
    BY DEF Position
  <2> QED
    BY <1>1, <1>3, <1>7, <2>1 DEF Between
<1>8. CASE SameSide(a.lngmin, a.lngmax)
  <2>1. Boxes(a) = <<a>>
    BY <1>8 DEF Boxes
  <2>2. \A p \in Position : Inside(p, a) => Lies(p, r)
    <3> SUFFICES ASSUME NEW p \in Position, Inside(p, a), Finite(r) PROVE InArea(p, r)
      BY DEF Lies
    <3>1. a.lngmin < p.lng /\ p.lng < a.lngmax /\ a.latmin < p.lat /\ p.lat < a.latmax
      BY DEF Inside, Less
    <3>2. ~Wide(r)
      BY <1>4, <1>7, <1>8, <3>1
    <3> QED
      BY <1>6, <1>7, <3>1, <3>2 DEF InArea
  <2>3. <<a>> \in Seq(Rect) /\ DOMAIN <<a>> = {1} /\ <<a>>[1] = a
    BY <1>1
  <2> QED
    BY <2>1, <2>2, <2>3 DEF Disjoint
<1>9. CASE ~SameSide(a.lngmin, a.lngmax) /\ FloatSum(a.lngmax - a.lngmin) < HalfLng
  <2> DEFINE b == [a EXCEPT !.lngmax = 0]
             c == [a EXCEPT !.lngmin = 0]
  <2>1. Boxes(a) = <<b, c>>
    BY <1>9 DEF Boxes
  <2>2. /\ b \in Rect /\ b.latmin = a.latmin /\ b.latmax = a.latmax
        /\ b.lngmin = a.lngmin /\ b.lngmax = 0
    BY <1>1 DEF Rect
  <2>3. /\ c \in Rect /\ c.latmin = a.latmin /\ c.latmax = a.latmax
        /\ c.lngmin = 0 /\ c.lngmax = a.lngmax
    BY <1>1 DEF Rect
  <2> HIDE DEF b, c
  <2>4. a.lngmin < a.lngmax
    BY <1>3, <1>5, <1>9
  <2>5. Finite(r) => ~Wide(r) /\ a.lngmin < 0 /\ 0 < a.lngmax
    BY <1>4, <1>9, <2>4
  <2>6. \A p \in Position : Inside(p, b) \/ Inside(p, c) => Lies(p, r)
    <3> SUFFICES ASSUME NEW p \in Position, Inside(p, b) \/ Inside(p, c), Finite(r)
                 PROVE  InArea(p, r)
      BY DEF Lies
    <3>1. p.lng \in Int
      BY DEF Position
    <3>2. a.latmin < p.lat /\ p.lat < a.latmax
      BY <2>2, <2>3 DEF Inside, Less
    <3>3. \/ a.lngmin < p.lng /\ p.lng < 0
          \/ 0 < p.lng /\ p.lng < a.lngmax
      BY <2>2, <2>3 DEF Inside, Less
    <3>4. a.lngmin < p.lng /\ p.lng < a.lngmax
      BY <1>3, <2>5, <3>1, <3>3
    <3> QED
      BY <1>6, <1>7, <2>5, <3>2, <3>4 DEF InArea
  <2>7. b.lngmax <= c.lngmin
    BY <2>2, <2>3
  <2> QED
    BY <2>1, <2>2, <2>3, <2>6, <2>7, TwoBoxes
<1>10. CASE ~SameSide(a.lngmin, a.lngmax) /\ ~(FloatSum(a.lngmax - a.lngmin) < HalfLng)
  <2> DEFINE b == [a EXCEPT !.lngmin = -HalfLng, !.lngmax = a.lngmin]
             c == [a EXCEPT !.lngmin = a.lngmax, !.lngmax = HalfLng]
             back == -HalfLng
  <2>1. Boxes(a) = <<b, c>>
    BY <1>10 DEF Boxes
  <2>2. back \in Int
    BY <1>2
  <2> HIDE DEF back
  <2>3. /\ b \in Rect /\ b.latmin = a.latmin /\ b.latmax = a.latmax
        /\ b.lngmin = back /\ b.lngmax = a.lngmin
    <3>1. /\ [a EXCEPT !.lngmin = back, !.lngmax = a.lngmin] \in Rect
          /\ [a EXCEPT !.lngmin = back, !.lngmax = a.lngmin].latmin = a.latmin
          /\ [a EXCEPT !.lngmin = back, !.lngmax = a.lngmin].latmax = a.latmax
          /\ [a EXCEPT !.lngmin = back, !.lngmax = a.lngmin].lngmin = back
          /\ [a EXCEPT !.lngmin = back, !.lngmax = a.lngmin].lngmax = a.lngmin
      BY <1>1, <1>3, <2>2 DEF Rect
    <3> QED
      BY <3>1 DEF back
  <2>4. /\ c \in Rect /\ c.latmin = a.latmin /\ c.latmax = a.latmax
        /\ c.lngmin = a.lngmax /\ c.lngmax = HalfLng
    <3>1. a \in Rect /\ HalfLng \in Int /\ a.lngmax \in Int
      BY <1>1, <1>2, <1>3
    <3> QED
      BY <3>1 DEF Rect
  <2> HIDE DEF b, c
  <2>5. a.lngmin < a.lngmax
    BY <1>3, <1>5, <1>10
  <2>6. Finite(r) => Wide(r) /\ a.lngmin < 0 /\ 0 < a.lngmax
    BY <1>4, <1>10, <2>5
  <2>7. \A p \in Position : Inside(p, b) \/ Inside(p, c) => Lies(p, r)
    <3> SUFFICES ASSUME NEW p \in Position, Inside(p, b) \/ Inside(p, c), Finite(r)
                 PROVE  InArea(p, r)
      BY DEF Lies
    <3>1. p.lng \in Int
      BY DEF Position
    <3>2. a.latmin < p.lat /\ p.lat < a.latmax
      BY <2>3, <2>4 DEF Inside, Less
    <3>3. \/ back < p.lng /\ p.lng < a.lngmin
          \/ a.lngmax < p.lng /\ p.lng < HalfLng
      BY <2>3, <2>4 DEF Inside, Less
    <3>4. back <= 0 /\ 0 <= HalfLng
      BY <1>2 DEF back
    <3>5. back < p.lng /\ p.lng < HalfLng
      BY <1>2, <1>3, <2>2, <2>6, <3>1, <3>3, <3>4
    <3>6. ~Between(p.lng, r.lng1, r.lng2) /\ p.lng # r.lng1 /\ p.lng # r.lng2
      BY <1>1, <1>3, <2>5, <3>1, <3>3 DEF Between
    <3> QED
      BY <1>6, <2>6, <3>2, <3>5, <3>6 DEF InArea, back
  <2>8. b.lngmax <= c.lngmin
    BY <1>3, <2>3, <2>4
  <2> QED
    BY <2>1, <2>3, <2>4, <2>7, <2>8, TwoBoxes
<1> QED
  BY <1>8, <1>9, <1>10

(* A walk is through the boxes it is made for. *)
LEMMA WalkedBoxes ==
  ASSUME NEW boxes \in Seq(Rect), NEW walk \in Walks(boxes)
  PROVE  /\ walk \in Seq(Box) /\ DOMAIN walk = DOMAIN boxes
         /\ \A k \in DOMAIN boxes :
              /\ walk[k].latmin = boxes[k].latmin /\ walk[k].latmax = boxes[k].latmax
              /\ walk[k].lngmin = boxes[k].lngmin /\ walk[k].lngmax = boxes[k].lngmax
              /\ walk[k].minpos \in CombineForGeo(boxes[k].latmin, boxes[k].lngmin)
              /\ walk[k].maxpos \in CombineForGeo(boxes[k].latmax, boxes[k].lngmax)
              /\ \A p : Inside(p, walk[k]) <=> Inside(p, boxes[k])
<1>1. /\ DOMAIN walk = DOMAIN boxes /\ walk = [k \in DOMAIN boxes |-> walk[k]]
      /\ \A k \in DOMAIN boxes : walk[k] \in Coded(boxes[k])
  BY DEF Walks
<1>2. ASSUME NEW b \in Rect, NEW x \in Coded(b)
      PROVE  /\ x \in Box
             /\ x.latmin = b.latmin /\ x.latmax = b.latmax
             /\ x.lngmin = b.lngmin /\ x.lngmax = b.lngmax
             /\ x.minpos \in CombineForGeo(b.latmin, b.lngmin)
             /\ x.maxpos \in CombineForGeo(b.latmax, b.lngmax)
  <2>1. b.latmin \in Int /\ b.latmax \in Int /\ b.lngmin \in Int /\ b.lngmax \in Int
    BY DEF Rect
  <2>2. PICK minpos \in CombineForGeo(b.latmin, b.lngmin), maxpos \in CombineForGeo(b.latmax, b.lngmax) :
          x = [latmin |-> b.latmin, latmax |-> b.latmax, lngmin |-> b.lngmin, lngmax |-> b.lngmax,
               minpos |-> minpos, maxpos |-> maxpos]
    BY DEF Coded
  <2>3. minpos \in Int /\ maxpos \in Int
    BY <2>1, CodesOfPoint DEF Codes
  <2> QED
    BY <2>1, <2>2, <2>3 DEF Box
<1>3. /\ DOMAIN boxes = 1..Len(boxes) /\ Len(boxes) \in Nat
      /\ \A k \in DOMAIN boxes : boxes[k] \in Rect
  OBVIOUS
<1>4. \A k \in DOMAIN boxes :
        /\ walk[k] \in Box
        /\ walk[k].latmin = boxes[k].latmin /\ walk[k].latmax = boxes[k].latmax
        /\ walk[k].lngmin = boxes[k].lngmin /\ walk[k].lngmax = boxes[k].lngmax
        /\ walk[k].minpos \in CombineForGeo(boxes[k].latmin, boxes[k].lngmin)
        /\ walk[k].maxpos \in CombineForGeo(boxes[k].latmax, boxes[k].lngmax)
  BY <1>1, <1>2, <1>3
<1>5. walk \in Seq(Box)
  <2>1. walk \in [1..Len(boxes) -> Box]
    BY <1>1, <1>3, <1>4
  <2> QED
    BY <1>3, <2>1, SeqDef
<1>6. ASSUME NEW k \in DOMAIN boxes, NEW p PROVE Inside(p, walk[k]) <=> Inside(p, boxes[k])
  <2>1. /\ walk[k].latmin = boxes[k].latmin /\ walk[k].latmax = boxes[k].latmax
        /\ walk[k].lngmin = boxes[k].lngmin /\ walk[k].lngmax = boxes[k].lngmax
    BY <1>4
  <2> QED
    BY <2>1, Zenon DEF Inside
<1> QED
  BY <1>1, <1>4, <1>5, <1>6

LEMMA WalkOfArea ==
  ASSUME NEW r \in Areas, r.lng2 # NaN, NEW walk \in Walks(Boxes(Corners(r)))
  PROVE  BoxesOK(walk, r)
<1> DEFINE boxes == Boxes(Corners(r))
<1>1. boxes \in Seq(Rect) /\ Disjoint(boxes, r)
  BY BoxesOfArea
<1> HIDE DEF boxes
<1>2. /\ walk \in Seq(Box) /\ DOMAIN walk = DOMAIN boxes
      /\ \A k \in DOMAIN boxes : \A p : Inside(p, walk[k]) <=> Inside(p, boxes[k])
  BY <1>1, WalkedBoxes DEF boxes
<1> QED
  BY <1>1, <1>2 DEF BoxesOK, Disjoint
-----------------------------------------------------------------------------
(* The index that a cursor walks, in every database that recovery may find. *)
IndexOK(index) == IsFiniteSet(index) /\ index \subseteq Entry /\ Apart(index)
IndexInv == \A d \in since : IndexOK(d.point)

(* What is listed for an area, and what a worker lists: each entry with    *)
(* the point it is rounded to.  The entries that lie in the present box    *)
(* are the last one and those that the cursor has passed.                  *)
Listed(list, r) ==
  /\ list \in Seq([entry : Entry, point : Position])
  /\ \A i, j \in DOMAIN list :
       /\ Lies(list[i].point, r)
       /\ list[i].entry = list[j].entry => i = j
Passed(t) ==
  \A i \in DOMAIN t.list :
    /\ t.list[i].point = Rounded(t.list[i].entry)
    /\ \A k \in DOMAIN t.boxes : Inside(t.list[i].point, t.boxes[k]) =>
         /\ k = 1 /\ t.last # NoEntry
         /\ t.list[i].entry = t.last \/ Follows(t.last, t.list[i].entry)
ScanOK(t, r) ==
  /\ t = [at |-> "scan", boxes |-> t.boxes, last |-> t.last, list |-> t.list,
          there |-> t.there, whole |-> t.whole]
  /\ BoxesOK(t.boxes, r)
  /\ t.last = NoEntry \/ t.last \in Entry
  /\ Listed(t.list, r)
  /\ Passed(t)

ReadOK(w) ==
  /\ task[w].at # "idle" => reply[w] = NoReply
  /\ task[w].at \in {"put", "commit"} => task[w].key \in PointKey
  /\ task[w].at = "scan" =>
       asked[w] \in Areas /\ asked[w].lng2 # NaN /\ ScanOK(task[w], asked[w])
  /\ task[w].at = "failed" => asked[w].lng2 = NaN
  /\ Answered(w) => Listed(reply[w].list, asked[w])

SoundInv == GeoInv /\ IndexInv /\ \A w \in Workers : ReadOK(w)

LEMMA MemberType == ASSUME NEW S, NEW s \in Seq(S), NEW i \in DOMAIN s PROVE s[i] \in S
OBVIOUS

LEMMA ListedType ==
  ASSUME NEW list, NEW r, Listed(list, r), NEW i \in DOMAIN list
  PROVE  list[i].entry \in Entry /\ list[i].point \in Position
<1>1. list \in Seq([entry : Entry, point : Position])
  BY DEF Listed
<1>2. list[i] \in [entry : Entry, point : Position]
  BY <1>1, MemberType
<1> QED
  BY <1>2

LEMMA RealEntries == \A e \in Entry : e # NoEntry
<1>1. NoEntry.key = <<>>
  BY DEF NoEntry
<1>2. \A key \in Key : 1 \in DOMAIN key
  BY Widths DEF Key
<1>3. 1 \notin DOMAIN <<>>
  OBVIOUS
<1>4. \A e \in Entry : e.key \in Key
  BY PointKeyType DEF Entry
<1> QED
  BY <1>1, <1>2, <1>3, <1>4

LEMMA AheadType ==
  ASSUME NEW box, NEW last, IndexOK(pointdb)
  PROVE  /\ Ahead(box, last) \in SUBSET Entry /\ IsFiniteSet(Ahead(box, last))
         /\ Apart(Ahead(box, last))
<1>1. Ahead(box, last) \in SUBSET pointdb
  BY DEF Ahead
<1> QED
  BY <1>1, FS_Subset DEF IndexOK, Apart

(* The two changes that a reading makes to its record. *)
LEMMA EndedBox ==
  ASSUME NEW r, NEW t, ScanOK(t, r), NEW rest, NEW still
  PROVE  LET u == [t EXCEPT !.boxes = rest, !.last = NoEntry, !.whole = still]
         IN  u = [at |-> "scan", boxes |-> rest, last |-> NoEntry, list |-> t.list,
                  there |-> t.there, whole |-> still]
<1> DEFINE u == [t EXCEPT !.boxes = rest, !.last = NoEntry, !.whole = still]
<1>1. PICK boxes, last, list, there, old :
        t = [at |-> "scan", boxes |-> boxes, last |-> last, list |-> list,
             there |-> there, whole |-> old]
  BY DEF ScanOK
<1>2. t.boxes = boxes /\ t.list = list /\ t.there = there
  BY <1>1
<1> DEFINE v == [t EXCEPT !.boxes = rest]
<1>3. v = [at |-> "scan", boxes |-> rest, last |-> last, list |-> list,
           there |-> there, whole |-> old]
  BY <1>1
<1> HIDE DEF v
<1> DEFINE x == [v EXCEPT !.last = NoEntry]
<1>4. x = [at |-> "scan", boxes |-> rest, last |-> NoEntry, list |-> list,
           there |-> there, whole |-> old]
  BY <1>3
<1> HIDE DEF x
<1>5. u = [x EXCEPT !.whole = still]
  BY DEF v, x
<1> QED
  BY <1>2, <1>4, <1>5

LEMMA Advanced ==
  ASSUME NEW r, NEW t, ScanOK(t, r), NEW e, NEW list
  PROVE  LET u == [t EXCEPT !.last = e, !.list = list]
         IN  u = [at |-> "scan", boxes |-> t.boxes, last |-> e, list |-> list,
                  there |-> t.there, whole |-> t.whole]
<1> DEFINE u == [t EXCEPT !.last = e, !.list = list]
<1>1. PICK boxes, last, l, there, old :
        t = [at |-> "scan", boxes |-> boxes, last |-> last, list |-> l,
             there |-> there, whole |-> old]
  BY DEF ScanOK
<1>2. t.boxes = boxes /\ t.there = there /\ t.whole = old
  BY <1>1
<1> DEFINE v == [t EXCEPT !.last = e]
<1>3. v = [at |-> "scan", boxes |-> boxes, last |-> e, list |-> l,
           there |-> there, whole |-> old]
  BY <1>1
<1> HIDE DEF v
<1>4. u = [v EXCEPT !.list = list]
  BY DEF v
<1> QED
  BY <1>2, <1>3, <1>4

(* The end of a box. *)
LEMMA BoxEnds ==
  ASSUME NEW r, NEW t, ScanOK(t, r), t.boxes # <<>>, NEW whole
  PROVE  ScanOK([t EXCEPT !.boxes = Tail(@), !.last = NoEntry, !.whole = @ /\ whole], r)
<1> DEFINE rest == Tail(t.boxes)
           still == t.whole /\ whole
           u == [t EXCEPT !.boxes = rest, !.last = NoEntry, !.whole = still]
<1> SUFFICES ScanOK(u, r)
  OBVIOUS
<1> HIDE DEF rest, still
<1>1. u = [at |-> "scan", boxes |-> rest, last |-> NoEntry, list |-> t.list,
           there |-> t.there, whole |-> still]
  BY EndedBox
<1> HIDE DEF u
<1>2. /\ u.boxes = Tail(t.boxes) /\ u.last = NoEntry /\ u.list = t.list
      /\ u = [at |-> "scan", boxes |-> u.boxes, last |-> u.last, list |-> u.list,
              there |-> u.there, whole |-> u.whole]
  BY <1>1 DEF rest
<1>3. t.boxes \in Seq(Box)
  BY DEF ScanOK, BoxesOK, Disjoint
<1>4. /\ u.boxes \in Seq(Box)
      /\ \A k \in DOMAIN u.boxes : k + 1 \in DOMAIN t.boxes /\ u.boxes[k] = t.boxes[k + 1]
  BY <1>2, <1>3
<1>5. BoxesOK(u.boxes, r)
  <2>1. \A k \in DOMAIN u.boxes : \A p \in Position : Inside(p, u.boxes[k]) => Lies(p, r)
    BY <1>4 DEF ScanOK, BoxesOK, Disjoint
  <2>2. ASSUME NEW j \in DOMAIN u.boxes, NEW k \in DOMAIN u.boxes, j # k
        PROVE  j + 1 # k + 1
    BY <1>4, <2>2
  <2>3. \A j, k \in DOMAIN u.boxes : j # k =>
          \A p \in Position : ~(Inside(p, u.boxes[j]) /\ Inside(p, u.boxes[k]))
    BY <1>4, <2>2 DEF ScanOK, BoxesOK, Disjoint
  <2> QED
    BY <1>4, <2>1, <2>3 DEF BoxesOK, Disjoint
<1>6. Passed(u)
  <2>1. ASSUME NEW i \in DOMAIN t.list, NEW k \in DOMAIN u.boxes
        PROVE  ~Inside(t.list[i].point, u.boxes[k])
    <3>1. k + 1 # 1
      BY <1>4
    <3> QED
      BY <1>4, <3>1 DEF ScanOK, Passed
  <2> QED
    BY <1>2, <2>1 DEF ScanOK, Passed
<1>7. Listed(u.list, r)
  BY <1>2 DEF ScanOK
<1> QED
  BY <1>2, <1>5, <1>6, <1>7 DEF ScanOK

(* The next entry of a box. *)
LEMMA EntryPassed ==
  ASSUME NEW r, NEW t, ScanOK(t, r), t.boxes # <<>>, NEW e \in Entry,
         t.last = NoEntry \/ Follows(e, t.last)
  PROVE  LET gp == SplitForGeo(ByteToLong(e.key))
         IN ScanOK([t EXCEPT !.last = e,
                     !.list = IF Inside(gp, Head(t.boxes)) THEN Append(@, [entry |-> e, point |-> gp])
                              ELSE @], r)
<1> DEFINE gp == SplitForGeo(ByteToLong(e.key))
           list == IF Inside(gp, Head(t.boxes)) THEN Append(t.list, [entry |-> e, point |-> gp])
                   ELSE t.list
           u == [t EXCEPT !.last = e, !.list = list]
<1> SUFFICES ScanOK(u, r)
  OBVIOUS
<1>1. gp \in Position /\ gp = Rounded(e)
  BY PointKeyType, ByteToLongType, SplitForGeoType DEF Entry, Rounded
<1>2. u = [at |-> "scan", boxes |-> t.boxes, last |-> e, list |-> list,
           there |-> t.there, whole |-> t.whole]
  <2> HIDE DEF list
  <2> QED
    BY Advanced
<1> HIDE DEF u, gp
<1>3. /\ u.boxes = t.boxes /\ u.last = e /\ u.list = list
      /\ u = [at |-> "scan", boxes |-> u.boxes, last |-> u.last, list |-> u.list,
              there |-> u.there, whole |-> u.whole]
  BY <1>2
<1>4. /\ t.boxes \in Seq(Box) /\ 1 \in DOMAIN t.boxes /\ Head(t.boxes) = t.boxes[1]
      /\ \A k \in DOMAIN t.boxes : k \in Nat
  BY DEF ScanOK, BoxesOK, Disjoint
<1>5. e # NoEntry
  BY RealEntries
(* What was listed from this box lies behind the cursor now. *)
<1>6. ASSUME NEW i \in DOMAIN t.list, NEW k \in DOMAIN t.boxes, Inside(t.list[i].point, t.boxes[k])
      PROVE  /\ k = 1 /\ Follows(e, t.list[i].entry) /\ e # t.list[i].entry
             /\ t.list[i].point = Rounded(t.list[i].entry)
  <2>1. /\ k = 1 /\ t.last # NoEntry
        /\ t.list[i].entry = t.last \/ Follows(t.last, t.list[i].entry)
        /\ t.list[i].point = Rounded(t.list[i].entry)
    BY <1>6 DEF ScanOK, Passed
  <2>2. t.list[i].entry \in Entry /\ t.last \in Entry
    <3>2. t.list[i].entry \in Entry
      BY ListedType DEF ScanOK
    <3>3. t.last \in Entry
      BY <2>1 DEF ScanOK
    <3> QED
      BY <3>2, <3>3
  <2>3. Follows(e, t.list[i].entry)
    BY <2>1, <2>2, FollowsTransitive
  <2> QED
    BY <2>1, <2>2, <2>3, FollowsIrreflexive
<1>7. CASE ~Inside(gp, Head(t.boxes))
  <2>1. list = t.list
    BY <1>7
  <2>2. Passed(u)
    BY <1>3, <1>5, <1>6, <2>1 DEF ScanOK, Passed
  <2> QED
    BY <1>3, <2>1, <2>2 DEF ScanOK
<1>8. CASE Inside(gp, Head(t.boxes))
  <2> DEFINE new == [entry |-> e, point |-> gp]
             n == Len(t.list)
  <2>1. /\ t.list \in Seq([entry : Entry, point : Position])
        /\ new \in [entry : Entry, point : Position] /\ new.entry = e /\ new.point = gp
    BY <1>1 DEF ScanOK, Listed
  <2>2. list = Append(t.list, new)
    BY <1>8
  <2> HIDE DEF new, list
  <2>3. /\ list \in Seq([entry : Entry, point : Position])
        /\ DOMAIN list = 1..(n + 1) /\ DOMAIN t.list = 1..n /\ n \in Nat
        /\ list[n + 1] = new
        /\ \A i \in 1..n : list[i] = t.list[i]
    BY <2>1, <2>2
  <2> HIDE DEF n
  <2>4. Lies(gp, r)
    BY <1>1, <1>4, <1>8 DEF ScanOK, BoxesOK, Disjoint
  <2>5. ASSUME NEW i \in 1..n PROVE list[i].entry # e
    <3>1. CASE Inside(t.list[i].point, Head(t.boxes))
      BY <1>4, <1>6, <2>3, <3>1
    <3>2. CASE ~Inside(t.list[i].point, Head(t.boxes))
      <4>1. t.list[i].point = Rounded(t.list[i].entry)
        BY <2>3 DEF ScanOK, Passed
      <4> QED
        BY <1>1, <1>8, <2>3, <3>2, <4>1
    <3> QED
      BY <3>1, <3>2
  <2>6. Listed(list, r)
    <3>1. ASSUME NEW i \in DOMAIN list PROVE Lies(list[i].point, r)
      <4>1. CASE i = n + 1
        BY <2>1, <2>3, <2>4, <4>1
      <4>2. CASE i \in 1..n
        BY <2>3, <4>2 DEF ScanOK, Listed
      <4> QED
        BY <2>3, <4>1, <4>2
    <3>2. ASSUME NEW i \in DOMAIN list, NEW j \in DOMAIN list, list[i].entry = list[j].entry
          PROVE  i = j
      <4>1. CASE i \in 1..n /\ j \in 1..n
        BY <2>3, <3>2, <4>1 DEF ScanOK, Listed
      <4>2. CASE i = n + 1 \/ j = n + 1
        BY <2>1, <2>3, <2>5, <3>2, <4>2
      <4> QED
        BY <2>3, <4>1, <4>2
    <3> QED
      BY <2>3, <3>1, <3>2 DEF Listed
  <2>7. Passed(u)
    <3>1. ASSUME NEW i \in DOMAIN list, NEW k \in DOMAIN t.boxes
          PROVE  /\ list[i].point = Rounded(list[i].entry)
                 /\ Inside(list[i].point, t.boxes[k]) =>
                      k = 1 /\ (list[i].entry = e \/ Follows(e, list[i].entry))
      <4>1. CASE i = n + 1
        <5>1. Inside(gp, t.boxes[k]) => k = 1
          BY <1>1, <1>4, <1>8 DEF ScanOK, BoxesOK, Disjoint
        <5> QED
          BY <1>1, <2>1, <2>3, <4>1, <5>1
      <4>2. CASE i \in 1..n
        <5>1. t.list[i].point = Rounded(t.list[i].entry)
          BY <2>3, <4>2 DEF ScanOK, Passed
        <5> QED
          BY <1>6, <2>3, <4>2, <5>1
      <4> QED
        BY <2>3, <4>1, <4>2
    <3>2. \A i \in DOMAIN list : list[i].point = Rounded(list[i].entry)
      BY <1>4, <3>1
    <3> QED
      BY <1>3, <1>5, <3>1, <3>2 DEF Passed
  <2> QED
    BY <1>3, <2>6, <2>7 DEF ScanOK
<1> QED
  BY <1>7, <1>8
-----------------------------------------------------------------------------
LEMMA InitSound == GeoInit => SoundInv
<1> SUFFICES ASSUME GeoInit PROVE SoundInv
  OBVIOUS
<1>1. IndexInv
  <2>1. PICK old \in [1..entries -> [id : Ids, key : UNION {KeysOf(point) : point \in Points}]] :
          pointdb = {[key |-> old[i].key, id |-> old[i].id, place |-> i] : i \in 1..entries}
    BY DEF GeoInit, Init
  <2>2. UNION {KeysOf(point) : point \in Points} \subseteq PointKey
    BY KeysOfPoint
  <2>3. pointdb \subseteq Entry
    BY <2>1, <2>2 DEF Entry
  <2>4. IsFiniteSet(pointdb)
    <3> DEFINE f == [i \in 1..entries |-> [key |-> old[i].key, id |-> old[i].id, place |-> i]]
    <3>1. f \in Surjection(1..entries, pointdb)
      BY <2>1 DEF Surjection
    <3>2. IsFiniteSet(1..entries)
      BY PointsAssumption, FS_Interval DEF GeoInit, Init
    <3> HIDE DEF f
    <3> QED
      BY <3>1, <3>2, FS_Surjection
  <2>5. Apart(pointdb)
    BY InitGeo, PresentIsWellFormed DEF GeoInv, Apart
  <2>6. \A d \in since : d.point = pointdb
    BY DEF GeoInit, Init, Databases
  <2> QED
    BY <2>3, <2>4, <2>5, <2>6 DEF IndexInv, IndexOK
<1>2. \A w \in Workers : ReadOK(w)
  BY DEF GeoInit, Init, ReadOK, Answered, Idle, NoReply
<1> QED
  BY <1>1, <1>2, InitGeo DEF SoundInv

LEMMA PresentIndex == SoundInv => IndexOK(pointdb)
BY DEF SoundInv, GeoInv, Recoverable, IndexInv, Databases

LEMMA SameReader ==
  ASSUME NEW v \in Workers, ReadOK(v),
         task'[v] = task[v] /\ reply'[v] = reply[v] /\ asked'[v] = asked[v]
  PROVE  ReadOK(v)'
BY DEF ReadOK, Answered

(* Steps of one worker that change no database. *)
LEMMA OneReader ==
  ASSUME SoundInv, GeoInv', since' = since, NEW w \in Workers, ReadOK(w)',
         \A v \in Workers \ {w} :
           task'[v] = task[v] /\ reply'[v] = reply[v] /\ asked'[v] = asked[v]
  PROVE  SoundInv'
<1>1. \A v \in Workers : ReadOK(v)'
  BY SameReader DEF SoundInv
<1> QED
  BY <1>1 DEF SoundInv, IndexInv

(* The requests that need no database, and the answers. *)
LEMMA AnswerSound ==
  ASSUME SoundInv, GeoInv', NEW w \in Workers,
         \/ NotGeo(w) \/ NotFound(w) \/ SaveInPart(w) \/ WriteReply(w) \/ AreaReturns(w)
  PROVE  SoundInv'
<1>1. SiteType /\ ReadOK(w)
  BY DEF SoundInv, GeoInv
<1>2. since' = since
  BY DEF NotGeo, NotFound, SaveInPart, Plain, WriteReply, AreaReturns, Return, backvars, dbvars
<1>3. CASE NotGeo(w) \/ NotFound(w) \/ SaveInPart(w)
  <2>1. PICK status \in {200, 404, 500}, content \in {"none", "notEnoughParam"} :
          Plain(w, status, content)
    BY <1>3 DEF NotGeo, NotFound, SaveInPart
  <2>2. /\ task[w].at = "idle" /\ task' = task /\ asked' = asked
        /\ reply' = [reply EXCEPT ![w] = [code |-> status, content |-> content]]
    BY <2>1 DEF Plain, Free, At, Say, backvars
  <2>3. /\ reply'[w] = [code |-> status, content |-> content]
        /\ \A v \in Workers \ {w} : reply'[v] = reply[v]
    BY <1>1, <2>2 DEF SiteType
  <2>4. reply'[w].content # "data"
    BY <2>3
  <2>5. ReadOK(w)'
    BY <2>2, <2>4 DEF ReadOK, Answered
  <2> QED
    BY <1>2, <2>2, <2>3, <2>5, OneReader
<1>4. CASE WriteReply(w)
  <2>1. /\ reply[w] # NoReply /\ task' = task
        /\ reply' = [reply EXCEPT ![w] = NoReply] /\ asked' = [asked EXCEPT ![w] = NoArea]
    BY <1>4 DEF WriteReply, Say, backvars
  <2>2. /\ reply'[w] = NoReply /\ task'[w].at = "idle"
        /\ \A v \in Workers \ {w} : reply'[v] = reply[v] /\ asked'[v] = asked[v]
    BY <1>1, <2>1 DEF SiteType, ReadOK
  <2>3. ReadOK(w)'
    BY <2>2 DEF ReadOK, Answered, NoReply
  <2> QED
    BY <1>2, <2>1, <2>2, <2>3, OneReader
<1>5. CASE AreaReturns(w)
  <2> DEFINE r == [code |-> 200, content |-> "data", list |-> task[w].list,
                   there |-> task[w].there, whole |-> task[w].whole]
  <2>1. /\ task[w].at = "scan" /\ task' = [task EXCEPT ![w] = Idle] /\ asked' = asked
        /\ reply' = [reply EXCEPT ![w] = r]
    BY <1>5 DEF AreaReturns, Return, Say, At, requestvars
  <2>2. r.list = task[w].list
    OBVIOUS
  <2> HIDE DEF r
  <2>3. /\ reply'[w] = r /\ task'[w] = Idle
        /\ \A v \in Workers \ {w} : reply'[v] = reply[v] /\ task'[v] = task[v]
    BY <1>1, <2>1 DEF SiteType
  <2>4. Listed(r.list, asked'[w])
    BY <1>1, <2>1, <2>2 DEF ReadOK, ScanOK
  <2>5. ReadOK(w)'
    BY <2>3, <2>4 DEF ReadOK, Idle
  <2> QED
    BY <1>2, <2>1, <2>3, <2>5, OneReader
<1> QED
  BY <1>3, <1>4, <1>5

(* The steps of a save, but for its commit. *)
LEMMA SaveSound ==
  ASSUME SoundInv, GeoInv', NEW w \in Workers,
         SavePoint(w) \/ Within(Put(w)) \/ SaveReturns(w)
  PROVE  SoundInv'
<1>1. SiteType /\ ReadOK(w)
  BY DEF SoundInv, GeoInv
<1>2. ASSUME NEW id \in Ids, NEW point \in Points, Free(w), AddPoint(w, id, point),
             UNCHANGED <<asked, reply>>
      PROVE  SoundInv'
  <2>5. PICK key \in KeysOf(point) :
          task' = [task EXCEPT ![w] = [at |-> "put", id |-> id, key |-> key]]
    BY <1>2 DEF AddPoint
  <2> DEFINE t == [at |-> "put", id |-> id, key |-> key]
  <2>1. task' = [task EXCEPT ![w] = t] /\ since' = since /\ reply[w] = NoReply
    BY <1>2, <2>5 DEF AddPoint, Free, dbvars
  <2>2. t.at = "put" /\ t.key \in PointKey
    BY KeysOfPoint
  <2> HIDE DEF t
  <2>3. task'[w] = t /\ \A v \in Workers \ {w} : task'[v] = task[v]
    BY <1>1, <2>1 DEF SiteType
  <2>4. ReadOK(w)'
    BY <1>2, <2>1, <2>2, <2>3 DEF ReadOK, Answered, NoReply
  <2> QED
    BY <1>2, <2>1, <2>3, <2>4, OneReader
<1>3. ASSUME NEW id, NEW done, Say(w, InsertOk(id, done)), task'[w].at = "idle",
             \A v \in Workers \ {w} : task'[v] = task[v], asked' = asked
      PROVE  ReadOK(w)' /\ \A v \in Workers \ {w} : reply'[v] = reply[v]
  <2>1. reply'[w] = InsertOk(id, done) /\ \A v \in Workers \ {w} : reply'[v] = reply[v]
    BY <1>1, <1>3 DEF SiteType, Say
  <2>2. reply'[w].content # "data"
    BY <2>1 DEF InsertOk
  <2> QED
    BY <1>3, <2>1, <2>2 DEF ReadOK, Answered
<1>4. CASE SavePoint(w)
  <2>1. CASE \E id \in Ids : \E point \in Points : AddPoint(w, id, point) /\ UNCHANGED reply
    BY <1>2, <1>4, <2>1 DEF SavePoint, Save
  <2>2. CASE \E id \in Ids : CannotWrite(w) /\ Say(w, InsertOk(id, FALSE))
    <3>1. PICK id \in Ids : CannotWrite(w) /\ Say(w, InsertOk(id, FALSE))
      BY <2>2
    <3>2. task' = task /\ asked' = asked /\ since' = since /\ task[w].at = "idle"
      BY <1>4, <3>1 DEF SavePoint, Save, CannotWrite, At, backvars, dbvars
    <3>3. ReadOK(w)' /\ \A v \in Workers \ {w} : reply'[v] = reply[v]
      BY <1>3, <3>1, <3>2
    <3> QED
      BY <3>2, <3>3, OneReader
  <2> QED
    BY <1>4, <2>1, <2>2 DEF SavePoint
<1>5. CASE Within(Put(w))
  <2>1. PICK done \in BOOLEAN :
          task' = [task EXCEPT ![w] =
                     [at |-> "commit", id |-> task[w].id, key |-> task[w].key, done |-> done]]
    BY <1>5 DEF Within, Put
  <2>2. task[w].at = "put" /\ UNCHANGED <<since, reply, asked>>
    BY <1>5 DEF Within, Put, At, dbvars, requestvars
  <2> DEFINE t == [at |-> "commit", id |-> task[w].id, key |-> task[w].key, done |-> done]
  <2>3. t.at = "commit" /\ t.key = task[w].key
    OBVIOUS
  <2> HIDE DEF t
  <2>4. task'[w] = t /\ \A v \in Workers \ {w} : task'[v] = task[v]
    BY <1>1, <2>1 DEF SiteType, t
  <2>5. ReadOK(w)'
    BY <1>1, <2>2, <2>3, <2>4 DEF ReadOK, Answered, NoReply
  <2> QED
    BY <2>2, <2>4, <2>5, OneReader
<1>6. CASE SaveReturns(w)
  <2>1. /\ task' = [task EXCEPT ![w] = Idle] /\ asked' = asked
        /\ Say(w, InsertOk(task[w].id, task[w].done))
        /\ since' = since \/ since' = {Databases}
    BY <1>6 DEF SaveReturns, Checkpoint, requestvars
  <2>2. task'[w].at = "idle" /\ \A v \in Workers \ {w} : task'[v] = task[v]
    BY <1>1, <2>1 DEF SiteType, Idle
  <2>3. ReadOK(w)' /\ \A v \in Workers \ {w} : reply'[v] = reply[v]
    BY <1>3, <2>1, <2>2
  <2>4. \A v \in Workers : ReadOK(v)'
    BY <2>1, <2>2, <2>3, SameReader DEF SoundInv
  <2>5. IndexInv'
    BY <2>1 DEF SoundInv, GeoInv, Recoverable, IndexInv
  <2> QED
    BY <2>4, <2>5 DEF SoundInv
<1> QED
  BY <1>4, <1>5, <1>6

(* The reading of an area. *)
LEMMA ReadSound ==
  ASSUME SoundInv, GeoInv', NEW w \in Workers,
         ReadArea(w) \/ Within(NextEntry(w)) \/ Within(PgetFails(w))
  PROVE  SoundInv'
<1>1. SiteType /\ ReadOK(w)
  BY DEF SoundInv, GeoInv
<1>2. CASE ReadArea(w)
  <2>1. PICK r \in Areas : asked' = [asked EXCEPT ![w] = r] /\ ReadAreaPoint(w, Corners(r))
    BY <1>2 DEF ReadArea
  <2>2. since' = since /\ reply' = reply /\ reply[w] = NoReply
    BY <1>2, <2>1 DEF ReadArea, ReadAreaPoint, Free, dbvars
  <2>3. asked'[w] = r /\ \A v \in Workers \ {w} : asked'[v] = asked[v]
    BY <1>1, <2>1 DEF SiteType
  <2>4. CASE r.lng2 = NaN
    <3>1. task' = [task EXCEPT ![w] = Failed]
      BY <2>1, <2>4, CornersOf DEF ReadAreaPoint
    <3>2. /\ task'[w] = Failed
          /\ \A v \in Workers \ {w} : task'[v] = task[v]
      BY <1>1, <3>1 DEF SiteType
    <3>3. ReadOK(w)'
      BY <2>2, <2>3, <2>4, <3>2 DEF ReadOK, Answered, NoReply, Failed
    <3> QED
      BY <2>2, <2>3, <3>2, <3>3, OneReader
  <2>5. CASE r.lng2 # NaN
    <3>1. PICK walk \in Walks(Boxes(Corners(r))) : task' = [task EXCEPT ![w] = Scan(walk)]
      BY <2>1, <2>5, CornersOf DEF ReadAreaPoint
    <3> DEFINE t == Scan(walk)
    <3>2. t = [at |-> "scan", boxes |-> walk, last |-> NoEntry, list |-> <<>>,
               there |-> pointdb, whole |-> TRUE]
      BY DEF Scan
    <3>3. task'[w] = t /\ \A v \in Workers \ {w} : task'[v] = task[v]
      BY <1>1, <3>1 DEF SiteType
    <3> HIDE DEF t
    <3>4. /\ t.boxes = walk /\ t.last = NoEntry /\ t.list = <<>> /\ t.at = "scan"
          /\ t = [at |-> "scan", boxes |-> t.boxes, last |-> t.last, list |-> t.list,
                  there |-> t.there, whole |-> t.whole]
      BY <3>2
    <3>5. Listed(<<>>, r)
      BY DEF Listed
    <3>6. Passed(t)
      BY <3>4 DEF Passed
    <3>7. ScanOK(t, r)
      BY <2>5, <3>4, <3>5, <3>6, WalkOfArea DEF ScanOK
    <3>8. ReadOK(w)'
      BY <2>2, <2>3, <2>5, <3>3, <3>4, <3>7 DEF ReadOK, Answered, NoReply
    <3> QED
      BY <2>2, <2>3, <3>3, <3>8, OneReader
  <2> QED
    BY <2>4, <2>5
<1>3. ASSUME NEW t, task' = [task EXCEPT ![w] = t], task[w].at = "scan",
             ScanOK(t, asked[w]), UNCHANGED <<since, reply, asked>>
      PROVE  SoundInv'
  <2>1. task'[w] = t /\ \A v \in Workers \ {w} : task'[v] = task[v]
    BY <1>1, <1>3 DEF SiteType
  <2>2. t.at = "scan"
    BY <1>3 DEF ScanOK
  <2>3. ReadOK(w)'
    BY <1>1, <1>3, <2>1, <2>2 DEF ReadOK, Answered, NoReply
  <2> QED
    BY <1>3, <2>1, <2>3, OneReader
<1>4. CASE Within(NextEntry(w)) \/ Within(PgetFails(w))
  <2>1. /\ task[w].at = "scan" /\ task[w].boxes # <<>>
        /\ UNCHANGED <<since, reply, asked>>
    BY <1>4 DEF Within, NextEntry, PgetFails, Scanning, At, dbvars, requestvars
  <2>2. ScanOK(task[w], asked[w])
    BY <1>1, <2>1 DEF ReadOK
  <2>3. ASSUME NEW whole, EndBox(w, whole) PROVE SoundInv'
    <3> DEFINE t == [task[w] EXCEPT !.boxes = Tail(@), !.last = NoEntry, !.whole = @ /\ whole]
    <3>1. task' = [task EXCEPT ![w] = t]
      BY <1>1, <2>3 DEF EndBox, SiteType
    <3>2. ScanOK(t, asked[w])
      BY <2>1, <2>2, BoxEnds
    <3> HIDE DEF t
    <3> QED
      BY <1>3, <2>1, <3>1, <3>2
  <2>4. CASE Within(PgetFails(w)) \/ EndBox(w, TRUE)
    BY <2>3, <2>4 DEF Within, PgetFails
  <2>5. CASE Within(NextEntry(w)) /\ ~EndBox(w, TRUE)
    <3> DEFINE box == Head(task[w].boxes)
               ahead == Ahead(box, task[w].last)
               e == First(ahead)
               gp == SplitForGeo(ByteToLong(e.key))
               t == [task[w] EXCEPT !.last = e,
                       !.list = IF Inside(gp, box) THEN Append(@, [entry |-> e, point |-> gp])
                                ELSE @]
    <3>1. ahead # {} /\ task' = [task EXCEPT ![w] = t]
      BY <1>1, <2>5 DEF Within, NextEntry, SiteType
    <3>2. ahead \in SUBSET Entry /\ IsFiniteSet(ahead) /\ Apart(ahead)
      BY AheadType, PresentIndex
    <3>3. e \in ahead /\ e \in Entry
      BY <3>1, <3>2, FirstIsAhead
    <3>4. task[w].last = NoEntry \/ Follows(e, task[w].last)
      BY <3>3 DEF Ahead
    <3>5. ScanOK(t, asked[w])
      <4> HIDE DEF e
      <4> QED
        BY <2>1, <2>2, <3>3, <3>4, EntryPassed
    <3> HIDE DEF t
    <3> QED
      BY <1>3, <2>1, <3>1, <3>5
  <2> QED
    BY <1>4, <2>4, <2>5
<1> QED
  BY <1>2, <1>4

(* A commit may add one entry to the index, and remove others. *)
LEMMA CommitSound ==
  ASSUME SoundInv, GeoInv', NEW w \in Workers, Within(Commit(w))
  PROVE  SoundInv'
<1>1. /\ task[w].at = "commit" /\ UNCHANGED <<reply, asked>>
      /\ Proceed(w, [at |-> "checkpoint", id |-> task[w].id, done |-> task[w].done])
  BY DEF Within, Commit, At, requestvars
<1>2. GeoInv /\ ReadOK(w) /\ IndexOK(pointdb)
  BY PresentIndex DEF SoundInv
<1>3. task[w].key \in PointKey /\ task[w].id \in Ids /\ entries \in Nat
  BY <1>1, <1>2 DEF ReadOK, GeoInv, WorkerOK, TaskOK, Recoverable
<1>4. IndexInv'
  <2>1. CASE task[w].done
    <3>1. pointdb' \in Reindexed(task[w].id, task[w].key) /\ since' = since \cup {Databases'}
      BY <2>1 DEF Within, Commit
    <3> DEFINE new == NewEntry(task[w].id, task[w].key)
    <3>2. new \in Entry
      BY <1>3 DEF Entry, NewEntry
    <3>3. pointdb' \subseteq pointdb \cup {new}
      BY <3>1 DEF Reindexed
    <3> HIDE DEF new
    <3>4. IsFiniteSet(pointdb \cup {new})
      BY <1>2, FS_AddElement DEF IndexOK
    <3>5. IsFiniteSet(pointdb') /\ pointdb' \subseteq Entry
      BY <1>2, <3>2, <3>3, <3>4, FS_Subset DEF IndexOK
    <3>6. Apart(pointdb')
      <4>1. Recoverable'
        BY DEF GeoInv
      <4>2. WellFormed(Databases', entries') /\ Databases'.point = pointdb'
        BY <4>1 DEF Recoverable, Databases
      <4> QED
        BY <4>2 DEF WellFormed, Apart
    <3>7. Databases'.point = pointdb'
      BY DEF Databases
    <3> QED
      BY <3>1, <3>5, <3>6, <3>7 DEF SoundInv, IndexInv, IndexOK
  <2>2. CASE ~task[w].done
    BY <2>2 DEF Within, Commit, SoundInv, IndexInv
  <2> QED
    BY <2>1, <2>2
<1>5. ASSUME NEW v \in Workers PROVE ReadOK(v)'
  <2>1. ReadOK(v)
    BY DEF SoundInv
  <2>2. CASE v = w
    <3>1. task'[v].at = "checkpoint"
      BY <1>1, <2>2 DEF Proceed
    <3> QED
      BY <1>1, <1>2, <2>2, <3>1 DEF ReadOK, Answered
  <2>3. CASE v # w /\ task[v].at = "scan"
    <3> DEFINE still == task[v].there \cap pointdb'
               t == [task[v] EXCEPT !.there = still]
    <3>1. task'[v] = t
      BY <1>1, <2>3 DEF Proceed
    <3>2. ScanOK(task[v], asked[v])
      BY <2>1, <2>3 DEF ReadOK
    <3>3. PICK boxes, last, list, there, whole :
            task[v] = [at |-> "scan", boxes |-> boxes, last |-> last, list |-> list,
                       there |-> there, whole |-> whole]
      BY <3>2 DEF ScanOK
    <3> HIDE DEF still
    <3>4. t = [at |-> "scan", boxes |-> boxes, last |-> last, list |-> list,
               there |-> still, whole |-> whole]
      BY <3>3
    <3> HIDE DEF t
    <3>5. /\ t.boxes = task[v].boxes /\ t.last = task[v].last /\ t.list = task[v].list
          /\ t = [at |-> "scan", boxes |-> t.boxes, last |-> t.last, list |-> t.list,
                  there |-> t.there, whole |-> t.whole]
          /\ t.at = "scan"
      BY <3>3, <3>4
    <3>6. ScanOK(t, asked[v])
      BY <3>2, <3>5 DEF ScanOK, Passed
    <3> QED
      BY <1>1, <2>1, <2>3, <3>1, <3>5, <3>6 DEF ReadOK, Answered
  <2>4. CASE v # w /\ task[v].at # "scan"
    <3>1. task'[v] = task[v]
      BY <1>1, <2>4 DEF Proceed
    <3> QED
      BY <1>1, <2>1, <3>1, SameReader
  <2> QED
    BY <2>2, <2>3, <2>4
<1> QED
  BY <1>4, <1>5 DEF SoundInv

LEMMA SoundStep == SoundInv /\ [GeoNext]_geovars => SoundInv'
<1> SUFFICES ASSUME SoundInv, [GeoNext]_geovars PROVE SoundInv'
  OBVIOUS
<1>1. GeoInv'
  BY GeoStep DEF SoundInv
<1>2. ASSUME UNCHANGED <<task, reply, asked>>,
             since' = since \/ \E found \in since : since' = {found}
      PROVE  SoundInv'
  <2>1. \A w \in Workers : ReadOK(w)'
    BY <1>2, SameReader DEF SoundInv
  <2> QED
    BY <1>1, <1>2, <2>1 DEF SoundInv, IndexInv
<1>3. CASE UNCHANGED geovars \/ \E w \in Workers : Refused(w)
  BY <1>2, <1>3 DEF geovars, backvars, dbvars, requestvars, Refused
<1>4. CASE Within(ChangeRole) \/ Within(OnDbEnent) \/ Within(Restart)
  <2>1. UNCHANGED <<task, reply, asked>>
    BY <1>4 DEF Within, ChangeRole, OnDbEnent, Restart, requestvars
  <2>2. since' = since \/ \E found \in since : since' = {found}
    BY <1>4 DEF Within, ChangeRole, OnDbEnent, Restart, dbvars
  <2> QED
    BY <1>2, <2>1, <2>2
<1>5. CASE End
  <2>1. /\ task' = [w \in Workers |-> Idle] /\ reply' = [w \in Workers |-> NoReply]
        /\ since' = since
    BY <1>5 DEF End, Crash, Die, dbvars
  <2>2. \A w \in Workers : ReadOK(w)'
    BY <2>1 DEF ReadOK, Answered, Idle, NoReply
  <2> QED
    BY <1>1, <2>1, <2>2 DEF SoundInv, IndexInv
<1>6. ASSUME NEW w \in Workers,
             \/ NotGeo(w) \/ NotFound(w) \/ SaveInPart(w) \/ WriteReply(w) \/ AreaReturns(w)
      PROVE  SoundInv'
  BY <1>1, <1>6, AnswerSound
<1>7. ASSUME NEW w \in Workers, SavePoint(w) \/ Within(Put(w)) \/ SaveReturns(w)
      PROVE  SoundInv'
  BY <1>1, <1>7, SaveSound
<1>8. ASSUME NEW w \in Workers, ReadArea(w) \/ Within(NextEntry(w)) \/ Within(PgetFails(w))
      PROVE  SoundInv'
  BY <1>1, <1>8, ReadSound
<1>9. ASSUME NEW w \in Workers, Within(Commit(w)) PROVE SoundInv'
  BY <1>1, <1>9, CommitSound
<1> QED
  BY <1>3, <1>4, <1>5, <1>6, <1>7, <1>8, <1>9 DEF GeoNext

(* Type correctness.  It says too that every id that is stored is found    *)
(* through the index and that an entry has its place there to itself,      *)
(* after every commit, whatever the index made of a key that changed, and  *)
(* whatever recovery found; and that of all areas the assertion on the     *)
(* order of the corners fails for those whose second longitude is not a    *)
(* number, and for no others.                                              *)
THEOREM GeoTypeCorrect == GeoSpec => []GeoTypeOK
<1>1. SoundInv => GeoTypeOK
  <2> SUFFICES ASSUME SoundInv PROVE GeoTypeOK
    OBVIOUS
  <2>1. GeoInv /\ safe \subseteq Ids /\ Databases \in since
    BY PresentIsWellFormed DEF SoundInv, GeoInv, Recoverable
  <2>2. TypeOK
    <3>1. /\ DOMAIN maindb \subseteq Ids
          /\ {e.id : e \in pointdb} = DOMAIN maindb
          /\ \A e \in pointdb : e.place \in 1..entries
          /\ \A e, f \in pointdb : e.place = f.place => e = f
      BY <2>1, PresentIsWellFormed DEF GeoInv
    <3>2. \A w \in Workers : task[w].at \in Place
      BY <2>1 DEF GeoInv, WorkerOK, TaskOK
    <3> QED
      BY <2>1, <3>1, <3>2 DEF GeoInv, SiteType, Place, TypeOK
  <2>3. \A w \in Workers :
          /\ task[w].at = "failed" => asked[w].lng2 = NaN
          /\ task[w].at = "scan" => asked[w].lng2 # NaN
    BY DEF SoundInv, ReadOK
  <2> QED
    BY <2>1, <2>2, <2>3 DEF GeoInv, SiteType, WorkerOK, ReplyOK, GeoTypeOK
<1>2. GeoInit => SoundInv
  BY InitSound
<1> QED
  BY <1>1, <1>2, SoundStep, PTL DEF GeoSpec

(* What is listed lies in the area that was asked for, on the side of the  *)
(* globe that the corners mean, unless a longitude is infinite, and no     *)
(* entry is listed twice: for any corners, on the globe or off it, for     *)
(* coordinates of any width, whatever other workers save while the cursor  *)
(* walks and whatever the index makes of a key that changes.               *)
THEOREM ListedLiesInside == GeoSpec => []AreaSound
<1>1. SoundInv => AreaSound
  BY DEF SoundInv, ReadOK, Listed, Lies, AreaSound
<1>2. GeoInit => SoundInv
  BY InitSound
<1> QED
  BY <1>1, <1>2, SoundStep, PTL DEF GeoSpec
-----------------------------------------------------------------------------
(* What a reading finds of what was there, in an area on the globe.        *)

LEMMA SumWithin ==
  ASSUME NEW n \in Nat
  PROVE  /\ FloatSum(n) \in Int /\ 0 <= FloatSum(n) /\ FloatSum(n) <= n + SumStep
         /\ n - SumStep <= FloatSum(n)
<1>1. SumStep \in Nat \ {0}
  BY GlobeAssumption
<1>2. Nearest(n, SumStep) \in Int
  BY <1>1, NearestType
<1>3. /\ 0 <= Nearest(n, SumStep) /\ Nearest(n, SumStep) <= n + SumStep
      /\ n - SumStep <= Nearest(n, SumStep)
  BY <1>1, NearestWithin
<1> QED
  BY <1>2, <1>3 DEF FloatSum

(* A corner on the globe has one code, and a coordinate that lies more     *)
(* than the error of a sum to one side of it has its units on that side.   *)
LEMMA UnitsOnGlobe ==
  ASSUME NEW half \in {HalfLat, HalfLng}, NEW x \in (-half)..half, NEW u \in Unsigned(x, half)
  PROVE  /\ u \in Coordinates
         /\ \A c \in Int : /\ x < c * Grain - half - SumStep => u <= c
                           /\ c * Grain - half + SumStep < x => c <= u
<1> DEFINE W == 2 ^ Bits
           sum == FloatSum(x + half)
           q == sum \div Grain
           m == sum % Grain
<1>1. /\ half \in Nat /\ x \in Int /\ Grain \in Nat \ {0} /\ SumStep \in Nat \ {0}
      /\ 2 * half + SumStep < Grain * W
  BY GlobeAssumption
<1>2. x + half \in Nat /\ x + half <= 2 * half
  BY <1>1
<1>3. /\ sum \in Int /\ 0 <= sum /\ sum <= x + half + SumStep
      /\ x + half - SumStep <= sum
  <2>1. PICK n \in Nat : n = x + half
    BY <1>2
  <2>2. sum = FloatSum(n)
    BY <2>1
  <2> HIDE DEF sum
  <2>3. sum \in Int /\ 0 <= sum /\ sum <= n + SumStep /\ n - SumStep <= sum
    BY <2>2, SumWithin
  <2> QED
    BY <1>1, <2>1, <2>3
<1>4. W \in Nat \ {0}
  <2>1. W = Bin[Bits]
    BY Widths, CodeWeights
  <2> QED
    BY <2>1, Capacity
<1>5. Grain * W \in Nat
  BY <1>1, <1>4, TimesNat
<1>6. x # NaN
  <2> DEFINE z == Grain * (W + FloatStep)
  <2>1. z \in Nat
    BY <1>1, <1>4, Widths, TimesNat
  <2>2. Infinity \in Nat /\ Infinity > z + SumStep + HalfLat + HalfLng
    BY FloatAssumption
  <2>3. HalfLat \in Nat /\ HalfLng \in Nat
    BY Widths
  <2> HIDE DEF z
  <2> QED
    BY <1>1, <2>1, <2>2, <2>3 DEF NaN
<1>7. u = q
  <2>1. -Grain < sum /\ sum < Grain * W
    <3> HIDE DEF sum, W
    <3> QED
      BY <1>1, <1>2, <1>3, <1>5
  <2>2. ~(sum < 0)
    <3> HIDE DEF sum
    <3> QED
      BY <1>3
  <2> QED
    BY <1>6, <2>1, <2>2 DEF Unsigned
<1>8. u \in Coordinates
  BY <1>1, UnsignedType
<1> HIDE DEF sum, W
<1>9. q \in Int /\ m \in 0..(Grain - 1) /\ sum = Grain * q + m
  BY <1>1, <1>3, Divided
<1> HIDE DEF q, m
<1>10. ASSUME NEW c \in Int
       PROVE  /\ x < c * Grain - half - SumStep => q <= c
              /\ c * Grain - half + SumStep < x => c <= q
  <2>1. c * Grain \in Int /\ q * Grain \in Int /\ q * Grain = Grain * q
    BY <1>1, <1>9
  <2>2. ASSUME q > c PROVE c * Grain <= sum
    <3>1. c * Grain <= q * Grain
      BY <1>1, <1>9, <2>2, TimesMonotone
    <3> QED
      BY <1>1, <1>9, <2>1, <3>1
  <2>3. ASSUME q < c PROVE sum < c * Grain
    <3>1. q + 1 \in Int /\ q + 1 <= c
      BY <1>9, <2>3
    <3>2. (q + 1) * Grain <= c * Grain
      BY <1>1, <3>1, TimesMonotone
    <3>3. (q + 1) * Grain = Grain * q + Grain
      BY <1>1, <1>9
    <3>4. Grain * q \in Int
      BY <2>1
    <3> QED
      BY <1>1, <1>9, <2>1, <3>2, <3>3, <3>4
  <2> DEFINE y == c * Grain
  <2>4. y \in Int
    BY <2>1
  <2> HIDE DEF y
  <2>5. x < y - half - SumStep => ~(y <= sum)
    BY <1>1, <1>3, <2>4
  <2>6. y - half + SumStep < x => ~(sum < y)
    BY <1>1, <1>3, <2>4
  <2> QED
    BY <1>9, <2>2, <2>3, <2>5, <2>6 DEF y
<1> QED
  BY <1>7, <1>8, <1>10

(* The boxes of areas on the globe, and what they hold for sure.           *)
GlobeBox ==
  {box \in Box :
     /\ {box.latmin, box.latmax} \subseteq (-HalfLat)..HalfLat
     /\ {box.lngmin, box.lngmax} \subseteq (-HalfLng)..HalfLng
     /\ box.minpos \in CombineForGeo(box.latmin, box.lngmin)
     /\ box.maxpos \in CombineForGeo(box.latmax, box.lngmax)}
Spots(e) == Near(e) \cup {Rounded(e)}
Holds(box, e) == \A p \in Spots(e) : Inside(p, box)

LEMMA SpotsType ==
  ASSUME NEW e \in Entry
  PROVE  Spots(e) \subseteq Position /\ Spots(e) # {}
<1>1. ByteToLong(e.key) \in Int
  BY PointKeyType, ByteToLongType DEF Entry
<1>2. Rounded(e) \in Position
  BY <1>1, SplitForGeoType DEF Rounded
<1> DEFINE lat == Split(ByteToLong(e.key)).first
           lng == Split(ByteToLong(e.key)).second
           aside == {-SumStep, 0, SumStep}
<1>3. lat \in Int /\ lng \in Int
  BY <1>1, SplitType
<1>4. /\ Grain \in Int /\ HalfLat \in Int /\ HalfLng \in Int
      /\ \A step \in aside : step \in Int
  BY Widths, GlobeAssumption
<1>5. Near(e) = {[lat |-> lat * Grain - HalfLat + north, lng |-> lng * Grain - HalfLng + east] :
                   north \in aside, east \in aside}
  BY DEF Near
<1> HIDE DEF lat, lng, aside
<1>6. Near(e) \subseteq Position
  BY <1>3, <1>4, <1>5 DEF Position
<1> QED
  BY <1>2, <1>6 DEF Spots

(* The codes of what a box holds lie between those of two corners.         *)
LEMMA CodeBetween ==
  ASSUME NEW e \in Entry, NEW box \in GlobeBox, Holds(box, e)
  PROVE  ~KeyBefore(e.key, LongToByte(box.minpos)) /\ ByteToLong(e.key) <= box.maxpos
<1>1. PICK a \in Coordinates, b \in Coordinates :
        /\ ByteToLong(e.key) = Combine(a, b) /\ Combine(a, b) \in Codes
        /\ e.key = LongToByte(Combine(a, b))
        /\ Split(ByteToLong(e.key)) = [first |-> a, second |-> b]
  BY CodeOfKey DEF Entry
<1>2. /\ box.latmin \in (-HalfLat)..HalfLat /\ box.latmax \in (-HalfLat)..HalfLat
      /\ box.lngmin \in (-HalfLng)..HalfLng /\ box.lngmax \in (-HalfLng)..HalfLng
      /\ box.minpos \in CombineForGeo(box.latmin, box.lngmin)
      /\ box.maxpos \in CombineForGeo(box.latmax, box.lngmax)
  BY DEF GlobeBox
<1>3. PICK s \in Unsigned(box.latmin, HalfLat), w \in Unsigned(box.lngmin, HalfLng) :
        box.minpos = Combine(s, w)
  BY <1>2 DEF CombineForGeo
<1>4. PICK n \in Unsigned(box.latmax, HalfLat), o \in Unsigned(box.lngmax, HalfLng) :
        box.maxpos = Combine(n, o)
  BY <1>2 DEF CombineForGeo
<1>5. /\ a \in Int /\ b \in Int /\ Grain \in Nat \ {0} /\ SumStep \in Nat
      /\ HalfLat \in Nat /\ HalfLng \in Nat
  BY Widths, GlobeAssumption DEF Coordinates
<1> DEFINE x == a * Grain - HalfLat
           y == b * Grain - HalfLng
           back == -SumStep
<1>6. x \in Int /\ y \in Int /\ back \in Int
  BY <1>5
<1>7. /\ [lat |-> x + back, lng |-> y + back] \in Near(e)
      /\ [lat |-> x + SumStep, lng |-> y + SumStep] \in Near(e)
  BY <1>1 DEF Near
<1>8. /\ box.latmin < x + back /\ box.lngmin < y + back
      /\ x + SumStep < box.latmax /\ y + SumStep < box.lngmax
  <2>1. \A p \in Near(e) : /\ box.lngmin < p.lng /\ p.lng < box.lngmax
                           /\ box.latmin < p.lat /\ p.lat < box.latmax
    BY DEF Holds, Spots, Inside, Less
  <2> HIDE DEF x, y, back
  <2> QED
    BY <1>7, <2>1
<1>9. /\ box.latmin < a * Grain - HalfLat - SumStep /\ box.lngmin < b * Grain - HalfLng - SumStep
      /\ a * Grain - HalfLat + SumStep < box.latmax /\ b * Grain - HalfLng + SumStep < box.lngmax
  <2>1. x + back = x - SumStep /\ y + back = y - SumStep
    <3> HIDE DEF x, y
    <3> QED
      BY <1>5, <1>6
  <2> HIDE DEF back
  <2> QED
    BY <1>8, <2>1
<1>10. /\ s \in Coordinates /\ w \in Coordinates /\ n \in Coordinates /\ o \in Coordinates
       /\ s <= a /\ w <= b /\ a <= n /\ b <= o
  BY <1>2, <1>5, <1>9, UnitsOnGlobe
<1>11. Combine(s, w) <= Combine(a, b) /\ Combine(a, b) <= Combine(n, o)
  BY <1>10, CombineMonotone
<1>12. Combine(s, w) \in Codes
  BY <1>10, CombineType DEF Coordinates
<1>13. ~KeyBefore(e.key, LongToByte(Combine(s, w)))
  <2>1. ~(Combine(a, b) < Combine(s, w))
    BY <1>1, <1>11, <1>12 DEF Codes
  <2> QED
    BY <1>1, <1>12, <2>1, KeyBeforeIsLess
<1> QED
  BY <1>1, <1>3, <1>4, <1>11, <1>13

LEMMA BoxesOnGlobe ==
  ASSUME NEW r \in Areas, r.lng2 # NaN, OnGlobe(r), NEW walk \in Walks(Boxes(Corners(r)))
  PROVE  walk \in Seq(GlobeBox)
<1> DEFINE a == Corners(r)
           Globe4 == {b \in Rect : /\ {b.latmin, b.latmax} \subseteq (-HalfLat)..HalfLat
                                   /\ {b.lngmin, b.lngmax} \subseteq (-HalfLng)..HalfLng}
<1>1. a \in Globe4
  BY CornersOf DEF OnGlobe
<1>2. HalfLng \in Nat
  BY Widths
<1> HIDE DEF a
<1>3. Boxes(a) \in Seq(Globe4)
  <2> DEFINE back == -HalfLng
  <2>1. 0 \in (-HalfLng)..HalfLng /\ HalfLng \in (-HalfLng)..HalfLng /\ back \in (-HalfLng)..HalfLng
    BY <1>2
  <2> HIDE DEF back
  <2>2. \A x, y \in (-HalfLng)..HalfLng : [a EXCEPT !.lngmin = x, !.lngmax = y] \in Globe4
    <3> SUFFICES ASSUME NEW x \in (-HalfLng)..HalfLng, NEW y \in (-HalfLng)..HalfLng
                 PROVE  [a EXCEPT !.lngmin = x, !.lngmax = y] \in Globe4
      OBVIOUS
    <3> DEFINE b == [a EXCEPT !.lngmin = x, !.lngmax = y]
    <3>1. a \in Rect /\ x \in Int /\ y \in Int
      BY <1>1, <1>2
    <3>2. b \in Rect /\ b.latmin = a.latmin /\ b.latmax = a.latmax /\ b.lngmin = x /\ b.lngmax = y
      BY <3>1 DEF Rect
    <3> HIDE DEF b
    <3> QED
      BY <1>1, <3>2 DEF b
  <2>3. /\ a.lngmin \in (-HalfLng)..HalfLng /\ a.lngmax \in (-HalfLng)..HalfLng
        /\ a = [latmin |-> a.latmin, latmax |-> a.latmax, lngmin |-> a.lngmin, lngmax |-> a.lngmax]
    BY <1>1 DEF Rect
  <2>4. /\ [a EXCEPT !.lngmax = 0] = [a EXCEPT !.lngmin = a.lngmin, !.lngmax = 0]
        /\ [a EXCEPT !.lngmin = 0] = [a EXCEPT !.lngmin = 0, !.lngmax = a.lngmax]
    BY <2>3
  <2> HIDE DEF Globe4
  <2>5. /\ [a EXCEPT !.lngmax = 0] \in Globe4 /\ [a EXCEPT !.lngmin = 0] \in Globe4
        /\ [a EXCEPT !.lngmin = back, !.lngmax = a.lngmin] \in Globe4
        /\ [a EXCEPT !.lngmin = a.lngmax, !.lngmax = HalfLng] \in Globe4
    BY <2>1, <2>2, <2>3, <2>4
  <2>6. \A b, c \in Globe4 : <<b>> \in Seq(Globe4) /\ <<b, c>> \in Seq(Globe4)
    OBVIOUS
  <2> QED
    BY <1>1, <2>5, <2>6 DEF Boxes, back
<1>4. /\ walk \in Seq(Box) /\ DOMAIN walk = DOMAIN Boxes(a)
      /\ \A k \in DOMAIN Boxes(a) :
           /\ walk[k].latmin = Boxes(a)[k].latmin /\ walk[k].latmax = Boxes(a)[k].latmax
           /\ walk[k].lngmin = Boxes(a)[k].lngmin /\ walk[k].lngmax = Boxes(a)[k].lngmax
           /\ walk[k].minpos \in CombineForGeo(Boxes(a)[k].latmin, Boxes(a)[k].lngmin)
           /\ walk[k].maxpos \in CombineForGeo(Boxes(a)[k].latmax, Boxes(a)[k].lngmax)
  BY BoxesOfArea, WalkedBoxes DEF a
<1>5. \A k \in DOMAIN Boxes(a) : Boxes(a)[k] \in Globe4
  <2> HIDE DEF Globe4
  <2> QED
    BY <1>3
<1>6. \A k \in DOMAIN walk : walk[k] \in GlobeBox
  <2> SUFFICES ASSUME NEW k \in DOMAIN walk PROVE walk[k] \in GlobeBox
    OBVIOUS
  <2> DEFINE b == Boxes(a)[k]
  <2>1. b \in Globe4 /\ walk[k] \in Box
    BY <1>4, <1>5
  <2>2. /\ walk[k].latmin = b.latmin /\ walk[k].latmax = b.latmax
        /\ walk[k].lngmin = b.lngmin /\ walk[k].lngmax = b.lngmax
        /\ walk[k].minpos \in CombineForGeo(b.latmin, b.lngmin)
        /\ walk[k].maxpos \in CombineForGeo(b.latmax, b.lngmax)
    BY <1>4
  <2> HIDE DEF b
  <2> QED
    BY <2>1, <2>2 DEF GlobeBox
<1>7. DOMAIN walk = 1..Len(walk) /\ Len(walk) \in Nat /\ walk = [k \in DOMAIN walk |-> walk[k]]
  BY <1>4
<1>8. walk \in [1..Len(walk) -> GlobeBox]
  BY <1>6, <1>7
<1> QED
  BY <1>7, <1>8, SeqDef

(* What lies in an area on the globe for sure lies in one of its boxes, as *)
(* it was stored and as it is rounded, and a step of a sum to either side. *)
LEMMA BoxesHold ==
  ASSUME NEW r \in Areas, r.lng2 # NaN, OnGlobe(r), NEW walk \in Walks(Boxes(Corners(r))),
         NEW e \in Entry, SurelyIn(e, r)
  PROVE  \E k \in DOMAIN walk : Holds(walk[k], e)
<1> DEFINE a == Corners(r)
           S == Spots(e)
<1>1. /\ a \in Rect
      /\ {a.latmin, a.latmax} \subseteq {r.lat1, r.lat2}
      /\ {a.lngmin, a.lngmax} \subseteq {r.lng1, r.lng2}
      /\ AtMost(a.lngmin, a.lngmax)
  BY CornersOf
<1>2. /\ HalfLat \in Nat /\ HalfLng \in Nat \ {0} /\ NaN \in Int
      /\ HalfLat < Infinity /\ HalfLng < Infinity /\ Infinity < NaN /\ Infinity \in Int
  <2> DEFINE z == Grain * (2 ^ Bits + FloatStep)
  <2>1. Bin[Bits] = 2 ^ Bits /\ Bin[Bits] \in Nat
    BY Widths, CodeWeights, Capacity
  <2>2. 2 ^ Bits + FloatStep \in Nat /\ Grain \in Nat
    BY <2>1, Widths
  <2>3. z \in Nat
    BY <2>2, TimesNat
  <2>4. Infinity \in Nat /\ Infinity > z + SumStep + HalfLat + HalfLng
    BY FloatAssumption
  <2>5. HalfLat \in Nat /\ HalfLng \in Nat \ {0} /\ SumStep \in Nat
    BY Widths, GlobeAssumption
  <2> HIDE DEF z
  <2>6. NaN = Infinity + 1
    BY DEF NaN
  <2> QED
    BY <2>3, <2>4, <2>5, <2>6
<1>3. /\ r.lat1 \in (-HalfLat)..HalfLat /\ r.lat2 \in (-HalfLat)..HalfLat
      /\ r.lng1 \in (-HalfLng)..HalfLng /\ r.lng2 \in (-HalfLng)..HalfLng
  BY DEF OnGlobe
<1>4. Finite(r)
  BY <1>2, <1>3 DEF Finite
<1>5. /\ a.latmin \in Int /\ a.latmax \in Int /\ a.lngmin \in Int /\ a.lngmax \in Int
      /\ a = [latmin |-> a.latmin, latmax |-> a.latmax, lngmin |-> a.lngmin, lngmax |-> a.lngmax]
      /\ a.lngmin <= a.lngmax
      /\ NaN \notin {a.latmin, a.latmax, a.lngmin, a.lngmax, 0, HalfLng, -HalfLng}
      /\ r.lat1 < NaN /\ r.lat2 < NaN /\ r.lng1 < NaN /\ r.lng2 < NaN
  BY <1>1, <1>2, <1>3 DEF Rect, AtMost
<1>6. S \subseteq Position /\ S # {}
  BY SpotsType
<1>7. \A p \in S : InArea(p, r)
  BY DEF SurelyIn, Spots
<1>8. Across(r) => (\A p \in S : p.lng < 0) \/ (\A p \in S : p.lng > 0)
  BY DEF SurelyIn, Spots
<1>9. /\ Boxes(a) \in Seq(Rect) /\ DOMAIN walk = DOMAIN Boxes(a)
      /\ \A k \in DOMAIN Boxes(a) : \A p : Inside(p, walk[k]) <=> Inside(p, Boxes(a)[k])
  BY BoxesOfArea, WalkedBoxes
<1>10. ASSUME NEW k \in DOMAIN Boxes(a), \A p \in S : Inside(p, Boxes(a)[k])
       PROVE  \E i \in DOMAIN walk : Holds(walk[i], e)
  BY <1>9, <1>10 DEF Holds
<1>11. /\ a.latmin < a.latmax => \/ a.latmin = r.lat1 /\ a.latmax = r.lat2
                                 \/ a.latmin = r.lat2 /\ a.latmax = r.lat1
       /\ r.lat1 # r.lat2 => a.latmin < a.latmax
       /\ a.lngmin < a.lngmax => \/ a.lngmin = r.lng1 /\ a.lngmax = r.lng2
                                 \/ a.lngmin = r.lng2 /\ a.lngmax = r.lng1
       /\ r.lng1 # r.lng2 => a.lngmin < a.lngmax
  <2>1. /\ a.latmin = MIN(r.lat1, r.lat2) /\ a.latmax = MAX(r.lat1, r.lat2)
        /\ a.lngmin = MIN(r.lng1, r.lng2) /\ a.lngmax = MAX(r.lng1, r.lng2)
    BY DEF Corners
  <2>2. ASSUME NEW x \in Int, NEW y \in Int, x < NaN, y < NaN, x # y
        PROVE  /\ MIN(x, y) < MAX(x, y)
               /\ \/ MIN(x, y) = x /\ MAX(x, y) = y
                  \/ MIN(x, y) = y /\ MAX(x, y) = x
    BY <1>2, <2>2 DEF MIN, MAX, Less
  <2>3. \A x : MIN(x, x) = x /\ MAX(x, x) = x
    BY DEF MIN, MAX
  <2>4. r.lat1 \in Int /\ r.lat2 \in Int /\ r.lng1 \in Int /\ r.lng2 \in Int
    BY AreaType
  <2> HIDE DEF a
  <2>5. /\ r.lat1 # r.lat2 =>
             /\ a.latmin < a.latmax
             /\ \/ a.latmin = r.lat1 /\ a.latmax = r.lat2
                \/ a.latmin = r.lat2 /\ a.latmax = r.lat1
        /\ r.lng1 # r.lng2 =>
             /\ a.lngmin < a.lngmax
             /\ \/ a.lngmin = r.lng1 /\ a.lngmax = r.lng2
                \/ a.lngmin = r.lng2 /\ a.lngmax = r.lng1
    BY <1>5, <2>1, <2>2, <2>4
  <2>6. /\ r.lat1 = r.lat2 => a.latmin = a.latmax
        /\ r.lng1 = r.lng2 => a.lngmin = a.lngmax
    BY <2>1, <2>3
  <2> QED
    BY <1>5, <2>5, <2>6
<1>12. a.lngmin < a.lngmax =>
         /\ Across(r) <=> ~SameSide(a.lngmin, a.lngmax)
         /\ Wide(r) <=> Across(r) /\ ~(FloatSum(a.lngmax - a.lngmin) < HalfLng)
         /\ Across(r) => a.lngmin < 0 /\ 0 < a.lngmax
  BY <1>4, ShapeOfArea
<1>13. r.lat1 \in Int /\ r.lat2 \in Int /\ r.lng1 \in Int /\ r.lng2 \in Int
  BY AreaType
<1>14. ~(r.lng1 # r.lng2) => ~Across(r) /\ ~Wide(r)
  BY <1>13, SquareSign DEF Across, Wide
<1> HIDE DEF a, S
<1>15. ASSUME NEW p \in S
       PROVE  /\ p.lat \in Int /\ p.lng \in Int
              /\ Less(a.latmin, p.lat) /\ Less(p.lat, a.latmax)
              /\ ~Wide(r) => a.lngmin < p.lng /\ p.lng < a.lngmax
              /\ Wide(r) => /\ p.lng < a.lngmin \/ a.lngmax < p.lng
                            /\ -HalfLng < p.lng /\ p.lng < HalfLng
              /\ p.lng # NaN /\ a.lngmin < a.lngmax
  <2>1. InArea(p, r) /\ p.lat \in Int /\ p.lng \in Int
    BY <1>6, <1>7 DEF Position
  <2>2. Between(p.lat, r.lat1, r.lat2)
    BY <2>1 DEF InArea
  <2>3. r.lat1 # r.lat2
    BY <1>13, <2>1, <2>2 DEF Between
  <2>4. a.latmin < p.lat /\ p.lat < a.latmax
    BY <1>5, <1>11, <1>13, <2>1, <2>2, <2>3 DEF Between
  <2>5. p.lat # NaN
    BY <1>2, <1>3, <1>13, <2>1, <2>2 DEF Between
  <2>6. r.lng1 # r.lng2
    <3>1. ~Wide(r) => Between(p.lng, r.lng1, r.lng2)
      BY <2>1 DEF InArea
    <3>2. ~Wide(r) => r.lng1 # r.lng2
      BY <1>13, <2>1, <3>1 DEF Between
    <3> QED
      BY <1>14, <3>2
  <2>7. a.lngmin < a.lngmax
    BY <1>11, <2>6
  <2>8. ~Wide(r) => a.lngmin < p.lng /\ p.lng < a.lngmax
    <3>1. ~Wide(r) => Between(p.lng, r.lng1, r.lng2)
      BY <2>1 DEF InArea
    <3> QED
      BY <1>5, <1>11, <1>13, <2>1, <2>7, <3>1 DEF Between
  <2>9. Wide(r) => /\ p.lng < a.lngmin \/ a.lngmax < p.lng
                   /\ -HalfLng < p.lng /\ p.lng < HalfLng
    <3>1. Wide(r) => /\ ~Between(p.lng, r.lng1, r.lng2) /\ p.lng # r.lng1 /\ p.lng # r.lng2
                     /\ -HalfLng < p.lng /\ p.lng < HalfLng
      BY <2>1 DEF InArea
    <3> QED
      BY <1>5, <1>11, <1>13, <2>1, <2>7, <3>1 DEF Between
  <2>10. p.lng # NaN
    <3>1. a.lngmax < NaN
      BY <1>1, <1>5
    <3>2. ~Wide(r) => p.lng < NaN
      BY <1>2, <1>5, <2>1, <2>8, <3>1
    <3>3. Wide(r) => p.lng < NaN
      BY <1>2, <2>1, <2>9
    <3> QED
      BY <1>2, <2>1, <3>2, <3>3
  <2> QED
    BY <1>5, <2>1, <2>4, <2>5, <2>7, <2>8, <2>9, <2>10 DEF Less
<1>16. /\ Across(r) <=> ~SameSide(a.lngmin, a.lngmax)
       /\ Wide(r) <=> Across(r) /\ ~(FloatSum(a.lngmax - a.lngmin) < HalfLng)
       /\ Across(r) => a.lngmin < 0 /\ 0 < a.lngmax
  BY <1>6, <1>12, <1>15
<1>17. ASSUME NEW b, NEW c, Boxes(a) = <<b, c>>,
              \/ \A p \in S : Inside(p, b)
              \/ \A p \in S : Inside(p, c)
       PROVE  \E k \in DOMAIN walk : Holds(walk[k], e)
  <2>1. 1 \in DOMAIN <<b, c>> /\ <<b, c>>[1] = b /\ 2 \in DOMAIN <<b, c>> /\ <<b, c>>[2] = c
    OBVIOUS
  <2> QED
    BY <1>10, <1>17, <2>1
<1>18. CASE ~Across(r)
  <2>1. Boxes(a) = <<a>> /\ ~Wide(r)
    BY <1>16, <1>18 DEF Boxes
  <2>2. \A p \in S : Inside(p, a)
    BY <1>5, <1>15, <2>1 DEF Inside, Less
  <2>3. 1 \in DOMAIN <<a>> /\ <<a>>[1] = a
    OBVIOUS
  <2> QED
    BY <1>10, <2>1, <2>2, <2>3
<1>19. CASE Across(r) /\ ~Wide(r)
  <2> DEFINE b == [a EXCEPT !.lngmax = 0]
             c == [a EXCEPT !.lngmin = 0]
  <2>1. Boxes(a) = <<b, c>>
    BY <1>16, <1>19 DEF Boxes
  <2>2. /\ b.latmin = a.latmin /\ b.latmax = a.latmax /\ b.lngmin = a.lngmin /\ b.lngmax = 0
        /\ c.latmin = a.latmin /\ c.latmax = a.latmax /\ c.lngmin = 0 /\ c.lngmax = a.lngmax
    BY <1>5
  <2> HIDE DEF b, c
  <2>3. CASE \A p \in S : p.lng < 0
    <3>1. \A p \in S : Inside(p, b)
      BY <1>5, <1>15, <1>19, <2>2, <2>3 DEF Inside, Less
    <3> QED
      BY <1>17, <2>1, <3>1
  <2>4. CASE \A p \in S : p.lng > 0
    <3>1. ASSUME NEW p \in S PROVE Inside(p, c)
      <4>1. 0 < p.lng
        BY <1>15, <2>4
      <4> QED
        BY <1>5, <1>15, <1>19, <2>2, <4>1 DEF Inside, Less
    <3> QED
      BY <1>17, <2>1, <3>1
  <2> QED
    BY <1>8, <1>19, <2>3, <2>4
<1>20. CASE Wide(r)
  <2> DEFINE b == [a EXCEPT !.lngmin = -HalfLng, !.lngmax = a.lngmin]
             c == [a EXCEPT !.lngmin = a.lngmax, !.lngmax = HalfLng]
             back == -HalfLng
  <2>1. Boxes(a) = <<b, c>> /\ Across(r)
    BY <1>16, <1>20 DEF Boxes
  <2>2. back \in Int /\ back # NaN
    BY <1>2, <1>5
  <2>3. \A p \in S : back < p.lng /\ p.lng < HalfLng /\ (p.lng < a.lngmin \/ a.lngmax < p.lng)
    BY <1>15, <1>20
  <2> HIDE DEF back
  <2>4. /\ b.latmin = a.latmin /\ b.latmax = a.latmax /\ b.lngmin = back /\ b.lngmax = a.lngmin
    <3>1. /\ [a EXCEPT !.lngmin = back, !.lngmax = a.lngmin].latmin = a.latmin
          /\ [a EXCEPT !.lngmin = back, !.lngmax = a.lngmin].latmax = a.latmax
          /\ [a EXCEPT !.lngmin = back, !.lngmax = a.lngmin].lngmin = back
          /\ [a EXCEPT !.lngmin = back, !.lngmax = a.lngmin].lngmax = a.lngmin
      BY <1>5
    <3> QED
      BY <3>1 DEF back
  <2>5. /\ c.latmin = a.latmin /\ c.latmax = a.latmax /\ c.lngmin = a.lngmax /\ c.lngmax = HalfLng
    BY <1>5
  <2> HIDE DEF b, c
  <2>6. CASE \A p \in S : p.lng < 0
    <3>1. ASSUME NEW p \in S PROVE Inside(p, b)
      <4>1. p.lng < a.lngmin /\ back < p.lng
        BY <1>5, <1>15, <1>16, <2>1, <2>3, <2>6
      <4> QED
        BY <1>5, <1>15, <2>2, <2>4, <4>1 DEF Inside, Less
    <3> QED
      BY <1>17, <2>1, <3>1
  <2>7. CASE \A p \in S : p.lng > 0
    <3>1. ASSUME NEW p \in S PROVE Inside(p, c)
      <4>1. p.lng > 0 /\ p.lng \in Int /\ a.lngmin < 0
        BY <1>15, <1>16, <2>1, <2>7
      <4>2. a.lngmax < p.lng /\ p.lng < HalfLng
        BY <1>5, <2>3, <4>1
      <4> QED
        BY <1>5, <1>15, <2>5, <4>2 DEF Inside, Less
    <3> QED
      BY <1>17, <2>1, <3>1
  <2> QED
    BY <1>8, <2>1, <2>6, <2>7
<1> QED
  BY <1>18, <1>19, <1>20
-----------------------------------------------------------------------------
Lists(list, e) == \E i \in DOMAIN list : list[i].entry = e
(* The cursor of t will come past e in the box k. *)
Awaits(t, k, e) == Holds(t.boxes[k], e) /\ (k = 1 => t.last = NoEntry \/ Follows(e, t.last))
ScanComplete(t, r, index) ==
  /\ t.there \subseteq index
  /\ OnGlobe(r) => t.boxes \in Seq(GlobeBox)
  /\ OnGlobe(r) /\ t.whole => \A e \in t.there :
       SurelyIn(e, r) => Lists(t.list, e) \/ \E k \in DOMAIN t.boxes : Awaits(t, k, e)

ReadComplete(w) ==
  /\ task[w].at = "scan" => ScanComplete(task[w], asked[w], pointdb)
  /\ Answered(w) /\ reply[w].whole /\ OnGlobe(asked[w]) =>
       \A e \in reply[w].there : SurelyIn(e, asked[w]) => Lists(reply[w].list, e)
CompleteInv == SoundInv /\ \A w \in Workers : ReadComplete(w)

(* What the cursor will come past in its box is ahead of it, and not       *)
(* behind the last code of the box.                                        *)
LEMMA AwaitedIsAhead ==
  ASSUME IndexOK(pointdb), NEW e \in pointdb, NEW box \in GlobeBox,
         Holds(box, e), NEW last, last = NoEntry \/ Follows(e, last)
  PROVE  LET next == First(Ahead(box, last))
         IN  /\ e \in Ahead(box, last)
             /\ next \in pointdb
             /\ e = next \/ Follows(e, next)
             /\ ByteToLong(next.key) <= box.maxpos
<1> DEFINE ahead == Ahead(box, last)
           f == First(ahead)
           maxpos == box.maxpos
<1>1. /\ ~KeyBefore(e.key, LongToByte(box.minpos))
      /\ ByteToLong(e.key) <= maxpos
  BY CodeBetween DEF IndexOK
<1>2. e \in ahead
  BY <1>1 DEF Ahead
<1>3. ahead \in SUBSET Entry /\ IsFiniteSet(ahead) /\ Apart(ahead) /\ ahead \subseteq pointdb
  BY AheadType DEF Ahead
<1>4. f \in ahead /\ \A x \in ahead \ {f} : Follows(x, f)
  <2> HIDE DEF ahead
  <2> QED
    BY <1>2, <1>3, FirstIsAhead
<1> HIDE DEF ahead, f, maxpos
<1>5. e = f \/ Follows(e, f)
  BY <1>2, <1>4
<1>6. f.key \in PointKey /\ e.key \in PointKey
  BY <1>2, <1>3, <1>4 DEF Entry
<1>7. PICK c \in Codes : f.key = LongToByte(c) /\ ByteToLong(f.key) = c
  BY <1>6, CodeOfKey
<1>8. PICK d \in Codes : e.key = LongToByte(d) /\ ByteToLong(e.key) = d
  BY <1>6, CodeOfKey
<1>9. c <= d
  <2>1. c \in Int /\ d \in Int
    BY DEF Codes
  <2>2. CASE KeyBefore(f.key, e.key)
    BY <1>7, <1>8, <2>1, <2>2, KeyBeforeIsLess
  <2>3. CASE e.key = f.key
    BY <1>7, <1>8, <2>1, <2>3
  <2> QED
    BY <1>5, <2>2, <2>3 DEF Follows
<1>10. maxpos \in Int
  BY DEF GlobeBox, Box, maxpos
<1>11. c <= maxpos
  <2>1. c \in Int /\ d \in Int
    BY DEF Codes
  <2> QED
    BY <1>1, <1>8, <1>9, <1>10, <2>1
<1> QED
  BY <1>2, <1>3, <1>4, <1>5, <1>7, <1>11 DEF ahead, f, maxpos

(* The end of a box in which the cursor will come past nothing more, or of *)
(* a reading that failed.                                                  *)
LEMMA BoxComplete ==
  ASSUME NEW r, NEW t, ScanOK(t, r), ScanComplete(t, r, pointdb), t.boxes # <<>>, NEW whole,
         OnGlobe(r) /\ whole => \A e \in t.there : ~Awaits(t, 1, e)
  PROVE  ScanComplete([t EXCEPT !.boxes = Tail(@), !.last = NoEntry, !.whole = @ /\ whole],
                      r, pointdb)
<1> DEFINE rest == Tail(t.boxes)
           still == t.whole /\ whole
           u == [t EXCEPT !.boxes = rest, !.last = NoEntry, !.whole = still]
<1> SUFFICES ScanComplete(u, r, pointdb)
  OBVIOUS
<1>1. /\ u.boxes = rest /\ u.last = NoEntry /\ u.list = t.list /\ u.there = t.there
      /\ u.whole = still
  <2> HIDE DEF rest, still
  <2> QED
    BY EndedBox
<1> HIDE DEF u
<1>2. t.boxes \in Seq(Box) /\ (OnGlobe(r) => t.boxes \in Seq(GlobeBox))
  BY DEF ScanOK, BoxesOK, ScanComplete
<1>3. /\ OnGlobe(r) => rest \in Seq(GlobeBox)
      /\ \A k \in DOMAIN t.boxes : k # 1 =>
           k - 1 \in DOMAIN rest /\ rest[k - 1] = t.boxes[k] /\ k - 1 \in Nat
  BY <1>2
<1> HIDE DEF rest
<1>4. ASSUME OnGlobe(r), t.whole, whole, NEW e \in t.there, SurelyIn(e, r)
      PROVE  Lists(u.list, e) \/ \E k \in DOMAIN u.boxes : Awaits(u, k, e)
  <2>1. CASE Lists(t.list, e)
    BY <1>1, <2>1
  <2>2. CASE \E k \in DOMAIN t.boxes : Awaits(t, k, e)
    <3>1. PICK k \in DOMAIN t.boxes : Awaits(t, k, e)
      BY <2>2
    <3>2. k # 1
      BY <1>4, <3>1
    <3>3. Holds(rest[k - 1], e) /\ k - 1 \in DOMAIN rest
      BY <1>3, <3>1, <3>2 DEF Awaits
    <3> QED
      BY <1>1, <3>3 DEF Awaits
  <2> QED
    BY <1>4, <2>1, <2>2 DEF ScanComplete
<1> QED
  BY <1>1, <1>3, <1>4 DEF ScanComplete

(* The next entry of a box. *)
LEMMA EntryComplete ==
  ASSUME NEW r, NEW t, ScanOK(t, r), ScanComplete(t, r, pointdb), t.boxes # <<>>, NEW f,
         OnGlobe(r) => \A e \in t.there : Awaits(t, 1, e) => e = f \/ Follows(e, f)
  PROVE  LET gp == SplitForGeo(ByteToLong(f.key))
         IN ScanComplete([t EXCEPT !.last = f,
              !.list = IF Inside(gp, Head(t.boxes)) THEN Append(@, [entry |-> f, point |-> gp])
                       ELSE @], r, pointdb)
<1> DEFINE gp == SplitForGeo(ByteToLong(f.key))
           new == [entry |-> f, point |-> gp]
           list == IF Inside(gp, Head(t.boxes)) THEN Append(t.list, new) ELSE t.list
           u == [t EXCEPT !.last = f, !.list = list]
<1> SUFFICES ScanComplete(u, r, pointdb)
  OBVIOUS
<1>1. /\ u.boxes = t.boxes /\ u.last = f /\ u.list = list /\ u.there = t.there
      /\ u.whole = t.whole
  <2> HIDE DEF list
  <2> QED
    BY Advanced
<1> HIDE DEF u
<1>2. Head(t.boxes) = t.boxes[1] /\ t.boxes \in Seq(Box)
  BY DEF ScanOK, BoxesOK
<1>3. t.list \in Seq([entry : Entry, point : Position])
  BY DEF ScanOK, Listed
<1>4. ASSUME NEW e, Lists(t.list, e) PROVE Lists(list, e)
  <2>1. PICK i \in DOMAIN t.list : t.list[i].entry = e
    BY <1>4 DEF Lists
  <2>2. i \in DOMAIN list /\ list[i] = t.list[i]
    <3> HIDE DEF new
    <3> QED
      BY <1>3, AppendProperties
  <2> QED
    BY <2>1, <2>2 DEF Lists
<1>5. ASSUME Inside(gp, Head(t.boxes)) PROVE Lists(list, f)
  <2>1. new.entry = f
    OBVIOUS
  <2>2. list = Append(t.list, new)
    BY <1>5
  <2> HIDE DEF new, list
  <2>3. Len(t.list) + 1 \in DOMAIN list /\ list[Len(t.list) + 1] = new
    BY <1>3, <2>2
  <2> QED
    BY <2>1, <2>3 DEF Lists
<1>6. gp = Rounded(f)
  BY DEF Rounded
<1> HIDE DEF list, gp
<1>7. ASSUME OnGlobe(r), t.whole, NEW e \in t.there, SurelyIn(e, r)
      PROVE  Lists(u.list, e) \/ \E k \in DOMAIN u.boxes : Awaits(u, k, e)
  <2>1. CASE Lists(t.list, e)
    BY <1>1, <1>4, <2>1
  <2>2. CASE \E k \in DOMAIN t.boxes : Awaits(t, k, e)
    <3>1. PICK k \in DOMAIN t.boxes : Awaits(t, k, e)
      BY <2>2
    <3>2. CASE k = 1 /\ e = f
      <4>1. Inside(gp, Head(t.boxes))
        BY <1>2, <1>6, <3>1, <3>2 DEF Awaits, Holds, Spots
      <4> QED
        BY <1>1, <1>5, <3>2, <4>1
    <3>3. CASE k = 1 /\ Follows(e, f)
      BY <1>1, <3>1, <3>3 DEF Awaits
    <3>4. CASE k # 1
      BY <1>1, <3>1, <3>4 DEF Awaits
    <3> QED
      BY <1>7, <3>1, <3>2, <3>3, <3>4
  <2> QED
    BY <1>7, <2>1, <2>2 DEF ScanComplete
<1> QED
  BY <1>1, <1>7 DEF ScanComplete
-----------------------------------------------------------------------------
LEMMA InitComplete == GeoInit => CompleteInv
<1> SUFFICES ASSUME GeoInit PROVE CompleteInv
  OBVIOUS
<1>1. \A w \in Workers : ReadComplete(w)
  BY DEF GeoInit, Init, ReadComplete, Answered, Idle, NoReply
<1> QED
  BY <1>1, InitSound DEF CompleteInv

LEMMA SameComplete ==
  ASSUME NEW v \in Workers, ReadComplete(v), pointdb' = pointdb,
         task'[v] = task[v] /\ reply'[v] = reply[v] /\ asked'[v] = asked[v]
  PROVE  ReadComplete(v)'
BY DEF ReadComplete, Answered, ScanComplete, Lists, Awaits

(* Steps of one worker that change no database. *)
LEMMA OneComplete ==
  ASSUME CompleteInv, SoundInv', pointdb' = pointdb, NEW w \in Workers, ReadComplete(w)',
         \A v \in Workers \ {w} :
           task'[v] = task[v] /\ reply'[v] = reply[v] /\ asked'[v] = asked[v]
  PROVE  CompleteInv'
<1>1. \A v \in Workers : ReadComplete(v)'
  BY SameComplete DEF CompleteInv
<1> QED
  BY <1>1 DEF CompleteInv

(* The answers, and the requests that need no database. *)
LEMMA AnswerComplete ==
  ASSUME CompleteInv, SoundInv', NEW w \in Workers,
         \/ NotGeo(w) \/ NotFound(w) \/ SaveInPart(w) \/ WriteReply(w) \/ AreaReturns(w)
  PROVE  CompleteInv'
<1>1. SiteType /\ ReadOK(w) /\ ReadComplete(w)
  BY DEF CompleteInv, SoundInv, GeoInv
<1>2. pointdb' = pointdb
  BY DEF NotGeo, NotFound, SaveInPart, Plain, WriteReply, AreaReturns, Return, backvars, dbvars
<1>3. CASE NotGeo(w) \/ NotFound(w) \/ SaveInPart(w)
  <2>1. PICK status \in {200, 404, 500}, content \in {"none", "notEnoughParam"} :
          Plain(w, status, content)
    BY <1>3 DEF NotGeo, NotFound, SaveInPart
  <2>2. /\ task[w].at = "idle" /\ task' = task /\ asked' = asked
        /\ reply' = [reply EXCEPT ![w] = [code |-> status, content |-> content]]
    BY <2>1 DEF Plain, Free, At, Say, backvars
  <2>3. /\ reply'[w] = [code |-> status, content |-> content]
        /\ \A v \in Workers \ {w} : reply'[v] = reply[v]
    BY <1>1, <2>2 DEF SiteType
  <2>4. reply'[w].content # "data"
    BY <2>3
  <2>5. ReadComplete(w)'
    BY <2>2, <2>4 DEF ReadComplete, Answered
  <2> QED
    BY <1>2, <2>2, <2>3, <2>5, OneComplete
<1>4. CASE WriteReply(w)
  <2>1. /\ reply[w] # NoReply /\ task' = task
        /\ reply' = [reply EXCEPT ![w] = NoReply] /\ asked' = [asked EXCEPT ![w] = NoArea]
    BY <1>4 DEF WriteReply, Say, backvars
  <2>2. /\ reply'[w] = NoReply /\ task'[w].at = "idle"
        /\ \A v \in Workers \ {w} : reply'[v] = reply[v] /\ asked'[v] = asked[v]
    BY <1>1, <2>1 DEF SiteType, ReadOK
  <2>3. ReadComplete(w)'
    BY <2>2 DEF ReadComplete, Answered, NoReply
  <2> QED
    BY <1>2, <2>1, <2>2, <2>3, OneComplete
<1>5. CASE AreaReturns(w)
  <2> DEFINE r == [code |-> 200, content |-> "data", list |-> task[w].list,
                   there |-> task[w].there, whole |-> task[w].whole]
  <2>1. /\ task[w].at = "scan" /\ task[w].boxes = <<>> /\ asked' = asked
        /\ task' = [task EXCEPT ![w] = Idle] /\ reply' = [reply EXCEPT ![w] = r]
    BY <1>5 DEF AreaReturns, Return, Say, At, requestvars
  <2>2. r.list = task[w].list /\ r.there = task[w].there /\ r.whole = task[w].whole
    OBVIOUS
  <2> HIDE DEF r
  <2>3. /\ reply'[w] = r /\ task'[w] = Idle
        /\ \A v \in Workers \ {w} : reply'[v] = reply[v] /\ task'[v] = task[v]
    BY <1>1, <2>1 DEF SiteType
  <2>4. r.whole /\ OnGlobe(asked[w]) => \A e \in r.there : SurelyIn(e, asked[w]) => Lists(r.list, e)
    BY <1>1, <2>1, <2>2 DEF ReadComplete, ScanComplete
  <2>5. ReadComplete(w)'
    BY <2>1, <2>3, <2>4 DEF ReadComplete, Idle
  <2> QED
    BY <1>2, <2>1, <2>3, <2>5, OneComplete
<1> QED
  BY <1>3, <1>4, <1>5

(* The steps of a save, but for its commit. *)
LEMMA SaveComplete ==
  ASSUME CompleteInv, SoundInv', NEW w \in Workers,
         SavePoint(w) \/ Within(Put(w)) \/ SaveReturns(w)
  PROVE  CompleteInv'
<1>1. SiteType /\ ReadOK(w) /\ ReadComplete(w)
  BY DEF CompleteInv, SoundInv, GeoInv
<1>2. ASSUME NEW id \in Ids, NEW point \in Points, Free(w), AddPoint(w, id, point),
             UNCHANGED <<asked, reply>>
      PROVE  CompleteInv'
  <2>1. PICK key : task' = [task EXCEPT ![w] = [at |-> "put", id |-> id, key |-> key]]
    BY <1>2 DEF AddPoint
  <2>2. pointdb' = pointdb /\ reply[w] = NoReply
    BY <1>2 DEF AddPoint, Free, dbvars
  <2> DEFINE t == [at |-> "put", id |-> id, key |-> key]
  <2>3. t.at = "put"
    OBVIOUS
  <2> HIDE DEF t
  <2>4. task'[w] = t /\ \A v \in Workers \ {w} : task'[v] = task[v]
    BY <1>1, <2>1 DEF SiteType, t
  <2>5. ReadComplete(w)'
    BY <1>2, <2>2, <2>3, <2>4 DEF ReadComplete, Answered, NoReply
  <2> QED
    BY <1>2, <2>2, <2>4, <2>5, OneComplete
<1>3. ASSUME NEW id, NEW done, Say(w, InsertOk(id, done)), task'[w].at = "idle"
      PROVE  ReadComplete(w)' /\ \A v \in Workers \ {w} : reply'[v] = reply[v]
  <2>1. reply'[w] = InsertOk(id, done) /\ \A v \in Workers \ {w} : reply'[v] = reply[v]
    BY <1>1, <1>3 DEF SiteType, Say
  <2>2. reply'[w].content # "data"
    BY <2>1 DEF InsertOk
  <2> QED
    BY <1>3, <2>1, <2>2 DEF ReadComplete, Answered
<1>4. CASE SavePoint(w)
  <2>1. CASE \E id \in Ids : \E point \in Points : AddPoint(w, id, point) /\ UNCHANGED reply
    BY <1>2, <1>4, <2>1 DEF SavePoint, Save
  <2>2. CASE \E id \in Ids : CannotWrite(w) /\ Say(w, InsertOk(id, FALSE))
    <3>1. PICK id \in Ids : CannotWrite(w) /\ Say(w, InsertOk(id, FALSE))
      BY <2>2
    <3>2. task' = task /\ asked' = asked /\ pointdb' = pointdb /\ task[w].at = "idle"
      BY <1>4, <3>1 DEF SavePoint, Save, CannotWrite, At, backvars, dbvars
    <3>3. ReadComplete(w)' /\ \A v \in Workers \ {w} : reply'[v] = reply[v]
      BY <1>3, <3>1, <3>2
    <3> QED
      BY <3>2, <3>3, OneComplete
  <2> QED
    BY <1>4, <2>1, <2>2 DEF SavePoint
<1>5. CASE Within(Put(w))
  <2>1. PICK done \in BOOLEAN :
          task' = [task EXCEPT ![w] =
                     [at |-> "commit", id |-> task[w].id, key |-> task[w].key, done |-> done]]
    BY <1>5 DEF Within, Put
  <2>2. task[w].at = "put" /\ UNCHANGED <<pointdb, reply, asked>>
    BY <1>5 DEF Within, Put, At, dbvars, requestvars
  <2> DEFINE t == [at |-> "commit", id |-> task[w].id, key |-> task[w].key, done |-> done]
  <2>3. t.at = "commit"
    OBVIOUS
  <2> HIDE DEF t
  <2>4. task'[w] = t /\ \A v \in Workers \ {w} : task'[v] = task[v]
    BY <1>1, <2>1 DEF SiteType, t
  <2>5. reply[w] = NoReply
    BY <1>1, <2>2 DEF ReadOK
  <2>6. ReadComplete(w)'
    BY <1>1, <2>2, <2>3, <2>4, <2>5 DEF ReadComplete, Answered, NoReply
  <2> QED
    BY <2>2, <2>4, <2>6, OneComplete
<1>6. CASE SaveReturns(w)
  <2>1. /\ task' = [task EXCEPT ![w] = Idle] /\ asked' = asked /\ pointdb' = pointdb
        /\ Say(w, InsertOk(task[w].id, task[w].done))
    BY <1>6 DEF SaveReturns, Checkpoint, requestvars
  <2>2. task'[w].at = "idle" /\ \A v \in Workers \ {w} : task'[v] = task[v]
    BY <1>1, <2>1 DEF SiteType, Idle
  <2>3. ReadComplete(w)' /\ \A v \in Workers \ {w} : reply'[v] = reply[v]
    BY <1>3, <2>1, <2>2
  <2> QED
    BY <2>1, <2>2, <2>3, OneComplete
<1> QED
  BY <1>4, <1>5, <1>6
(* The beginning of a reading. *)
LEMMA ScanBegins ==
  ASSUME CompleteInv, NEW r \in Areas, r.lng2 # NaN, NEW walk \in Walks(Boxes(Corners(r)))
  PROVE  ScanComplete(Scan(walk), r, pointdb)
<1> DEFINE t == Scan(walk)
<1>1. t = [at |-> "scan", boxes |-> walk, last |-> NoEntry, list |-> <<>>,
           there |-> pointdb, whole |-> TRUE]
  BY DEF Scan
<1> HIDE DEF t
<1>2. t.boxes = walk /\ t.last = NoEntry /\ t.there = pointdb
  BY <1>1
<1>3. ASSUME OnGlobe(r), NEW e \in t.there, SurelyIn(e, r)
      PROVE  \E k \in DOMAIN t.boxes : Awaits(t, k, e)
  <2>1. e \in Entry
    BY <1>2, <1>3, PresentIndex DEF CompleteInv, IndexOK
  <2>2. PICK k \in DOMAIN walk : Holds(walk[k], e)
    BY <1>3, <2>1, BoxesHold
  <2> QED
    BY <1>2, <2>2 DEF Awaits
<1>4. OnGlobe(r) => t.boxes \in Seq(GlobeBox)
  BY <1>2, BoxesOnGlobe
<1> QED
  BY <1>2, <1>3, <1>4 DEF ScanComplete, t

LEMMA ReadingComplete ==
  ASSUME CompleteInv, SoundInv', NEW w \in Workers,
         ReadArea(w) \/ Within(NextEntry(w)) \/ Within(PgetFails(w))
  PROVE  CompleteInv'
<1>1. SiteType /\ ReadOK(w) /\ ReadComplete(w)
  BY DEF CompleteInv, SoundInv, GeoInv
<1>2. ASSUME NEW t, NEW r, task' = [task EXCEPT ![w] = t], t.at = "scan",
             ScanComplete(t, r, pointdb), asked'[w] = r, reply'[w] = NoReply, UNCHANGED pointdb
      PROVE  ReadComplete(w)' /\ \A v \in Workers \ {w} : task'[v] = task[v]
  <2>1. task'[w] = t /\ \A v \in Workers \ {w} : task'[v] = task[v]
    BY <1>1, <1>2 DEF SiteType
  <2> QED
    BY <1>2, <2>1 DEF ReadComplete, Answered, NoReply
<1>3. CASE ReadArea(w)
  <2>1. PICK r \in Areas : asked' = [asked EXCEPT ![w] = r] /\ ReadAreaPoint(w, Corners(r))
    BY <1>3 DEF ReadArea
  <2>2. pointdb' = pointdb /\ reply' = reply /\ reply[w] = NoReply
    BY <1>3, <2>1 DEF ReadArea, ReadAreaPoint, Free, dbvars
  <2>3. asked'[w] = r /\ \A v \in Workers \ {w} : asked'[v] = asked[v]
    BY <1>1, <2>1 DEF SiteType
  <2>4. CASE r.lng2 = NaN
    <3>1. task' = [task EXCEPT ![w] = Failed]
      BY <2>1, <2>4, CornersOf DEF ReadAreaPoint
    <3>2. task'[w] = Failed /\ \A v \in Workers \ {w} : task'[v] = task[v]
      BY <1>1, <3>1 DEF SiteType
    <3>3. ReadComplete(w)'
      BY <2>2, <3>2 DEF ReadComplete, Answered, NoReply, Failed
    <3> QED
      BY <2>2, <2>3, <3>2, <3>3, OneComplete
  <2>5. CASE r.lng2 # NaN
    <3>1. PICK walk \in Walks(Boxes(Corners(r))) : task' = [task EXCEPT ![w] = Scan(walk)]
      BY <2>1, <2>5, CornersOf DEF ReadAreaPoint
    <3> DEFINE t == Scan(walk)
    <3>2. ScanComplete(t, r, pointdb)
      BY <2>5, ScanBegins
    <3>3. t.at = "scan"
      BY DEF Scan
    <3> HIDE DEF t
    <3>4. ReadComplete(w)' /\ \A v \in Workers \ {w} : task'[v] = task[v]
      BY <1>2, <2>2, <2>3, <3>1, <3>2, <3>3 DEF t
    <3> QED
      BY <2>2, <2>3, <3>4, OneComplete
  <2> QED
    BY <2>4, <2>5
<1>4. CASE Within(NextEntry(w)) \/ Within(PgetFails(w))
  <2>1. /\ task[w].at = "scan" /\ task[w].boxes # <<>>
        /\ UNCHANGED <<pointdb, reply, asked>>
    BY <1>4 DEF Within, NextEntry, PgetFails, Scanning, At, dbvars, requestvars
  <2>2. /\ ScanOK(task[w], asked[w]) /\ ScanComplete(task[w], asked[w], pointdb) /\ reply[w] = NoReply
    BY <1>1, <2>1 DEF ReadOK, ReadComplete
  <2>3. ASSUME NEW t, task' = [task EXCEPT ![w] = t], t.at = "scan",
               ScanComplete(t, asked[w], pointdb)
        PROVE  CompleteInv'
    <3>1. ReadComplete(w)' /\ \A v \in Workers \ {w} : task'[v] = task[v]
      BY <1>2, <2>1, <2>2, <2>3
    <3> QED
      BY <2>1, <3>1, OneComplete
  <2>4. IndexOK(pointdb)
    BY PresentIndex DEF CompleteInv
  <2> DEFINE box == Head(task[w].boxes)
             last == task[w].last
             ahead == Ahead(box, last)
             maxpos == box.maxpos
  <2>5. /\ box = task[w].boxes[1] /\ box \in Box
        /\ OnGlobe(asked[w]) => box \in GlobeBox
    BY <2>1, <2>2 DEF ScanOK, BoxesOK, ScanComplete
  <2>6. ASSUME OnGlobe(asked[w]), NEW e \in task[w].there, Awaits(task[w], 1, e)
        PROVE  /\ ahead # {} /\ ByteToLong(First(ahead).key) <= maxpos
               /\ e = First(ahead) \/ Follows(e, First(ahead))
    <3>1. e \in pointdb /\ Holds(box, e) /\ (last = NoEntry \/ Follows(e, last))
      BY <2>2, <2>5, <2>6 DEF ScanComplete, Awaits
    <3>2. box \in GlobeBox
      BY <2>5, <2>6
    <3> HIDE DEF box, last
    <3> QED
      BY <2>4, <3>1, <3>2, AwaitedIsAhead
  <2>7. ASSUME NEW whole, EndBox(w, whole),
               OnGlobe(asked[w]) /\ whole => \A e \in task[w].there : ~Awaits(task[w], 1, e)
        PROVE  CompleteInv'
    <3> DEFINE rest == Tail(task[w].boxes)
               still == task[w].whole /\ whole
               t == [task[w] EXCEPT !.boxes = rest, !.last = NoEntry, !.whole = still]
    <3>1. task' = [task EXCEPT ![w] = t]
      BY <1>1, <2>7 DEF EndBox, SiteType
    <3>2. ScanComplete(t, asked[w], pointdb)
      BY <2>1, <2>2, <2>7, BoxComplete
    <3>3. t.at = "scan"
      <4> HIDE DEF rest, still
      <4>1. t = [at |-> "scan", boxes |-> rest, last |-> NoEntry, list |-> task[w].list,
                 there |-> task[w].there, whole |-> still]
        BY <2>2, EndedBox
      <4> QED
        BY <4>1
    <3> HIDE DEF t
    <3> QED
      BY <2>3, <3>1, <3>2, <3>3
  <2>8. CASE Within(PgetFails(w))
    BY <2>7, <2>8 DEF Within, PgetFails
  <2>9. CASE Within(NextEntry(w)) /\ ahead = {} /\ EndBox(w, TRUE)
    BY <2>6, <2>7, <2>9
  <2>10. CASE Within(NextEntry(w)) /\ ahead # {}
    <3> DEFINE f == First(ahead)
               gp == SplitForGeo(ByteToLong(f.key))
               list == IF Inside(gp, box) THEN Append(task[w].list, [entry |-> f, point |-> gp])
                       ELSE task[w].list
               t == [task[w] EXCEPT !.last = f, !.list = list]
    <3>1. CASE ByteToLong(f.key) > maxpos /\ EndBox(w, TRUE)
      <4>1. ByteToLong(f.key) \in Int /\ maxpos \in Int
        <5>1. ahead \in SUBSET Entry /\ IsFiniteSet(ahead) /\ Apart(ahead)
          BY <2>4, AheadType
        <5>2. f \in Entry
          <6> HIDE DEF ahead
          <6> QED
            BY <2>10, <5>1, FirstIsAhead
        <5>3. ByteToLong(f.key) \in Int
          <6> HIDE DEF f
          <6> QED
            BY <5>2, PointKeyType, ByteToLongType DEF Entry
        <5>4. maxpos \in Int
          BY <2>5 DEF Box
        <5> QED
          BY <5>3, <5>4
      <4> HIDE DEF f, maxpos
      <4>2. ~(ByteToLong(f.key) <= maxpos)
        BY <3>1, <4>1
      <4>3. OnGlobe(asked[w]) => \A e \in task[w].there : ~Awaits(task[w], 1, e)
        BY <2>6, <4>2 DEF f
      <4> QED
        BY <2>7, <3>1, <4>3
    <3>2. CASE task' = [task EXCEPT ![w] = t]
      <4>1. ScanComplete(t, asked[w], pointdb)
        <5>1. OnGlobe(asked[w]) =>
                \A e \in task[w].there : Awaits(task[w], 1, e) => e = f \/ Follows(e, f)
          BY <2>6
        <5> HIDE DEF f
        <5> QED
          BY <2>1, <2>2, <5>1, EntryComplete
      <4>2. t.at = "scan"
        <5> HIDE DEF f, list
        <5>1. t = [at |-> "scan", boxes |-> task[w].boxes, last |-> f, list |-> list,
                   there |-> task[w].there, whole |-> task[w].whole]
          BY <2>2, Advanced
        <5> QED
          BY <5>1
      <4> HIDE DEF t
      <4> QED
        BY <2>3, <3>2, <4>1, <4>2
    <3>3. \/ ByteToLong(f.key) > maxpos /\ EndBox(w, TRUE)
          \/ task' = [task EXCEPT ![w] = t]
      BY <1>1, <2>10 DEF Within, NextEntry, SiteType
    <3> QED
      BY <3>1, <3>2, <3>3
  <2> QED
    BY <1>4, <2>8, <2>9, <2>10 DEF Within, NextEntry
<1> QED
  BY <1>3, <1>4

(* A commit of another worker: what it takes from the index is no longer   *)
(* owed to a reader.                                                       *)
LEMMA CommitComplete ==
  ASSUME CompleteInv, SoundInv', NEW w \in Workers, Within(Commit(w))
  PROVE  CompleteInv'
<1>1. /\ task[w].at = "commit" /\ UNCHANGED <<reply, asked>>
      /\ Proceed(w, [at |-> "checkpoint", id |-> task[w].id, done |-> task[w].done])
  BY DEF Within, Commit, At, requestvars
<1>2. ReadOK(w)
  BY DEF CompleteInv, SoundInv
<1>3. ASSUME NEW v \in Workers PROVE ReadComplete(v)'
  <2>1. ReadOK(v) /\ ReadComplete(v)
    BY DEF CompleteInv, SoundInv
  <2>2. CASE v = w
    <3>1. task'[v].at = "checkpoint"
      BY <1>1, <2>2 DEF Proceed
    <3>2. reply[v] = NoReply
      BY <1>1, <2>1, <2>2 DEF ReadOK
    <3> QED
      BY <1>1, <3>1, <3>2 DEF ReadComplete, Answered, NoReply
  <2>3. CASE v # w /\ task[v].at = "scan"
    <3> DEFINE still == task[v].there \cap pointdb'
               t == [task[v] EXCEPT !.there = still]
    <3>1. task'[v] = t
      BY <1>1, <2>3 DEF Proceed
    <3>2. ScanOK(task[v], asked[v]) /\ ScanComplete(task[v], asked[v], pointdb) /\ reply[v] = NoReply
      BY <2>1, <2>3 DEF ReadOK, ReadComplete
    <3>3. PICK boxes, last, list, there, whole :
            task[v] = [at |-> "scan", boxes |-> boxes, last |-> last, list |-> list,
                       there |-> there, whole |-> whole]
      BY <3>2 DEF ScanOK
    <3>4. /\ t.boxes = task[v].boxes /\ t.last = task[v].last /\ t.list = task[v].list
          /\ t.there = still /\ t.whole = task[v].whole /\ t.at = "scan"
      BY <3>3
    <3> HIDE DEF t
    <3>5. still \subseteq task[v].there /\ still \subseteq pointdb'
      OBVIOUS
    <3> HIDE DEF still
    <3>6. ScanComplete(t, asked[v], pointdb')
      BY <3>2, <3>4, <3>5 DEF ScanComplete, Awaits
    <3>7. ~Answered(v)'
      BY <1>1, <3>2 DEF Answered, NoReply
    <3> QED
      BY <1>1, <3>1, <3>4, <3>6, <3>7 DEF ReadComplete
  <2>4. CASE v # w /\ task[v].at # "scan"
    <3>1. task'[v] = task[v]
      BY <1>1, <2>4 DEF Proceed
    <3> QED
      BY <1>1, <2>1, <2>4, <3>1 DEF ReadComplete, Answered
  <2> QED
    BY <2>2, <2>3, <2>4
<1> QED
  BY <1>3 DEF CompleteInv

LEMMA CompleteStep == CompleteInv /\ [GeoNext]_geovars => CompleteInv'
<1> SUFFICES ASSUME CompleteInv, [GeoNext]_geovars PROVE CompleteInv'
  OBVIOUS
<1>1. SoundInv'
  BY SoundStep DEF CompleteInv
<1>2. ASSUME UNCHANGED <<task, reply, asked, pointdb>>
      PROVE  CompleteInv'
  <2>1. \A w \in Workers : ReadComplete(w)'
    BY <1>2, SameComplete DEF CompleteInv
  <2> QED
    BY <1>1, <2>1 DEF CompleteInv
<1>3. CASE UNCHANGED geovars \/ \E w \in Workers : Refused(w)
  BY <1>2, <1>3 DEF geovars, backvars, dbvars, requestvars, Refused
<1>4. CASE Within(ChangeRole) \/ Within(OnDbEnent)
  BY <1>2, <1>4 DEF Within, ChangeRole, OnDbEnent, dbvars, requestvars
<1>5. CASE Within(Restart)
  <2>1. UNCHANGED <<task, reply, asked>> /\ ~alive
    BY <1>5 DEF Within, Restart, requestvars
  <2>2. \A w \in Workers : task[w] = Idle /\ reply[w] = NoReply
    BY <2>1 DEF CompleteInv, SoundInv, GeoInv, WorkerOK
  <2>3. \A w \in Workers : ReadComplete(w)'
    BY <2>1, <2>2 DEF ReadComplete, Answered, Idle, NoReply
  <2> QED
    BY <1>1, <2>3 DEF CompleteInv
<1>6. CASE End
  <2>1. task' = [w \in Workers |-> Idle] /\ reply' = [w \in Workers |-> NoReply]
    BY <1>6 DEF End, Crash, Die
  <2>2. \A w \in Workers : ReadComplete(w)'
    BY <2>1 DEF ReadComplete, Answered, Idle, NoReply
  <2> QED
    BY <1>1, <2>2 DEF CompleteInv
<1>7. ASSUME NEW w \in Workers,
             \/ NotGeo(w) \/ NotFound(w) \/ SaveInPart(w) \/ WriteReply(w) \/ AreaReturns(w)
      PROVE  CompleteInv'
  BY <1>1, <1>7, AnswerComplete
<1>8. ASSUME NEW w \in Workers, SavePoint(w) \/ Within(Put(w)) \/ SaveReturns(w)
      PROVE  CompleteInv'
  BY <1>1, <1>8, SaveComplete
<1>9. ASSUME NEW w \in Workers, ReadArea(w) \/ Within(NextEntry(w)) \/ Within(PgetFails(w))
      PROVE  CompleteInv'
  BY <1>1, <1>9, ReadingComplete
<1>10. ASSUME NEW w \in Workers, Within(Commit(w)) PROVE CompleteInv'
  BY <1>1, <1>10, CommitComplete
<1> QED
  BY <1>3, <1>4, <1>5, <1>6, <1>7, <1>8, <1>9, <1>10 DEF GeoNext

(* For an area between two corners on the globe, a reply that was read     *)
(* without an error holds every entry that was in the index from the first *)
(* to the last step of the reading and lies in the area for sure, once:    *)
(* wherever the points that are stored lie, and other areas that are read  *)
(* (on the globe or off it), whatever other workers save while the cursor  *)
(* walks, however the area is cut into boxes, and for coordinates of any   *)
(* width.                                                                  *)
THEOREM NothingMissed == GeoSpec => []AreaComplete
<1>1. CompleteInv => AreaComplete
  <2> SUFFICES ASSUME CompleteInv, NEW w \in Workers,
                      Answered(w) /\ reply[w].whole /\ OnGlobe(asked[w]),
                      NEW e \in reply[w].there, SurelyIn(e, asked[w])
               PROVE  Cardinality({i \in DOMAIN reply[w].list : reply[w].list[i].entry = e}) = 1
    BY DEF AreaComplete
  <2> DEFINE list == reply[w].list
             here == {i \in DOMAIN list : list[i].entry = e}
  <2>1. Lists(list, e) /\ Listed(list, asked[w])
    BY DEF CompleteInv, SoundInv, ReadComplete, ReadOK
  <2> HIDE DEF list
  <2>2. PICK i \in DOMAIN list : list[i].entry = e
    BY <2>1 DEF Lists
  <2>3. here = {i}
    BY <2>1, <2>2 DEF Listed
  <2>4. Cardinality({i}) = 1
    BY FS_Singleton
  <2> QED
    BY <2>3, <2>4 DEF list
<1>2. GeoInit => CompleteInv
  BY InitComplete
<1> QED
  BY <1>1, <1>2, CompleteStep, PTL DEF GeoSpec
=============================================================================
