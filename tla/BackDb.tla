--------------------------------- MODULE BackDb --------------------------------
(***************************************************************************)
(* CBackDb: points saved and areas read by the worker threads, over a      *)
(* replicated Berkeley DB whose threads report who is master.  GeoHttp     *)
(* makes the calls.                                                        *)
(*                                                                         *)
(* Of the database the module keeps what the code relies on: a put becomes *)
(* visible at its commit; the index pointdb is kept by associate; a cursor *)
(* without a transaction sees what is committed when it moves; each call   *)
(* may fail.  put and pget return their errors, the other calls throw      *)
(* DbException, which no worker catches: the process ends.                 *)
(*                                                                         *)
(* The environment was opened with DB_TXN_NOSYNC: a commit is not written  *)
(* to disk.  When the process ends, the recovery of the next start (the    *)
(* flag DB_RECOVER) finds the database as it was after some commit since   *)
(* the last checkpoint.                                                    *)
(***************************************************************************)
EXTENDS GeoFun

CONSTANTS
  Workers,   \* threads
  Ids,       \* ids of points
  Points,    \* [lat, lng] of points
  MaxStored, \* bound on the entries that earlier runs left
  MaxRoles,  \* bound on the changes of the master
  MaxStarts  \* bound on the restarts of the process

ASSUME PointsAssumption ==
  /\ Points \subseteq [lat : Float, lng : Float]
  /\ MaxStored \in Nat

VARIABLES
  master,    \* whether this site is the master
  events,    \* changes of role that OnDbEnent has not seen yet
  canwrite,
  opened,    \* CreateDbConnect succeeded: maindb and pointdb are not NULL
  maindb,    \* the primary: id -> key, for the ids saved
  pointdb,   \* the secondary: entries [key, id, place]
  entries,   \* history: how many entries it ever got
  since,     \* what the databases were since the last checkpoint
  safe,      \* history: ids that were saved before a checkpoint of their own
  task,      \* what each worker is doing
  alive,     \* the process runs
  roles, starts  \* how often, for the bounds

rolevars == <<master, events, canwrite, roles>>
dbvars == <<maindb, pointdb, entries, since, safe>>
runvars == <<opened, alive, starts>>
backvars == <<rolevars, dbvars, runvars, task>>

At(w, place) == alive /\ task[w].at = place
Idle == [at |-> "idle"]
NoEntry == [key |-> <<>>, id |-> 0, place |-> 0]
KeysOf(point) == {LongToByte(code) : code \in CombineForGeo(point.lat, point.lng)}
-----------------------------------------------------------------------------
Databases == [main |-> maindb, point |-> pointdb]

(* The environment was opened over what earlier runs left: their entries,  *)
(* in the order in which they were made, and each id's record, which need  *)
(* not be what its newest entry says (see Reindexed).  canwrite is false   *)
(* until the first event.                                                  *)
Init ==
  /\ master = FALSE
  /\ events = <<>>
  /\ canwrite = FALSE
  /\ entries \in 0..MaxStored
  /\ \E old \in [1..entries -> [id : Ids, key : UNION {KeysOf(point) : point \in Points}]] :
       /\ pointdb = {[key |-> old[i].key, id |-> old[i].id, place |-> i] : i \in 1..entries}
       /\ maindb \in [{e.id : e \in pointdb} -> {e.key : e \in pointdb}]
       /\ \A id \in DOMAIN maindb : \E e \in pointdb : e.id = id /\ e.key = maindb[id]
  /\ since = {Databases}
  /\ safe = {}
  /\ opened \in BOOLEAN
  /\ task = [w \in Workers |-> Idle]
  /\ alive = TRUE
  /\ roles = 0 /\ starts = 0

(* An election, in the replication threads. *)
ChangeRole ==
  /\ alive
  /\ roles < MaxRoles
  /\ roles' = roles + 1
  /\ master' = ~master
  /\ events' = Append(events, master')
  /\ UNCHANGED <<canwrite, dbvars, runvars, task>>

(* DB_EVENT_REP_MASTER and DB_EVENT_REP_CLIENT; the others are ignored. *)
OnDbEnent ==
  /\ alive
  /\ events # <<>>
  /\ events' = Tail(events)
  /\ canwrite' = Head(events)
  /\ UNCHANGED <<master, roles, dbvars, runvars, task>>
-----------------------------------------------------------------------------
(* The end of the process.  The databases on disk are all that is left. *)

Die ==
  /\ alive' = FALSE
  /\ task' = [w \in Workers |-> Idle]
  /\ opened' = FALSE
  /\ master' = FALSE /\ events' = <<>> /\ canwrite' = FALSE
  /\ UNCHANGED <<dbvars, roles, starts>>

(* txn_begin, commit, txn_checkpoint or cursor throws. *)
Throw(w) == At(w, "put") \/ At(w, "commit") \/ At(w, "checkpoint") \/ At(w, "scan")

(* The assertions of ReadAreaPoint, and of operator-> for a database that  *)
(* could not be opened.                                                    *)
Assertion(w) ==
  \/ At(w, "failed")
  \/ ~opened /\ (At(w, "put") \/ (At(w, "scan") /\ task[w].boxes # <<>>))

Crash == alive /\ Die

Restart ==
  /\ ~alive
  /\ starts < MaxStarts
  /\ starts' = starts + 1
  /\ alive' = TRUE
  /\ opened' \in BOOLEAN
  /\ \E found \in since :
       maindb' = found.main /\ pointdb' = found.point /\ since' = {found}
  /\ UNCHANGED <<rolevars, entries, safe, task>>
-----------------------------------------------------------------------------
(* AddPoint. *)

(* The early return of a site that may not write. *)
CannotWrite(w) ==
  /\ At(w, "idle")
  /\ ~canwrite
  /\ UNCHANGED backvars

AddPoint(w, id, point) ==
  /\ At(w, "idle")
  /\ canwrite
  /\ \E key \in KeysOf(point) :
       task' = [task EXCEPT ![w] = [at |-> "put", id |-> id, key |-> key]]
  /\ UNCHANGED <<rolevars, dbvars, runvars>>

(* The result of put is not looked at.  Two transactions do not hold the   *)
(* same record, and only the master's writes succeed.                      *)
Put(w) ==
  /\ At(w, "put") /\ opened
  /\ \E done \in BOOLEAN :
       /\ done => /\ master
                  /\ \A v \in Workers : ~( /\ task[v].at = "commit" /\ task[v].done
                                           /\ task[v].id = task[w].id)
       /\ task' = [task EXCEPT ![w] =
            [at |-> "commit", id |-> task[w].id, key |-> task[w].key, done |-> done]]
  /\ UNCHANGED <<rolevars, dbvars, runvars>>

(* A new entry comes after those that the index holds under its key: they  *)
(* are not sorted (DB_DUP without DB_DUPSORT).                             *)
NewEntry(id, key) == [key |-> key, id |-> id, place |-> entries + 1]

(* Faulty variant of Reindexed: an id's entry goes, and none comes. *)
ReindexedLost(id, key) == {{e \in pointdb : e.id # id}}

(* What the index may become.  associate was told that its key never       *)
(* changes (DB_IMMUTABLE_KEY), and it does: when an id that is stored      *)
(* already is saved elsewhere, the index may follow, or stay as it is, or  *)
(* keep what it has and get the new entry too.                             *)
Reindexed(id, key) ==
  LET new == NewEntry(id, key)
  IN {{e \in pointdb : e.id # id} \cup {new}}
     \cup IF id \in DOMAIN maindb THEN {pointdb, pointdb \cup {new}} ELSE {}

(* (The readers keep account of the entries that stay, see Scan.) *)
Proceed(w, next) ==
  task' = [v \in Workers |->
    IF v = w THEN next
    ELSE IF task[v].at = "scan" THEN [task[v] EXCEPT !.there = @ \cap pointdb']
    ELSE task[v]]

(* Faulty variants of Commit: left out, so that the destructor of txn      *)
(* aborts it; and after the checkpoint.                                    *)
CommitForgotten(w) ==
  /\ At(w, "commit")
  /\ task' = [task EXCEPT ![w] = [at |-> "checkpoint", id |-> @.id, done |-> @.done]]
  /\ UNCHANGED <<rolevars, dbvars, runvars>>

CommitAfterCheckpoint(w) ==
  /\ At(w, "commit") /\ task[w].done
  /\ LET id == task[w].id
         key == task[w].key
     IN /\ maindb' = [i \in DOMAIN maindb \cup {id} |-> IF i = id THEN key ELSE maindb[i]]
        /\ pointdb' \in Reindexed(id, key)
        /\ entries' = entries + 1
        /\ since' = {Databases, Databases'}
        /\ safe' = safe \cup {id}
        /\ Proceed(w, [at |-> "checkpoint", id |-> id, done |-> TRUE])
  /\ UNCHANGED <<rolevars, runvars>>

Commit(w) ==
  /\ At(w, "commit")
  /\ LET id == task[w].id
         key == task[w].key
     IN /\ IF task[w].done
           THEN /\ maindb' = [i \in DOMAIN maindb \cup {id} |->
                               IF i = id THEN key ELSE maindb[i]]
                /\ pointdb' \in Reindexed(id, key)
                /\ entries' = entries + 1
                /\ since' = since \cup {Databases'}
           ELSE UNCHANGED <<maindb, pointdb, entries, since>>
        /\ Proceed(w, [at |-> "checkpoint", id |-> id, done |-> task[w].done])
  /\ UNCHANGED <<rolevars, runvars, safe>>

(* txn_checkpoint does something only where there is enough log, or enough *)
(* time has passed.  Then AddPoint returns.                                *)
Checkpoint(w) ==
  /\ At(w, "checkpoint")
  /\ \/ UNCHANGED <<since, safe>>
     \/ /\ since' = {Databases}
        /\ safe' = safe \cup IF task[w].done THEN {task[w].id} ELSE {}
  /\ task' = [task EXCEPT ![w] = Idle]
  /\ UNCHANGED <<rolevars, runvars, maindb, pointdb, entries>>
-----------------------------------------------------------------------------
(* ReadAreaPoint. *)

(* Faulty variant of Boxes: an area across the zero meridian is one box. *)
BoxesWhole(a) == <<a>>

(* lngmin * lngmax >= 0: zero times infinity is not a number. *)
SameSide(x, y) ==
  /\ NaN \notin {x, y}
  /\ ~(0 \in {x, y} /\ {x, y} \cap {Infinity, -Infinity} # {})
  /\ x * y >= 0

(* The areas _ReadAreaPoint is called for: one on each side of the zero    *)
(* meridian, or around the back of the globe where that is shorter.        *)
Boxes(a) ==
  IF SameSide(a.lngmin, a.lngmax) THEN <<a>>
  ELSE IF FloatSum(a.lngmax - a.lngmin) < HalfLng
  THEN <<[a EXCEPT !.lngmax = 0], [a EXCEPT !.lngmin = 0]>>
  ELSE <<[a EXCEPT !.lngmin = -HalfLng, !.lngmax = a.lngmin],
         [a EXCEPT !.lngmin = a.lngmax, !.lngmax = HalfLng]>>

(* The codes from which and up to which a box is walked. *)
Coded(box) ==
  {[latmin |-> box.latmin, latmax |-> box.latmax, lngmin |-> box.lngmin, lngmax |-> box.lngmax,
    minpos |-> minpos, maxpos |-> maxpos] :
     minpos \in CombineForGeo(box.latmin, box.lngmin),
     maxpos \in CombineForGeo(box.latmax, box.lngmax)}
Walks(boxes) ==
  {walk \in [DOMAIN boxes -> UNION {Coded(boxes[k]) : k \in DOMAIN boxes}] :
     \A k \in DOMAIN boxes : walk[k] \in Coded(boxes[k])}

(* there (the entries that were in the index all the time) and whole (no   *)
(* pget failed) are history.                                               *)
Scan(boxes) == [at |-> "scan", boxes |-> boxes, last |-> NoEntry, list |-> <<>>,
                there |-> pointdb, whole |-> TRUE]
Failed == [at |-> "failed"]

(* The assertion that the corners are in order, and then the boxes. *)
ReadAreaPoint(w, a) ==
  /\ At(w, "idle")
  /\ IF AtMost(a.lngmin, a.lngmax)
     THEN \E boxes \in Walks(Boxes(a)) : task' = [task EXCEPT ![w] = Scan(boxes)]
     ELSE task' = [task EXCEPT ![w] = Failed]
  /\ UNCHANGED <<rolevars, dbvars, runvars>>

(* The order of a cursor: of one key, the entry that came first. *)
Follows(e, last) ==
  KeyBefore(last.key, e.key) \/ (e.key = last.key /\ e.place > last.place)

(* Faulty variant of Ahead: DB_NEXT_NODUP for DB_NEXT. *)
AheadNoDup(box, last) ==
  IF last = NoEntry
  THEN {e \in pointdb : ~KeyBefore(e.key, LongToByte(box.minpos))}
  ELSE {e \in pointdb : KeyBefore(last.key, e.key)}

(* What DB_SET_RANGE and then DB_NEXT may find. *)
Ahead(box, last) ==
  IF last = NoEntry
  THEN {e \in pointdb : ~KeyBefore(e.key, LongToByte(box.minpos))}
  ELSE {e \in pointdb : Follows(e, last)}
First(found) == CHOOSE e \in found : \A f \in found \ {e} : Follows(f, e)

Inside(gp, box) ==
  /\ Less(box.lngmin, gp.lng) /\ Less(gp.lng, box.lngmax)
  /\ Less(box.latmin, gp.lat) /\ Less(gp.lat, box.latmax)

Scanning(w) == At(w, "scan") /\ opened /\ task[w].boxes # <<>>
EndBox(w, whole) ==
  task' = [task EXCEPT ![w].boxes = Tail(@), ![w].last = NoEntry, ![w].whole = @ /\ whole]

(* One round of the loop: the next entry, or the end of the box.           *)
NextEntry(w) ==
  /\ Scanning(w)
  /\ LET box == Head(task[w].boxes)
         ahead == Ahead(box, task[w].last)
     IN \/ ahead = {} /\ EndBox(w, TRUE)
        \/ /\ ahead # {}
           /\ LET e == First(ahead)
                  pos == ByteToLong(e.key)
                  gp == SplitForGeo(pos)
              IN IF pos > box.maxpos THEN EndBox(w, TRUE)
                 ELSE task' = [task EXCEPT ![w].last = e,
                        ![w].list = IF Inside(gp, box) THEN Append(@, [entry |-> e, point |-> gp])
                                    ELSE @]
  /\ UNCHANGED <<rolevars, dbvars, runvars>>

(* Every error of pget ends the box like DB_NOTFOUND. *)
PgetFails(w) ==
  /\ Scanning(w)
  /\ EndBox(w, FALSE)
  /\ UNCHANGED <<rolevars, dbvars, runvars>>

(* ReadAreaPoint returns. *)
Return(w) ==
  /\ At(w, "scan")
  /\ task[w].boxes = <<>>
  /\ task' = [task EXCEPT ![w] = Idle]
  /\ UNCHANGED <<rolevars, dbvars, runvars>>
-----------------------------------------------------------------------------
(* Every id that is stored is found through the index too, once or more    *)
(* often, and the entries of the index are told apart by their places.     *)
TypeOK ==
  /\ master \in BOOLEAN /\ canwrite \in BOOLEAN /\ alive \in BOOLEAN /\ opened \in BOOLEAN
  /\ DOMAIN maindb \subseteq Ids
  /\ {e.id : e \in pointdb} = DOMAIN maindb
  /\ \A e \in pointdb : e.place \in 1..entries
  /\ \A e, f \in pointdb : e.place = f.place => e = f
  /\ \A w \in Workers :
       task[w].at \in {"idle", "put", "commit", "checkpoint", "scan", "failed"}
  /\ Databases \in since
  /\ safe \subseteq Ids

(* A save whose own AddPoint went on to a checkpoint survives any end of   *)
(* the process; those that were only committed, and answered, may be lost  *)
(* (BackDb.cpp:61, 170-173).                                               *)
CheckpointedSurvives == safe \subseteq DOMAIN maindb
=============================================================================
