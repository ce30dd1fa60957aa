--------------------------------- MODULE GeoHttp -------------------------------
(***************************************************************************)
(* GeoHttpTask: what the workers do with a request, from the uri to the    *)
(* reply, over the database of BackDb.                                     *)
(*                                                                         *)
(* A request is what HttpRequest and UriSplit make of it: its kind, and    *)
(* for a point or an area the numbers of its parameters.  A parameter that *)
(* is missing reads as 0.  ProcessRequest is called for one request at a   *)
(* time by each worker.  The version that the head of a reply repeats is   *)
(* never empty, because a uri is only set together with one.               *)
(***************************************************************************)
EXTENDS BackDb

CONSTANTS
  Areas,     \* [lat1, lng1, lat2, lng2] that clients ask for
  MaxSaves,  \* bound on the requests that save a point
  MaxOthers  \* bound on the other requests

ASSUME AreasAssumption ==
  Areas \subseteq [lat1 : Float, lng1 : Float, lat2 : Float, lng2 : Float]

VARIABLES
  asked,         \* the area that each worker's request asks for
  reply,         \* what each worker is about to write
  saves, others  \* how often, for the bounds

requestvars == <<asked, saves, others>>
geovars == <<backvars, requestvars, reply>>

NoArea == [lat1 |-> 0, lng1 |-> 0, lat2 |-> 0, lng2 |-> 0]
NoReply == [code |-> 0]
Content == {"none", "insertOk", "notEnoughParam", "data"}

GeoInit ==
  /\ Init
  /\ asked = [w \in Workers |-> NoArea]
  /\ reply = [w \in Workers |-> NoReply]
  /\ saves = 0 /\ others = 0

Free(w) == At(w, "idle") /\ reply[w] = NoReply
Save == saves < MaxSaves /\ saves' = saves + 1 /\ UNCHANGED <<asked, others>>
Other == others < MaxOthers /\ others' = others + 1 /\ UNCHANGED saves
Say(w, said) == reply' = [reply EXCEPT ![w] = said]
-----------------------------------------------------------------------------
(* The uri is refused, or has fewer than two parts: 404 is noted, and      *)
(* ProcessRequest returns before anything is written.                      *)
Refused(w) ==
  /\ Free(w)
  /\ Other
  /\ UNCHANGED <<backvars, asked, reply>>

(* What needs no database: a path outside geo, a geo path that is neither  *)
(* save nor area, and a save that lacks a parameter.                       *)
Plain(w, code, content) ==
  /\ Free(w)
  /\ Other
  /\ Say(w, [code |-> code, content |-> content])
  /\ UNCHANGED <<backvars, asked>>
NotGeo(w) == Plain(w, 200, "none")
NotFound(w) == Plain(w, 404, "none")
SaveInPart(w) == Plain(w, 500, "notEnoughParam")

(* (Which point was to be saved, and what became of it, are history.)      *)
InsertOk(id, done) == [code |-> 200, content |-> "insertOk", id |-> id, done |-> done]

SavePoint(w) ==
  /\ Free(w)
  /\ Save
  /\ \E id \in Ids :
       \/ \E point \in Points : AddPoint(w, id, point) /\ UNCHANGED reply
       \/ CannotWrite(w) /\ Say(w, InsertOk(id, FALSE))

SaveReturns(w) ==
  /\ Checkpoint(w)
  /\ Say(w, InsertOk(task[w].id, task[w].done))
  /\ UNCHANGED requestvars

(* MIN and MAX of sys/param.h. *)
MIN(a, b) == IF Less(a, b) THEN a ELSE b
MAX(a, b) == IF Less(b, a) THEN a ELSE b

Corners(r) ==
  [latmin |-> MIN(r.lat1, r.lat2), latmax |-> MAX(r.lat1, r.lat2),
   lngmin |-> MIN(r.lng1, r.lng2), lngmax |-> MAX(r.lng1, r.lng2)]

ReadArea(w) ==
  /\ Free(w)
  /\ Other
  /\ \E r \in Areas :
       /\ asked' = [asked EXCEPT ![w] = r]
       /\ ReadAreaPoint(w, Corners(r))
  /\ UNCHANGED reply

AreaReturns(w) ==
  /\ Return(w)
  /\ Say(w, [code |-> 200, content |-> "data", list |-> task[w].list,
             there |-> task[w].there, whole |-> task[w].whole])
  /\ UNCHANGED requestvars

(* WriteOut of the head and the content. *)
WriteReply(w) ==
  /\ alive
  /\ reply[w] # NoReply
  /\ Say(w, NoReply)
  /\ asked' = [asked EXCEPT ![w] = NoArea]
  /\ UNCHANGED <<backvars, saves, others>>

(* Within AddPoint and ReadAreaPoint, and around them. *)
Within(step) == step /\ UNCHANGED <<requestvars, reply>>
End ==
  /\ Crash \/ \E w \in Workers : (Throw(w) \/ Assertion(w)) /\ Die
  /\ reply' = [w \in Workers |-> NoReply]
  /\ asked' = [w \in Workers |-> NoArea]
  /\ UNCHANGED <<saves, others>>

GeoNext ==
  \/ \E w \in Workers :
       \/ Refused(w) \/ NotGeo(w) \/ NotFound(w) \/ SaveInPart(w)
       \/ SavePoint(w) \/ SaveReturns(w) \/ ReadArea(w) \/ AreaReturns(w)
       \/ WriteReply(w)
       \/ Within(Put(w)) \/ Within(Commit(w))
       \/ Within(NextEntry(w)) \/ Within(PgetFails(w))
  \/ Within(ChangeRole) \/ Within(OnDbEnent) \/ Within(Restart)
  \/ End

GeoSpec == GeoInit /\ [][GeoNext]_geovars
-----------------------------------------------------------------------------
(* Of the types it is the index and the assertion of ReadAreaPoint that    *)
(* could be wrong: see TypeOK, and the assertion fails for exactly the     *)
(* areas whose second longitude is not a number (HttpGeoDb.cpp:67-74).     *)
GeoTypeOK ==
  /\ TypeOK
  /\ asked \in [Workers -> Areas \cup {NoArea}]
  /\ \A w \in Workers : reply[w] # NoReply =>
       reply[w].code \in {200, 404, 500} /\ reply[w].content \in Content
  /\ \A w \in Workers :
       /\ task[w].at = "failed" => asked[w].lng2 = NaN
       /\ task[w].at = "scan" => asked[w].lng2 # NaN

(* "insert ok" is never written before the point is stored, in the records *)
(* and in the index, unless the put failed or the site might not write     *)
(* (HttpGeoDb.cpp:59-61, BackDb.cpp:154-174).                              *)
OkMeansStored ==
  \A w \in Workers :
    reply[w].code # 0 /\ reply[w].content = "insertOk" /\ reply[w].done =>
      /\ reply[w].id \in DOMAIN maindb
      /\ \E e \in pointdb : e.id = reply[w].id

(* The area between two corners, in whatever order they are given: the     *)
(* shorter way around the globe, or where that crosses the zero meridian   *)
(* and is longer than half of it, the way around the back.                 *)
Between(x, a, b) == (a < x /\ x < b) \/ (b < x /\ x < a)
Across(r) == r.lng1 * r.lng2 < 0
Wide(r) ==
  LET way == IF r.lng1 < r.lng2 THEN r.lng2 - r.lng1 ELSE r.lng1 - r.lng2
  IN Across(r) /\ FloatSum(way) >= HalfLng
InArea(p, r) ==
  /\ Between(p.lat, r.lat1, r.lat2)
  /\ IF Wide(r)
     THEN /\ -HalfLng < p.lng /\ p.lng < HalfLng
          /\ ~Between(p.lng, r.lng1, r.lng2) /\ p.lng \notin {r.lng1, r.lng2}
     ELSE Between(p.lng, r.lng1, r.lng2)
OnGlobe(r) ==
  /\ {r.lat1, r.lat2} \subseteq (-HalfLat)..HalfLat
  /\ {r.lng1, r.lng2} \subseteq (-HalfLng)..HalfLng

(* An entry lies in an area for sure where it does both as SplitForGeo     *)
(* rounds it and as it was stored, a step of a float sum to either side    *)
(* included; and in an area across the zero meridian, if it lies on one    *)
(* side of that: the meridian itself is the border of two boxes.           *)
Rounded(e) == SplitForGeo(ByteToLong(e.key))
Near(e) ==
  LET units == Split(ByteToLong(e.key))
      aside == {-SumStep, 0, SumStep}
  IN {[lat |-> units.first * Grain - HalfLat + north,
       lng |-> units.second * Grain - HalfLng + east] : north \in aside, east \in aside}
SurelyIn(e, r) ==
  LET spots == Near(e) \cup {Rounded(e)}
  IN /\ \A p \in spots : InArea(p, r)
     /\ Across(r) => (\A p \in spots : p.lng < 0) \/ (\A p \in spots : p.lng > 0)

Answered(w) == reply[w].code # 0 /\ reply[w].content = "data"

(* For an area between two corners on the globe, a reply that was read     *)
(* without an error holds every entry that was in the index from the first *)
(* to the last step of the reading and lies in the area for sure, once,    *)
(* whatever other workers saved meanwhile and wherever those points lie    *)
(* (HttpGeoDb.cpp:67-90, BackDb.cpp:176-227).  An id that moved during the *)
(* reading has no such entry, and may be missing.                          *)
AreaComplete ==
  \A w \in Workers : Answered(w) /\ reply[w].whole /\ OnGlobe(asked[w]) =>
    \A e \in reply[w].there :
      SurelyIn(e, asked[w]) =>
        Cardinality({i \in DOMAIN reply[w].list : reply[w].list[i].entry = e}) = 1

(* No entry is listed twice, and what is listed lies in the area that was  *)
(* asked for, however it was cut into boxes, on the globe or off it, unless *)
(* a longitude is infinite: 0 times infinity makes an area from the zero   *)
(* meridian to the east, to infinity, one of the west.  An id may well be  *)
(* listed twice: where its old entry stayed in the index, or where it was  *)
(* moved away and back, behind the cursor, during the reading              *)
(* (BackDb.cpp:131-138, 176-227).                                          *)
Finite(r) == {r.lng1, r.lng2} \cap {Infinity, -Infinity} = {}
AreaSound ==
  \A w \in Workers : Answered(w) =>
    \A i, j \in DOMAIN reply[w].list :
      /\ Finite(asked[w]) => InArea(reply[w].list[i].point, asked[w])
      /\ reply[w].list[i].entry = reply[w].list[j].entry => i = j
=============================================================================
