--------------------------- MODULE HttpRequestProofs ---------------------------
(***************************************************************************)
(* Proofs about HttpRequest, for any messages, cut anywhere, for lines,    *)
(* buffers and replies of any length.                                      *)
(*                                                                         *)
(* RepliesInOrder speaks of what was handed over in all.  The invariant    *)
(* says what the next buffer rests on: the buffers handed over carry the   *)
(* bytes without a gap, the pending one begins where they end, and what    *)
(* WriteOut has left to write is all that is missing.  That datainput      *)
(* keeps nothing back when it returns follows from this and from where the *)
(* task is.                                                                *)
(*                                                                         *)
(* The stream is the messages one after the other, by FlattenSeq, which is *)
(* a recursive function: that it is a sequence at all is proved first, by  *)
(* the least natural number for which it would not be.                     *)
(*                                                                         *)
(* ServedAsSent compares what is served with what was sent.  Its           *)
(* invariant, SentInv, says that the first n messages are served and that  *)
(* the parser is in the next one, behind some lines and bytes of its head  *)
(* or some bytes of its body, and has made of them what reading them at    *)
(* once makes: nothing is left of the request before but torecvbody, which *)
(* is written before it is used.                                           *)
(*                                                                         *)
(* The second half is about UriSplit, for uris of any length and whatever  *)
(* characters.  EndsInside and RefusedForCause say where a walk over a C   *)
(* string may stand.  So the invariant is that what a loop has left behind *)
(* it holds no terminator, and for HttpDecodeUri, that only the three      *)
(* characters of an escape can carry the walk over one.                    *)
(*                                                                         *)
(* FormRead compares the two decoders with what the client wrote.  Its     *)
(* invariant, FormInv, says of each loop that it stands in the text of the *)
(* form behind as much as it has of the part it reads, and that the parts  *)
(* before are stored as the form means them.  The texts are pieces joined  *)
(* by FlattenSeq; where a piece lies in them follows from its recursion.   *)
(***************************************************************************)
EXTENDS HttpRequest, UriSplit, SequenceTheorems, WellFoundedInduction, TLAPS

(* A byte.  (The provers do not know that "nl" is a string.)               *)
AnyByte == STRING \cup {"nl"}

(* Where the parser is in the stream: rest is what follows pos.            *)
StreamOK ==
  /\ msgs \in Seq(Messages \cup Lasts)
  /\ pos \in Nat /\ start \in 0..pos
  /\ rest \in Seq(AnyByte)
  /\ pos + Len(rest) <= Len(stream)
  /\ \A i \in 1..Len(rest) : rest[i] = stream[pos + i]

RequestOK(r) ==
  /\ r = [state |-> r.state, act |-> r.act, uri |-> r.uri, vision |-> r.vision,
          headmap |-> r.headmap, headlines |-> r.headlines, inputbuffer |-> r.inputbuffer,
          body |-> r.body, torecvbody |-> r.torecvbody, resault |-> r.resault]
  /\ r.state \in {"RecvFirstLine", "RecvBody"}
  /\ r.inputbuffer \in Seq(AnyByte) /\ Len(r.inputbuffer) <= MaxLine + 1
  /\ r.torecvbody \in Int

TaskOK ==
  /\ tpc \in {"idle", "input", "reply"}
  /\ RequestOK(request)
  /\ tpc # "reply" => request.resault = FALSE /\ len = 0

(* The buffers of a sequence carry bytes one after the other, from the     *)
(* first one, as far as EndOf.                                             *)
Chunk == [first : Nat \ {0}, datalen : 1..BufLen]
EndOf(buffers) ==
  IF buffers = <<>> THEN 0
  ELSE buffers[Len(buffers)].first + buffers[Len(buffers)].datalen - 1
Gapless(buffers) ==
  /\ buffers \in Seq(Chunk)
  /\ \A i \in DOMAIN buffers :
       buffers[i].first = IF i = 1 THEN 1 ELSE buffers[i - 1].first + buffers[i - 1].datalen

ReplyOK ==
  /\ len \in 0..ReplyLen /\ written \in Nat
  /\ Gapless(handed)
  /\ Pending => writeoutbuffer \in Chunk /\ writeoutbuffer.first = EndOf(handed) + 1
  /\ written - len = IF Pending THEN writeoutbuffer.first + writeoutbuffer.datalen - 1
                     ELSE EndOf(handed)
  /\ tpc = "idle" => ~Pending

RequestInv == StreamOK /\ TaskOK /\ ReplyOK
-----------------------------------------------------------------------------

(* Every set of natural numbers that is not empty has a least member: what *)
(* the inductions below rest on.                                           *)
LEMMA LeastMember ==
  ASSUME NEW T \in SUBSET Nat, T # {}
  PROVE  \E m \in T : \A n \in T : m <= n
<1> DEFINE R == {ss \in Nat \X Nat : ss[1] < ss[2]}
<1>1. IsWellFoundedOn(R, Nat)
  BY NatLessThanWellFounded DEF OpToRel
<1>2. \A m, n \in Nat : <<n, m>> \in R <=> n < m
  OBVIOUS
<1> HIDE DEF R
<1>3. T \subseteq Nat
  OBVIOUS
<1>4. \E m \in T : \A n \in T : ~(<<n, m>> \in R)
  BY <1>1, <1>3, WFMin
<1>5. PICK m \in T : \A n \in T : ~(<<n, m>> \in R)
  BY <1>4
<1>6. ASSUME NEW n \in T PROVE m <= n
  <2>1. m \in Nat /\ n \in Nat /\ ~(n < m)
    BY <1>2, <1>3, <1>5
  <2> QED
    BY <2>1
<1> QED
  BY <1>6

(* The recursion of FlattenSeq, as far as n.                               *)
Joins(f, ss, n) ==
  f = [i \in 1..n |-> IF i = 1 THEN ss[i] ELSE f[i - 1] \o ss[i]]

LEMMA JoinsAt ==
  ASSUME NEW f, NEW ss, NEW n \in Nat, Joins(f, ss, n), NEW i \in 1..n
  PROVE  f[i] = IF i = 1 THEN ss[i] ELSE f[i - 1] \o ss[i]
BY DEF Joins

LEMMA JoinsOneMore ==
  ASSUME NEW f, NEW ss, NEW n \in Nat, Joins(f, ss, n)
  PROVE  \E g : Joins(g, ss, n + 1)
<1> DEFINE last == IF n = 0 THEN ss[1] ELSE f[n] \o ss[n + 1]
           g == [i \in 1..(n + 1) |-> IF i <= n THEN f[i] ELSE last]
<1>1. ASSUME NEW i \in 1..(n + 1)
      PROVE  g[i] = IF i = 1 THEN ss[i] ELSE g[i - 1] \o ss[i]
  <2>1. CASE i <= n
    <3>1. i \in 1..n
      BY <2>1
    <3>2. f[i] = IF i = 1 THEN ss[i] ELSE f[i - 1] \o ss[i]
      BY <3>1, JoinsAt
    <3>3. i = 1 \/ i - 1 \in 1..n
      BY <3>1
    <3> QED
      BY <2>1, <3>1, <3>2, <3>3
  <2>2. CASE i = n + 1
    <3>1. g[i] = last
      BY <2>2
    <3>2. n = 0 \/ (n \in 1..n /\ g[n] = f[n])
      OBVIOUS
    <3> QED
      BY <2>2, <3>1, <3>2
  <2> QED
    BY <2>1, <2>2
<1>2. g = [i \in 1..(n + 1) |-> g[i]]
  OBVIOUS
<1> HIDE DEF g
<1>3. Joins(g, ss, n + 1)
  BY <1>1, <1>2 DEF Joins
<1> QED
  BY <1>3

LEMMA JoinsExists ==
  ASSUME NEW ss, NEW n \in Nat
  PROVE  \E f : Joins(f, ss, n)
<1> DEFINE Bad == {k \in Nat : \A f : ~Joins(f, ss, k)}
<1> SUFFICES ASSUME Bad # {} PROVE FALSE
  OBVIOUS
<1>1. Bad \in SUBSET Nat
  OBVIOUS
<1>2. PICK m \in Bad : \A k \in Bad : m <= k
  <2> HIDE DEF Bad
  <2> QED
    BY <1>1, LeastMember
<1>3. Joins([i \in 1..0 |-> 0], ss, 0)
  BY DEF Joins
<1>4. m \in Nat /\ m # 0
  BY <1>3
<1>5. m - 1 \in Nat /\ m - 1 \notin Bad
  BY <1>2, <1>4
<1>6. PICK f : Joins(f, ss, m - 1)
  BY <1>5
<1>7. \E g : Joins(g, ss, m - 1 + 1)
  BY <1>5, <1>6, JoinsOneMore
<1>8. m - 1 + 1 = m
  BY <1>4
<1> QED
  BY <1>7, <1>8

LEMMA JoinsType ==
  ASSUME NEW S, NEW ss \in Seq(Seq(S)), NEW f, Joins(f, ss, Len(ss))
  PROVE  \A i \in 1..Len(ss) : f[i] \in Seq(S)
<1> DEFINE Bad == {i \in 1..Len(ss) : f[i] \notin Seq(S)}
<1> SUFFICES ASSUME Bad # {} PROVE FALSE
  OBVIOUS
<1>1. Bad \in SUBSET Nat
  OBVIOUS
<1>2. PICK i \in Bad : \A k \in Bad : i <= k
  <2> HIDE DEF Bad
  <2> QED
    BY <1>1, LeastMember
<1>3. i \in 1..Len(ss) /\ Len(ss) \in Nat /\ ss[i] \in Seq(S)
  BY ElementOfSeq
<1>4. f[i] = IF i = 1 THEN ss[i] ELSE f[i - 1] \o ss[i]
  BY <1>3, JoinsAt
<1>5. CASE i = 1
  BY <1>3, <1>4, <1>5
<1>6. CASE i # 1
  <2>1. i - 1 \in 1..Len(ss) /\ i - 1 \notin Bad
    BY <1>2, <1>3, <1>6
  <2>2. f[i - 1] \in Seq(S)
    BY <2>1
  <2>3. f[i - 1] \o ss[i] \in Seq(S)
    BY <1>3, <2>2, ConcatProperties
  <2> QED
    BY <1>4, <1>6, <2>3
<1> QED
  BY <1>5, <1>6

LEMMA FlattenType ==
  ASSUME NEW S, NEW ss \in Seq(Seq(S))
  PROVE  FlattenSeq(ss) \in Seq(S)
<1>1. CASE Len(ss) = 0
  <2>1. ss = <<>>
    BY <1>1, EmptySeq
  <2> QED
    BY <1>1, <2>1 DEF FlattenSeq
<1>2. CASE Len(ss) # 0
  <2> DEFINE f == CHOOSE f : Joins(f, ss, Len(ss))
  <2>1. \E g : Joins(g, ss, Len(ss))
    BY LenProperties, JoinsExists
  <2>2. Joins(f, ss, Len(ss))
    BY <2>1
  <2>3. FlattenSeq(ss) = f[Len(ss)]
    BY <1>2 DEF FlattenSeq, Joins
  <2> HIDE DEF f
  <2>4. f[Len(ss)] \in Seq(S)
    BY <1>2, <2>2, JoinsType
  <2> QED
    BY <2>3, <2>4
<1> QED
  BY <1>1, <1>2
(* FlattenSeq as far as k, piece by piece. *)
Upto(ss, k) == FlattenSeq(SubSeq(ss, 1, k))

LEMMA JoinsAgree ==
  ASSUME NEW ss, NEW tt, NEW m \in Nat, NEW n \in Nat, NEW f, NEW g,
         Joins(f, ss, m), Joins(g, tt, n), n <= m,
         \A i \in 1..n : ss[i] = tt[i]
  PROVE  \A i \in 1..n : f[i] = g[i]
<1> DEFINE Bad == {i \in 1..n : f[i] # g[i]}
<1> SUFFICES ASSUME Bad # {} PROVE FALSE
  OBVIOUS
<1>1. PICK i \in Bad : \A j \in Bad : i <= j
  <2>1. Bad \in SUBSET Nat
    OBVIOUS
  <2> HIDE DEF Bad
  <2> QED
    BY <2>1, LeastMember
<1>2. i \in 1..n /\ i \in 1..m /\ f[i] # g[i]
  BY <1>1
<1>3. f[i] = IF i = 1 THEN ss[i] ELSE f[i - 1] \o ss[i]
  BY <1>2, JoinsAt
<1>4. g[i] = IF i = 1 THEN tt[i] ELSE g[i - 1] \o tt[i]
  BY <1>2, JoinsAt
<1>5. i # 1 => f[i - 1] = g[i - 1]
  <2>1. i # 1 => i - 1 \in 1..n /\ i - 1 \notin Bad
    BY <1>1, <1>2
  <2> QED
    BY <2>1
<1> QED
  BY <1>2, <1>3, <1>4, <1>5

LEMMA FlattenJoins ==
  ASSUME NEW ss, Len(ss) \in Nat \ {0}
  PROVE  \E f : Joins(f, ss, Len(ss)) /\ FlattenSeq(ss) = f[Len(ss)]
<1> DEFINE f == CHOOSE f : Joins(f, ss, Len(ss))
<1>1. \E g : Joins(g, ss, Len(ss))
  BY JoinsExists
<1>2. Joins(f, ss, Len(ss))
  BY <1>1
<1>3. FlattenSeq(ss) = f[Len(ss)]
  BY DEF FlattenSeq, Joins
<1> QED
  BY <1>2, <1>3

LEMMA UptoJoins ==
  ASSUME NEW S, NEW ss \in Seq(S), NEW f, Joins(f, ss, Len(ss)), NEW k \in 1..Len(ss)
  PROVE  Upto(ss, k) = f[k]
<1> DEFINE tt == SubSeq(ss, 1, k)
<1>1. Len(ss) \in Nat /\ \A i \in 1..k : ss[i] \in S
  BY LenProperties, ElementOfSeq
<1>2. Len(tt) = k /\ \A i \in 1..k : tt[i] = ss[i]
  BY <1>1, SubSeqProperties
<1> HIDE DEF tt
<1>3. PICK g : Joins(g, tt, Len(tt)) /\ FlattenSeq(tt) = g[Len(tt)]
  BY <1>1, <1>2, FlattenJoins
<1>4. f[k] = g[k]
  <2>1. /\ Joins(f, ss, Len(ss)) /\ Joins(g, tt, k) /\ Len(ss) \in Nat /\ k \in Nat
        /\ k <= Len(ss) /\ \A i \in 1..k : ss[i] = tt[i]
    BY <1>1, <1>2, <1>3
  <2> QED
    BY <2>1, JoinsAgree
<1> QED
  BY <1>1, <1>2, <1>3, <1>4 DEF Upto, tt

LEMMA UptoNone == ASSUME NEW ss PROVE Upto(ss, 0) = <<>> /\ Len(Upto(ss, 0)) = 0
<1>1. SubSeq(ss, 1, 0) = <<>>
  BY SubSeqEmpty
<1> QED
  BY <1>1 DEF Upto, FlattenSeq

LEMMA UptoAll ==
  ASSUME NEW S, NEW ss \in Seq(S)
  PROVE  Upto(ss, Len(ss)) = FlattenSeq(ss)
BY SubSeqFull DEF Upto

(* One piece more. *)
LEMMA UptoNext ==
  ASSUME NEW S, NEW ss \in Seq(Seq(S)), NEW k \in 1..Len(ss)
  PROVE  /\ Upto(ss, k - 1) \in Seq(S) /\ Upto(ss, k) \in Seq(S) /\ ss[k] \in Seq(S)
         /\ Upto(ss, k) = Upto(ss, k - 1) \o ss[k]
<1>1. Len(ss) \in Nat /\ \A i \in 1..Len(ss) : ss[i] \in Seq(S)
  BY LenProperties, ElementOfSeq
<1>2. PICK f : Joins(f, ss, Len(ss))
  BY <1>1, JoinsExists
<1>3. \A i \in 1..Len(ss) : f[i] \in Seq(S) /\ Upto(ss, i) = f[i]
  BY <1>2, JoinsType, UptoJoins
<1>4. f[k] = IF k = 1 THEN ss[k] ELSE f[k - 1] \o ss[k]
  BY <1>1, <1>2, JoinsAt
<1>5. CASE k = 1
  <2>1. Upto(ss, k - 1) = <<>> /\ <<>> \in Seq(S)
    BY <1>5, UptoNone
  <2>2. ss[k] \in Seq(S) /\ Upto(ss, k) = ss[k]
    BY <1>1, <1>3, <1>4, <1>5
  <2>3. <<>> \o ss[k] = ss[k]
    BY <2>2, ConcatEmptySeq
  <2> QED
    BY <2>1, <2>2, <2>3
<1>6. CASE k # 1
  <2>1. k - 1 \in 1..Len(ss)
    BY <1>1, <1>6
  <2> QED
    BY <1>1, <1>3, <1>4, <1>6, <2>1
<1> QED
  BY <1>5, <1>6

(* Where a piece lies. *)
Size(ss, k) == Len(Upto(ss, k))

LEMMA SizeNext ==
  ASSUME NEW S, NEW ss \in Seq(Seq(S)), NEW k \in 1..Len(ss)
  PROVE  /\ Size(ss, k - 1) \in Nat /\ Size(ss, k) = Size(ss, k - 1) + Len(ss[k])
         /\ Len(ss[k]) \in Nat
         /\ \A x \in 1..Size(ss, k - 1) : Upto(ss, k)[x] = Upto(ss, k - 1)[x]
         /\ \A x \in 1..Len(ss[k]) : Upto(ss, k)[Size(ss, k - 1) + x] = ss[k][x]
<1> DEFINE u == Upto(ss, k - 1)
           t == ss[k]
<1>1. u \in Seq(S) /\ t \in Seq(S) /\ Upto(ss, k) = u \o t
  BY UptoNext
<1> HIDE DEF u, t
<1>2. /\ Len(u) \in Nat /\ Len(t) \in Nat /\ Len(u \o t) = Len(u) + Len(t)
      /\ \A i \in 1..(Len(u) + Len(t)) : (u \o t)[i] = IF i <= Len(u) THEN u[i] ELSE t[i - Len(u)]
  BY <1>1, ConcatProperties, LenProperties
<1>3. \A x \in 1..Len(u) : (u \o t)[x] = u[x]
  BY <1>2
<1>4. ASSUME NEW x \in 1..Len(t) PROVE (u \o t)[Len(u) + x] = t[x]
  <2>1. Len(u) + x \in 1..(Len(u) + Len(t)) /\ ~(Len(u) + x <= Len(u)) /\ Len(u) + x - Len(u) = x
    BY <1>2
  <2> QED
    BY <1>2, <2>1
<1> QED
  BY <1>1, <1>2, <1>3, <1>4 DEF Size, u, t

LEMMA SizeGrows ==
  ASSUME NEW S, NEW ss \in Seq(Seq(S)), NEW k \in 0..Len(ss), NEW n \in k..Len(ss)
  PROVE  /\ Size(ss, k) \in Nat /\ Size(ss, n) \in Nat /\ Size(ss, k) <= Size(ss, n)
         /\ \A x \in 1..Size(ss, k) : Upto(ss, n)[x] = Upto(ss, k)[x]
<1> DEFINE Holds(i) == /\ Size(ss, i) \in Nat /\ Size(ss, k) <= Size(ss, i)
                       /\ \A x \in 1..Size(ss, k) : Upto(ss, i)[x] = Upto(ss, k)[x]
           Bad == {i \in k..Len(ss) : ~Holds(i)}
<1>1. Len(ss) \in Nat
  BY LenProperties
<1>2. Size(ss, k) \in Nat
  <2>1. CASE k = 0
    BY <2>1, UptoNone DEF Size
  <2>2. CASE k # 0
    <3>1. k \in 1..Len(ss)
      BY <1>1, <2>2
    <3>2. /\ Size(ss, k - 1) \in Nat /\ Len(ss[k]) \in Nat
          /\ Size(ss, k) = Size(ss, k - 1) + Len(ss[k])
      BY <3>1, SizeNext
    <3> QED
      BY <3>2
  <2> QED
    BY <2>1, <2>2
<1> SUFFICES ASSUME Bad # {} PROVE FALSE
  <2>1. k \in k..Len(ss)
    BY <1>1
  <2> QED
    BY <1>2, <2>1
<1>3. PICK i \in Bad : \A j \in Bad : i <= j
  <2>1. Bad \in SUBSET Nat
    BY <1>1
  <2> HIDE DEF Bad
  <2> QED
    BY <2>1, LeastMember
<1>4. i \in k..Len(ss) /\ ~Holds(i)
  BY <1>3
<1>5. i # k
  BY <1>2, <1>4
<1>6. i \in 1..Len(ss) /\ i - 1 \in k..Len(ss)
  BY <1>1, <1>4, <1>5
<1>7. Holds(i - 1)
  <2>1. i - 1 \notin Bad
    BY <1>3, <1>6
  <2> QED
    BY <1>6, <2>1
<1>8. /\ Size(ss, i - 1) \in Nat /\ Size(ss, i) = Size(ss, i - 1) + Len(ss[i])
      /\ Len(ss[i]) \in Nat
      /\ \A x \in 1..Size(ss, i - 1) : Upto(ss, i)[x] = Upto(ss, i - 1)[x]
  BY <1>6, SizeNext
<1>9. \A x \in 1..Size(ss, k) : x \in 1..Size(ss, i - 1)
  BY <1>2, <1>7, <1>8
<1>10. Holds(i)
  BY <1>2, <1>7, <1>8, <1>9
<1> QED
  BY <1>4, <1>10

(* A sequence of pieces has its pieces one behind the other. *)
LEMMA PieceAt ==
  ASSUME NEW S, NEW ss \in Seq(Seq(S)), NEW k \in 1..Len(ss)
  PROVE  /\ Size(ss, k - 1) \in Nat /\ Size(ss, k) \in Nat /\ Len(ss[k]) \in Nat
         /\ Size(ss, k) = Size(ss, k - 1) + Len(ss[k])
         /\ Size(ss, k) <= Len(FlattenSeq(ss))
         /\ \A x \in 1..Len(ss[k]) : FlattenSeq(ss)[Size(ss, k - 1) + x] = ss[k][x]
<1>1. Len(ss) \in Nat /\ k \in 0..Len(ss) /\ Len(ss) \in k..Len(ss)
  BY LenProperties
<1>2. Upto(ss, Len(ss)) = FlattenSeq(ss) /\ Size(ss, Len(ss)) = Len(FlattenSeq(ss))
  BY UptoAll DEF Size
<1>3. /\ Size(ss, k - 1) \in Nat /\ Size(ss, k) = Size(ss, k - 1) + Len(ss[k])
      /\ Len(ss[k]) \in Nat
      /\ \A x \in 1..Len(ss[k]) : Upto(ss, k)[Size(ss, k - 1) + x] = ss[k][x]
  BY SizeNext
<1>4. /\ Size(ss, k) \in Nat /\ Size(ss, k) <= Size(ss, Len(ss))
      /\ \A x \in 1..Size(ss, k) : Upto(ss, Len(ss))[x] = Upto(ss, k)[x]
  BY <1>1, SizeGrows
<1>5. ASSUME NEW x \in 1..Len(ss[k])
      PROVE  FlattenSeq(ss)[Size(ss, k - 1) + x] = ss[k][x]
  <2>1. Size(ss, k - 1) + x \in 1..Size(ss, k)
    BY <1>3
  <2> QED
    BY <1>2, <1>3, <1>4, <2>1
<1> QED
  BY <1>2, <1>3, <1>4, <1>5

(* Behind the last piece nothing follows. *)
LEMMA PiecesEnd ==
  ASSUME NEW S, NEW ss \in Seq(Seq(S))
  PROVE  Size(ss, Len(ss)) = Len(FlattenSeq(ss)) /\ Size(ss, 0) = 0
BY UptoAll, UptoNone DEF Size

(* The character in front of a sequence, and the sequence behind it. *)
LEMMA Behind ==
  ASSUME NEW S, NEW c \in S, NEW s \in Seq(S)
  PROVE  /\ <<c>> \o s \in Seq(S) /\ Len(<<c>> \o s) = Len(s) + 1 /\ (<<c>> \o s)[1] = c
         /\ \A x \in 1..Len(s) : (<<c>> \o s)[1 + x] = s[x]
<1>1. <<c>> \in Seq(S) /\ Len(<<c>>) = 1 /\ <<c>>[1] = c /\ Len(s) \in Nat
  BY LenProperties
<1>2. /\ <<c>> \o s \in Seq(S) /\ Len(<<c>> \o s) = 1 + Len(s)
      /\ \A i \in 1..(1 + Len(s)) : (<<c>> \o s)[i] = IF i <= 1 THEN <<c>>[i] ELSE s[i - 1]
  BY <1>1, ConcatProperties
<1>3. ASSUME NEW x \in 1..Len(s) PROVE (<<c>> \o s)[1 + x] = s[x]
  <2>1. 1 + x \in 1..(1 + Len(s)) /\ ~(1 + x <= 1) /\ 1 + x - 1 = x
    BY <1>1
  <2> QED
    BY <1>2, <2>1
<1> QED
  BY <1>1, <1>2, <1>3

LEMMA Joined ==
  ASSUME NEW S, NEW s \in Seq(S), NEW t \in Seq(S)
  PROVE  /\ s \o t \in Seq(S) /\ Len(s \o t) = Len(s) + Len(t)
         /\ Len(s) \in Nat /\ Len(t) \in Nat
         /\ \A x \in 1..Len(s) : (s \o t)[x] = s[x]
         /\ \A x \in 1..Len(t) : (s \o t)[Len(s) + x] = t[x]
<1>1. /\ s \o t \in Seq(S) /\ Len(s \o t) = Len(s) + Len(t)
      /\ Len(s) \in Nat /\ Len(t) \in Nat
      /\ \A i \in 1..(Len(s) + Len(t)) : (s \o t)[i] = IF i <= Len(s) THEN s[i] ELSE t[i - Len(s)]
  BY ConcatProperties, LenProperties
<1>2. ASSUME NEW x \in 1..Len(t) PROVE (s \o t)[Len(s) + x] = t[x]
  <2>1. Len(s) + x \in 1..(Len(s) + Len(t)) /\ ~(Len(s) + x <= Len(s)) /\ Len(s) + x - Len(s) = x
    BY <1>1
  <2> QED
    BY <1>1, <2>1
<1> QED
  BY <1>1, <1>2

(* What a loop has collected: the first characters of a part. *)
LEMMA FirstOnes ==
  ASSUME NEW S, NEW s \in Seq(S)
  PROVE  /\ Len(s) \in Nat /\ SubSeq(s, 1, 0) = <<>> /\ SubSeq(s, 1, Len(s)) = s
         /\ \A k \in 0..Len(s) : SubSeq(s, 1, k) \in Seq(S) /\ Len(SubSeq(s, 1, k)) = k
         /\ \A k \in 0..(Len(s) - 1) :
              s[k + 1] \in S /\ Append(SubSeq(s, 1, k), s[k + 1]) = SubSeq(s, 1, k + 1)
<1>1. Len(s) \in Nat /\ SubSeq(s, 1, 0) = <<>>
  BY LenProperties, SubSeqProperties
<1>2. ASSUME NEW k \in 0..Len(s)
      PROVE  /\ SubSeq(s, 1, k) \in Seq(S) /\ Len(SubSeq(s, 1, k)) = k
             /\ \A x \in 1..k : SubSeq(s, 1, k)[x] = s[x]
  <2>1. k \in Nat /\ \A x \in 1..k : x \in 1..Len(s) /\ 1 + x - 1 = x
    BY <1>1
  <2>2. \A x \in 1..k : s[x] \in S
    BY <2>1, ElementOfSeq
  <2>3. SubSeq(s, 1, k) = [x \in 1..k |-> s[x]]
    BY <1>1, <2>1, SubSeqProperties
  <2>4. [x \in 1..k |-> s[x]] \in Seq(S)
    BY <2>1, <2>2, IsASeq
  <2>5. Len([x \in 1..k |-> s[x]]) = k
    BY <2>1
  <2> QED
    BY <2>3, <2>4, <2>5
<1>3. SubSeq(s, 1, Len(s)) = s
  <2> DEFINE t == SubSeq(s, 1, Len(s))
  <2>1. t \in Seq(S) /\ Len(t) = Len(s) /\ \A x \in 1..Len(s) : t[x] = s[x]
    BY <1>1, <1>2
  <2> HIDE DEF t
  <2>2. t = s
    BY <2>1, SeqEqual
  <2> QED
    BY <2>2 DEF t
<1>4. ASSUME NEW k \in 0..(Len(s) - 1)
      PROVE  s[k + 1] \in S /\ Append(SubSeq(s, 1, k), s[k + 1]) = SubSeq(s, 1, k + 1)
  <2> DEFINE p == SubSeq(s, 1, k)
             n == SubSeq(s, 1, k + 1)
             a == Append(p, s[k + 1])
  <2>1. k \in 0..Len(s) /\ k + 1 \in 0..Len(s) /\ k \in Nat /\ k + 1 \in 1..Len(s)
    BY <1>1
  <2>2. s[k + 1] \in S
    BY <2>1, ElementOfSeq
  <2>3. /\ p \in Seq(S) /\ Len(p) = k /\ \A x \in 1..k : p[x] = s[x]
        /\ n \in Seq(S) /\ Len(n) = k + 1 /\ \A x \in 1..(k + 1) : n[x] = s[x]
    BY <1>2, <2>1
  <2> HIDE DEF p, n
  <2>4. /\ a \in Seq(S) /\ Len(a) = k + 1
        /\ \A x \in 1..k : a[x] = p[x]
        /\ a[k + 1] = s[k + 1]
    BY <2>2, <2>3, AppendProperties
  <2> HIDE DEF a
  <2>5. ASSUME NEW x \in 1..(k + 1) PROVE a[x] = n[x]
    <3>1. x \in 1..k \/ x = k + 1
      BY <2>1
    <3> QED
      BY <2>3, <2>4, <3>1
  <2>6. a = n
    BY <2>3, <2>4, <2>5, SeqEqual
  <2> QED
    BY <2>2, <2>6 DEF a, p, n
<1> QED
  BY <1>1, <1>2, <1>3, <1>4
-----------------------------------------------------------------------------
LEMMA SeqWider ==
  ASSUME NEW S, NEW T, S \subseteq T, NEW s \in Seq(S)
  PROVE  s \in Seq(T)
<1>1. PICK n \in Nat : s \in [1..n -> S]
  BY SeqDef
<1>2. s \in [1..n -> T]
  BY <1>1
<1> QED
  BY <1>2, SeqDef

(* The bytes of a message: its lines with their ends, and its tail. *)
Lines(m) == [i \in 1..Len(m.lines) |-> Append(m.lines[i], "nl")]
Word == STRING \ {"nl"}

LEMMA MessageParts ==
  ASSUME NEW m \in Messages \cup Lasts
  PROVE  /\ m.lines \in Seq(Seq(Word)) /\ Len(m.lines) \in Nat
         /\ m.tail \in Seq(AnyByte) /\ Len(m.tail) \in Nat
         /\ \A i \in 1..Len(m.lines) : m.lines[i] \in Seq(Word) /\ Len(m.lines[i]) \in Nat
         /\ Lines(m) \in Seq(Seq(AnyByte)) /\ Len(Lines(m)) = Len(m.lines)
         /\ Bytes(m) = FlattenSeq(Lines(m)) \o m.tail
         /\ FlattenSeq(Lines(m)) \in Seq(AnyByte) /\ Bytes(m) \in Seq(AnyByte)
<1>1. m.lines \in Seq(Seq(Word)) /\ m.tail \in Seq(AnyByte)
  <2>1. m.lines \in Seq(Seq(Word)) /\ m.tail \in Seq(STRING)
    BY MessageAssumption DEF Word
  <2>2. STRING \subseteq AnyByte
    BY DEF AnyByte
  <2> HIDE DEF AnyByte
  <2> QED
    BY <2>1, <2>2, SeqWider
<1>2. Len(m.lines) \in Nat /\ Len(m.tail) \in Nat
  BY <1>1, LenProperties
<1>3. \A i \in 1..Len(m.lines) : m.lines[i] \in Seq(Word)
  BY <1>1, ElementOfSeq
<1>4. \A i \in 1..Len(m.lines) : Len(m.lines[i]) \in Nat
  BY <1>3, LenProperties
<1>5. ASSUME NEW i \in 1..Len(m.lines) PROVE Append(m.lines[i], "nl") \in Seq(AnyByte)
  <2> DEFINE line == m.lines[i]
  <2>1. line \in Seq(Word) /\ Word \subseteq AnyByte /\ "nl" \in AnyByte
    BY <1>3 DEF Word, AnyByte
  <2> HIDE DEF line
  <2>3. line \in Seq(AnyByte)
    BY <2>1, SeqWider
  <2>4. Append(line, "nl") \in Seq(AnyByte)
    BY <2>1, <2>3, AppendProperties
  <2> QED
    BY <2>4 DEF line
<1>6. Lines(m) \in Seq(Seq(AnyByte)) /\ Len(Lines(m)) = Len(m.lines)
  BY <1>2, <1>5, IsASeq DEF Lines
<1>7. FlattenSeq(Lines(m)) \in Seq(AnyByte)
  BY <1>6, FlattenType
<1>8. Bytes(m) = FlattenSeq(Lines(m)) \o m.tail
  BY DEF Bytes, Lines
<1>9. Bytes(m) \in Seq(AnyByte)
  BY <1>1, <1>7, <1>8, ConcatProperties
<1> QED
  BY <1>1, <1>2, <1>3, <1>4, <1>6, <1>7, <1>8, <1>9

Texts == [i \in 1..Len(msgs) |-> Bytes(msgs[i])]

LEMMA StreamType ==
  ASSUME msgs \in Seq(Messages \cup Lasts)
  PROVE  /\ stream \in Seq(AnyByte) /\ stream = FlattenSeq(Texts)
         /\ Texts \in Seq(Seq(AnyByte)) /\ Len(Texts) = Len(msgs) /\ Len(msgs) \in Nat
<1>1. Len(msgs) \in Nat /\ \A i \in 1..Len(msgs) : msgs[i] \in Messages \cup Lasts
  BY ElementOfSeq
<1>2. \A i \in 1..Len(msgs) : Bytes(msgs[i]) \in Seq(AnyByte)
  BY <1>1, MessageParts
<1>3. Texts \in Seq(Seq(AnyByte)) /\ Len(Texts) = Len(msgs)
  BY <1>1, <1>2, IsASeq DEF Texts
<1>4. stream = FlattenSeq(Texts)
  BY DEF stream, Said, Texts
<1> QED
  BY <1>1, <1>3, <1>4, FlattenType

LEMMA MinOfTwo ==
  ASSUME NEW a \in Int, NEW b \in Int
  PROVE  Min({a, b}) = IF a <= b THEN a ELSE b
<1>1. CASE a <= b
  BY <1>1 DEF Min
<1>2. CASE ~(a <= b)
  BY <1>2 DEF Min
<1> QED
  BY <1>1, <1>2

LEMMA FreshOK == RequestOK(Fresh) /\ Fresh.resault = FALSE
<1>1. Fresh.inputbuffer = <<>> /\ <<>> \in Seq(AnyByte) /\ Len(<<>>) = 0
  BY DEF Fresh
<1> QED
  BY <1>1, LimitAssumption DEF RequestOK, Fresh

LEMMA NoneHandedOver == Gapless(<<>>) /\ EndOf(<<>>) = 0
BY DEF Gapless, EndOf

LEMMA InitRequest == Init => RequestInv
<1> SUFFICES ASSUME Init PROVE RequestInv
  OBVIOUS
<1>1. msgs \in Seq(Messages \cup Lasts)
  <2>1. PICK n \in 0..MaxMsgs : \E some \in [1..n -> Messages], last \in Lasts :
          msgs = Append(some, last)
    BY DEF Init
  <2>2. PICK some \in [1..n -> Messages], last \in Lasts : msgs = Append(some, last)
    BY <2>1
  <2>3. some \in Seq(Messages \cup Lasts)
    BY LimitAssumption, IsASeq
  <2> QED
    BY <2>2, <2>3, AppendProperties
<1>2. stream \in Seq(AnyByte) /\ Len(stream) \in Nat
  BY <1>1, StreamType, LenProperties
<1>3. StreamOK
  BY <1>1, <1>2 DEF Init, StreamOK
<1>4. TaskOK
  BY FreshOK DEF Init, TaskOK
<1>5. ReplyOK
  BY NoneHandedOver, LimitAssumption DEF Init, ReplyOK, Pending
<1> QED
  BY <1>3, <1>4, <1>5 DEF RequestInv

(* What is left of rest behind its first n bytes, and what may be read.    *)
LEMMA Slice ==
  ASSUME NEW s \in Seq(AnyByte), NEW m \in 0..Len(s), NEW n \in m..Len(s)
  PROVE  LET t == SubSeq(s, m + 1, n)
         IN  /\ t \in Seq(AnyByte) /\ Len(t) = n - m
             /\ \A i \in 1..(n - m) : t[i] = s[m + i]
<1>1. \A i \in (m + 1)..n : s[i] \in AnyByte
  BY ElementOfSeq
<1>2. m + 1 \in Int /\ n \in Int
  OBVIOUS
<1>3. /\ SubSeq(s, m + 1, n) \in Seq(AnyByte)
      /\ Len(SubSeq(s, m + 1, n)) = IF m + 1 <= n THEN n - (m + 1) + 1 ELSE 0
      /\ \A i \in 1..(n - (m + 1) + 1) : SubSeq(s, m + 1, n)[i] = s[m + 1 + i - 1]
  BY ONLY <1>1, <1>2, SubSeqProperties
<1> QED
  BY <1>3
-----------------------------------------------------------------------------
(* A step takes n bytes and leaves the rest.                               *)
LEMMA ConsumeInv ==
  ASSUME StreamOK, NEW n \in 0..Len(rest), Consume(n), UNCHANGED <<msgs, start>>
  PROVE  StreamOK'
<1>1. /\ pos' = pos + n /\ pos' \in Nat /\ Len(rest) \in Nat
      /\ rest' = SubSeq(rest, n + 1, Len(rest)) /\ stream' = stream
  BY DEF Consume, StreamOK, stream, Said
<1>2. /\ rest' \in Seq(AnyByte) /\ Len(rest') = Len(rest) - n
      /\ \A i \in 1..(Len(rest) - n) : rest'[i] = rest[n + i]
  BY <1>1, Slice DEF StreamOK
<1>3. ASSUME NEW i \in 1..Len(rest') PROVE rest'[i] = stream'[pos' + i]
  <2>1. n + i \in 1..Len(rest) /\ rest'[i] = rest[n + i]
    BY <1>1, <1>2
  <2>2. rest[n + i] = stream[pos + (n + i)] /\ pos + (n + i) = pos' + i
    BY <1>1, <2>1 DEF StreamOK
  <2> QED
    BY <1>1, <2>1, <2>2
<1>4. pos' + Len(rest') <= Len(stream')
  <2>1. pos \in Nat /\ pos + Len(rest) <= Len(stream)
    BY DEF StreamOK
  <2>2. pos' + Len(rest') = pos + Len(rest)
    <3>1. pos' = pos + n /\ Len(rest') = Len(rest) - n /\ n \in Nat /\ Len(rest) \in Nat
      BY <1>1, <1>2
    <3> QED
      BY <2>1, <3>1
  <2> QED
    BY <1>1, <2>1, <2>2
<1>5. start' \in 0..pos' /\ msgs' \in Seq(Messages \cup Lasts)
  BY <1>1 DEF StreamOK
<1> QED
  BY <1>1, <1>2, <1>3, <1>4, <1>5 DEF StreamOK

(* A step of the parser, which goes on or calls ProcessRequest.            *)
LEMMA ParseInv ==
  ASSUME RequestInv, tpc = "input", NEW n \in 0..Len(rest), Consume(n),
         NEW r, RequestOK(r), ProcessRequest(r) \/ (Continue(r) /\ r.resault = FALSE),
         UNCHANGED <<msgs, start, writeoutbuffer, handed>>
  PROVE  RequestInv'
<1>1. StreamOK'
  BY ConsumeInv DEF RequestInv
<1>2. len = 0 /\ request' = r
  BY DEF RequestInv, TaskOK, ProcessRequest, Continue
<1>3. TaskOK'
  BY <1>2 DEF RequestInv, TaskOK, ProcessRequest, Continue
<1>4. len' \in 0..ReplyLen /\ written' \in Nat /\ written' - len' = written - len
  BY <1>2, LimitAssumption DEF RequestInv, ReplyOK, ProcessRequest, Continue
<1>5. tpc' # "idle"
  BY DEF ProcessRequest, Continue
<1>6. ReplyOK'
  BY <1>4, <1>5 DEF RequestInv, ReplyOK, Pending
<1> QED
  BY <1>1, <1>3, <1>6 DEF RequestInv

(* A head byte is one byte of rest. *)
LEMMA HeadByteMeans ==
  ASSUME RequestInv, NEW isnewline, HeadByte(isnewline)
  PROVE  /\ tpc = "input" /\ 1 \in 0..Len(rest) /\ Consume(1)
         /\ rest[1] \in AnyByte /\ RequestOK(request) /\ request.resault = FALSE
         /\ UNCHANGED <<msgs, start, writeoutbuffer, handed>>
<1>1. rest \in Seq(AnyByte) /\ rest # <<>>
  BY DEF HeadByte, RequestInv, StreamOK
<1>2. 1 \in 1..Len(rest)
  BY <1>1, EmptySeq, LenProperties
<1>3. rest[1] \in AnyByte
  BY <1>1, <1>2, ElementOfSeq
<1> QED
  BY <1>2, <1>3 DEF HeadByte, RequestInv, TaskOK

(* The fields that the parser sets, one at a time. *)
Like(q, r) == RequestOK(q) /\ q.resault = r.resault

LEMMA LikeLike ==
  ASSUME NEW p, NEW q, NEW r, Like(p, q), Like(q, r)
  PROVE  Like(p, r)
BY DEF Like

LEMMA FieldsOK ==
  ASSUME NEW r, RequestOK(r)
  PROVE  /\ \A v : Like([r EXCEPT !.act = v], r)
         /\ \A v : Like([r EXCEPT !.headlines = v], r)
         /\ \A v : Like([r EXCEPT !.uri = v], r)
         /\ \A v : Like([r EXCEPT !.vision = v], r)
         /\ \A v : Like([r EXCEPT !.headmap = v], r)
         /\ \A v : Like([r EXCEPT !.body = v], r)
         /\ \A v \in Int : Like([r EXCEPT !.torecvbody = v], r)
         /\ Like([r EXCEPT !.state = "RecvBody"], r)
         /\ Like([r EXCEPT !.inputbuffer = <<>>], r)
         /\ \A v : RequestOK([r EXCEPT !.resault = v])
<1> DEFINE Same(q) ==
             /\ q = [state |-> q.state, act |-> q.act, uri |-> q.uri, vision |-> q.vision,
                     headmap |-> q.headmap, headlines |-> q.headlines,
                     inputbuffer |-> q.inputbuffer, body |-> q.body,
                     torecvbody |-> q.torecvbody, resault |-> q.resault]
<1>1. Same(r)
  BY DEF RequestOK
<1>2. r.state \in {"RecvFirstLine", "RecvBody"} /\ r.torecvbody \in Int
      /\ r.inputbuffer \in Seq(AnyByte) /\ Len(r.inputbuffer) <= MaxLine + 1
  BY DEF RequestOK
<1>3. ASSUME NEW v PROVE Like([r EXCEPT !.act = v], r)
  BY <1>1, <1>2 DEF Like, RequestOK
<1>4. ASSUME NEW v PROVE Like([r EXCEPT !.headlines = v], r)
  BY <1>1, <1>2 DEF Like, RequestOK
<1>5. ASSUME NEW v PROVE Like([r EXCEPT !.uri = v], r)
  BY <1>1, <1>2 DEF Like, RequestOK
<1>6. ASSUME NEW v PROVE Like([r EXCEPT !.vision = v], r)
  BY <1>1, <1>2 DEF Like, RequestOK
<1>7. ASSUME NEW v PROVE Like([r EXCEPT !.headmap = v], r)
  BY <1>1, <1>2 DEF Like, RequestOK
<1>8. ASSUME NEW v PROVE Like([r EXCEPT !.body = v], r)
  BY <1>1, <1>2 DEF Like, RequestOK
<1>9. ASSUME NEW v \in Int PROVE Like([r EXCEPT !.torecvbody = v], r)
  BY <1>1, <1>2 DEF Like, RequestOK
<1>10. Like([r EXCEPT !.state = "RecvBody"], r)
  BY <1>1, <1>2 DEF Like, RequestOK
<1>11. Like([r EXCEPT !.inputbuffer = <<>>], r)
  <2> DEFINE q == [r EXCEPT !.inputbuffer = <<>>]
  <2>1. q.inputbuffer \in Seq(AnyByte) /\ Len(q.inputbuffer) <= MaxLine + 1
    BY <1>1, LimitAssumption
  <2> QED
    BY <1>1, <1>2, <2>1 DEF Like, RequestOK
<1>12. ASSUME NEW v PROVE RequestOK([r EXCEPT !.resault = v])
  BY <1>1, <1>2 DEF RequestOK
<1> QED
  BY <1>3, <1>4, <1>5, <1>6, <1>7, <1>8, <1>9, <1>10, <1>11, <1>12

LEMMA AcceptIs ==
  ASSUME NEW r, RequestOK(r), Accept(r)
  PROVE  \E q : RequestOK(q) /\ ProcessRequest(q)
BY FieldsOK DEF Accept

LEMMA PostIs ==
  ASSUME NEW r, RequestOK(r), r.resault = FALSE, Post(r)
  PROVE  \E q : RequestOK(q) /\ (ProcessRequest(q) \/ (Continue(q) /\ q.resault = FALSE))
<1>1. CASE Accept(r)
  BY <1>1, AcceptIs
<1>2. CASE Accept([r EXCEPT !.torecvbody = 0])
  <2>1. RequestOK([r EXCEPT !.torecvbody = 0])
    BY DEF RequestOK
  <2> QED
    BY <1>2, <2>1, AcceptIs
<1>3. CASE Continue([r EXCEPT !.torecvbody = Atoi(Length(r)), !.state = "RecvBody"])
  <2> DEFINE p == [r EXCEPT !.torecvbody = Atoi(Length(r))]
             q == [r EXCEPT !.torecvbody = Atoi(Length(r)), !.state = "RecvBody"]
  <2>1. Atoi(Length(r)) \in Int
    BY DEF Atoi, Number
  <2>2. Like(p, r)
    BY <2>1, FieldsOK
  <2>3. q = [p EXCEPT !.state = "RecvBody"] /\ Continue(q)
    BY <1>3
  <2> HIDE DEF p, q
  <2>4. Like(q, p)
    BY <2>2, <2>3, FieldsOK DEF Like
  <2> QED
    BY <2>2, <2>3, <2>4 DEF Like
<1> QED
  BY <1>1, <1>2, <1>3 DEF Post

LEMMA FirstLineOK ==
  ASSUME NEW r, RequestOK(r)
  PROVE  Like(FirstLine(r), r)
<1> DEFINE line == r.headlines[1]
           i == Find(line, "sp", 1)
           j == Find(line, "sp", i + 1)
           q == [r EXCEPT !.act = SubSeq(line, 1, i - 1)]
           p == [q EXCEPT !.uri = HttpDecodeUri(SubSeq(line, i + 1, j - 1))]
           o == [q EXCEPT !.uri = HttpDecodeUri(SubSeq(line, i + 1, j - 1)),
                          !.vision = SubSeq(line, j + 1, Len(line))]
<1>1. FirstLine(r) \in {r, q, o}
  BY DEF FirstLine
<1>2. o = [p EXCEPT !.vision = SubSeq(line, j + 1, Len(line))]
  OBVIOUS
<1> HIDE DEF line, i, j
<1>3. Like(q, r)
  BY FieldsOK
<1> HIDE DEF q, o
<1>4. Like(p, q)
  BY <1>3, FieldsOK DEF Like
<1> HIDE DEF p
<1>5. Like(o, p)
  BY <1>2, <1>4, FieldsOK DEF Like
<1> QED
  BY <1>1, <1>3, <1>4, <1>5 DEF Like

LEMMA HeadFoundIs ==
  ASSUME NEW r, RequestOK(r), r.resault = FALSE, HeadFound(r)
  PROVE  \E q : RequestOK(q) /\ (ProcessRequest(q) \/ (Continue(q) /\ q.resault = FALSE))
BY AcceptIs, PostIs DEF HeadFound

LEMMA HeadInv ==
  ASSUME RequestInv, InputChar \/ EndLine \/ EndHead
  PROVE  RequestInv'
<1>1. PICK isnewline : HeadByte(isnewline)
  BY DEF InputChar, EndLine, EndHead
<1>2. /\ tpc = "input" /\ 1 \in 0..Len(rest) /\ Consume(1)
      /\ rest[1] \in AnyByte /\ RequestOK(request) /\ request.resault = FALSE
      /\ UNCHANGED <<msgs, start, writeoutbuffer, handed>>
  BY <1>1, HeadByteMeans
<1>3. SUFFICES \E q : RequestOK(q) /\ (ProcessRequest(q) \/ (Continue(q) /\ q.resault = FALSE))
  BY <1>2, ParseInv
<1>4. CASE InputChar
  <2>1. CASE Len(request.inputbuffer) > MaxLine
    BY <1>2, <1>4, <2>1 DEF InputChar
  <2>2. CASE ~(Len(request.inputbuffer) > MaxLine)
    <3> DEFINE line == Append(request.inputbuffer, rest[1])
               q == [request EXCEPT !.inputbuffer = line]
    <3>1. line \in Seq(AnyByte) /\ Len(line) <= MaxLine + 1
      BY <1>2, <2>2, LimitAssumption, AppendProperties DEF RequestOK
    <3>2. Continue(q)
      BY <1>4, <2>2 DEF InputChar
    <3> HIDE DEF line
    <3>3. RequestOK(q) /\ q.resault = FALSE
      BY <1>2, <3>1 DEF RequestOK
    <3> HIDE DEF q
    <3> QED
      BY <3>2, <3>3
  <2> QED
    BY <2>1, <2>2
<1>5. CASE EndLine
  <2> DEFINE p == [request EXCEPT !.headlines = Append(@, Line)]
             q == [request EXCEPT !.headlines = Append(@, Line), !.inputbuffer = <<>>]
  <2>1. Like(p, request)
    BY <1>2, FieldsOK
  <2>2. Continue(q)
    BY <1>5 DEF EndLine
  <2>3. q = [p EXCEPT !.inputbuffer = <<>>]
    OBVIOUS
  <2> HIDE DEF p, q
  <2>4. Like(q, p)
    BY <2>1, <2>3, FieldsOK DEF Like
  <2> QED
    BY <1>2, <2>1, <2>2, <2>4 DEF Like
<1>6. CASE EndHead
  <2> DEFINE ended == [request EXCEPT !.inputbuffer = <<>>]
             r == FirstLine(ended)
             found == WithHeads(r)
  <2>1. \/ ProcessRequest(ended)
        \/ ProcessRequest(r)
        \/ HeadFound(found)
    BY <1>6 DEF EndHead
  <2>2. RequestOK(ended) /\ ended.resault = FALSE
    BY <1>2, FieldsOK DEF Like
  <2> HIDE DEF ended
  <2>3. RequestOK(r) /\ r.resault = FALSE
    BY <2>2, FirstLineOK DEF Like
  <2> HIDE DEF r
  <2>4. RequestOK(found) /\ found.resault = FALSE
    <3>1. PICK v : found = [r EXCEPT !.headmap = v]
      BY DEF WithHeads
    <3>2. Like([r EXCEPT !.headmap = v], r)
      BY <2>3, FieldsOK
    <3> HIDE DEF found
    <3> QED
      BY <2>3, <3>1, <3>2 DEF Like
  <2> HIDE DEF found
  <2> QED
    BY <2>1, <2>2, <2>3, <2>4, HeadFoundIs
<1> QED
  BY <1>4, <1>5, <1>6

LEMMA BodyInv ==
  ASSUME RequestInv, InputBody
  PROVE  RequestInv'
<1>1. /\ tpc = "input" /\ Len(rest) \in Nat /\ RequestOK(request) /\ request.resault = FALSE
      /\ UNCHANGED <<msgs, start, writeoutbuffer, handed>>
  BY LenProperties DEF InputBody, RequestInv, StreamOK, TaskOK
<1> DEFINE n == IF request.torecvbody < 0 THEN Len(rest)
                ELSE Min({Len(rest), request.torecvbody})
           r == [request EXCEPT !.body = Write(@, SubSeq(rest, 1, n)), !.torecvbody = @ - n]
<1>2. TakeBody(n)
  BY DEF InputBody
<1>3. n \in 0..Len(rest)
  <2>1. request.torecvbody \in Int
    BY <1>1 DEF RequestOK
  <2>2. /\ request.torecvbody < 0 => n = Len(rest)
        /\ ~(request.torecvbody < 0) =>
             n = IF Len(rest) <= request.torecvbody THEN Len(rest) ELSE request.torecvbody
    BY <1>1, <2>1, MinOfTwo
  <2> HIDE DEF n
  <2> QED
    BY <1>1, <2>1, <2>2
<1> HIDE DEF n
<1>4. Consume(n) /\ (Accept(r) \/ Continue(r))
  BY <1>2 DEF TakeBody
<1>5. RequestOK(r) /\ r.resault = FALSE
  <2> DEFINE q == [request EXCEPT !.body = Write(@, SubSeq(rest, 1, n))]
  <2>1. Like(q, request) /\ q.torecvbody = request.torecvbody
    BY <1>1, FieldsOK DEF RequestOK
  <2>2. r = [q EXCEPT !.torecvbody = q.torecvbody - n]
    BY <2>1
  <2>3. q.torecvbody - n \in Int
    BY <1>1, <1>3, <2>1 DEF RequestOK
  <2> HIDE DEF q, r
  <2>4. Like(r, q)
    BY <2>1, <2>2, <2>3, FieldsOK DEF Like
  <2> QED
    BY <1>1, <2>1, <2>4 DEF Like
<1> HIDE DEF r
<1>6. \E q : RequestOK(q) /\ (ProcessRequest(q) \/ (Continue(q) /\ q.resault = FALSE))
  BY <1>4, <1>5, AcceptIs
<1> QED
  BY <1>1, <1>3, <1>4, <1>6, ParseInv
-----------------------------------------------------------------------------
(* The replies. *)

(* A buffer that follows what was handed over can be handed over.          *)
LEMMA HandOver ==
  ASSUME NEW buffers, Gapless(buffers), NEW c \in Chunk, c.first = EndOf(buffers) + 1
  PROVE  /\ Gapless(Append(buffers, c))
         /\ EndOf(Append(buffers, c)) = c.first + c.datalen - 1
<1> DEFINE more == Append(buffers, c)
<1>1. buffers \in Seq(Chunk)
  BY DEF Gapless
<1>2. /\ more \in Seq(Chunk) /\ more # <<>> /\ Len(more) = Len(buffers) + 1
      /\ \A i \in 1..Len(buffers) : more[i] = buffers[i]
      /\ more[Len(buffers) + 1] = c
  BY <1>1, AppendProperties
<1>3. Len(buffers) \in Nat /\ DOMAIN buffers = 1..Len(buffers)
      /\ DOMAIN more = 1..(Len(buffers) + 1)
  BY <1>1, <1>2, LenProperties
<1> HIDE DEF more
<1>4. EndOf(more) = c.first + c.datalen - 1
  BY <1>2 DEF EndOf
<1>5. ASSUME NEW i \in DOMAIN more
      PROVE  more[i].first = IF i = 1 THEN 1 ELSE more[i - 1].first + more[i - 1].datalen
  <2>1. CASE i \in 1..Len(buffers)
    <3>1. more[i] = buffers[i] /\ (i # 1 => more[i - 1] = buffers[i - 1])
      BY <1>2, <1>3, <2>1
    <3> QED
      BY <1>3, <2>1, <3>1 DEF Gapless
  <2>2. CASE i = Len(buffers) + 1 /\ buffers = <<>>
    <3>1. i = 1 /\ more[i] = c /\ c.first = 1
      BY <1>2, <2>2 DEF EndOf
    <3> QED
      BY <3>1
  <2>3. CASE i = Len(buffers) + 1 /\ buffers # <<>>
    <3>1. i # 1 /\ i - 1 = Len(buffers) /\ i - 1 \in 1..Len(buffers)
      BY <1>1, <1>3, <2>3, EmptySeq
    <3>2. more[i] = c /\ more[i - 1] = buffers[Len(buffers)] /\ buffers[Len(buffers)] \in Chunk
      BY <1>1, <1>2, <2>3, <3>1, ElementOfSeq
    <3>3. c.first = buffers[Len(buffers)].first + buffers[Len(buffers)].datalen - 1 + 1
      BY <2>3 DEF EndOf
    <3>4. buffers[Len(buffers)].first \in Int /\ buffers[Len(buffers)].datalen \in Int
      BY <3>2, LimitAssumption DEF Chunk
    <3> QED
      BY <3>1, <3>2, <3>3, <3>4
  <2> QED
    BY <1>3, <2>1, <2>2, <2>3
<1>6. Gapless(more)
  BY <1>2, <1>5 DEF Gapless
<1> QED
  BY <1>4, <1>6 DEF more

LEMMA EndOfType ==
  ASSUME NEW buffers, Gapless(buffers)
  PROVE  EndOf(buffers) \in Nat
<1>1. buffers \in Seq(Chunk)
  BY DEF Gapless
<1>2. CASE buffers = <<>>
  BY <1>2 DEF EndOf
<1>3. CASE buffers # <<>>
  <2>1. Len(buffers) \in 1..Len(buffers)
    BY <1>1, <1>3, EmptySeq, LenProperties
  <2>2. buffers[Len(buffers)] \in Chunk
    BY <1>1, <2>1, ElementOfSeq
  <2> QED
    BY <1>3, <2>2, LimitAssumption DEF EndOf, Chunk
<1> QED
  BY <1>2, <1>3

(* The buffers given so far, with the one that is being filled. *)
LEMMA WriteOutInv ==
  ASSUME RequestInv, WriteOut
  PROVE  RequestInv'
<1> DEFINE used == IF Pending /\ ~Full THEN writeoutbuffer.datalen ELSE 0
           towrite == Min({BufLen - used, len})
           first == IF used > 0 THEN writeoutbuffer.first ELSE written - len + 1
           chunk == [first |-> first, datalen |-> used + towrite]
<1>1. /\ tpc = "reply" /\ len > 0 /\ writeoutbuffer' = chunk /\ len' = len - towrite
      /\ handed' = IF Pending /\ Full THEN Append(handed, writeoutbuffer) ELSE handed
      /\ UNCHANGED <<parsevars, tpc, written>>
  BY DEF WriteOut
<1>2. /\ len \in 0..ReplyLen /\ written \in Nat /\ ReplyLen \in Nat
      /\ BufLen \in Nat \ {0} /\ Gapless(handed) /\ EndOf(handed) \in Nat
  BY EndOfType, LimitAssumption DEF RequestInv, ReplyOK
<1>3. Pending => /\ writeoutbuffer.first \in Nat \ {0} /\ writeoutbuffer.datalen \in 1..BufLen
                 /\ writeoutbuffer \in Chunk
                 /\ writeoutbuffer.first = EndOf(handed) + 1
                 /\ written - len = writeoutbuffer.first + writeoutbuffer.datalen - 1
  BY DEF RequestInv, ReplyOK, Chunk
<1>4. ~Pending => written - len = EndOf(handed)
  BY DEF RequestInv, ReplyOK
<1>5. used \in 0..(BufLen - 1)
  BY <1>2, <1>3 DEF Full
<1>6. towrite \in 1..(BufLen - used) /\ towrite <= len
  <2>1. towrite = IF BufLen - used <= len THEN BufLen - used ELSE len
    BY <1>2, <1>5, MinOfTwo
  <2> HIDE DEF towrite, used
  <2> QED
    BY <1>1, <1>2, <1>5, <2>1
<1>7. Gapless(handed') /\ first = EndOf(handed') + 1
  <2>1. CASE Pending /\ Full
    <3>1. Gapless(handed') /\ EndOf(handed') = writeoutbuffer.first + writeoutbuffer.datalen - 1
      BY <1>1, <1>2, <1>3, <2>1, HandOver
    <3> QED
      BY <1>3, <2>1, <3>1
  <2>2. CASE Pending /\ ~Full
    <3>1. used > 0 /\ handed' = handed
      BY <1>1, <1>3, <2>2
    <3> QED
      BY <1>2, <1>3, <2>2, <3>1
  <2>3. CASE ~Pending
    <3>1. used = 0 /\ handed' = handed
      BY <1>1, <2>3
    <3> QED
      BY <1>2, <1>4, <2>3, <3>1
  <2> QED
    BY <2>1, <2>2, <2>3
<1>8. first + used - 1 = written - len
  <2>1. CASE Pending /\ ~Full
    BY <1>2, <1>3, <2>1
  <2>2. CASE ~(Pending /\ ~Full)
    BY <1>2, <2>2
  <2> QED
    BY <2>1, <2>2
<1>9. first \in Nat \ {0}
  <2>1. EndOf(handed') \in Nat
    BY <1>7, EndOfType
  <2> QED
    BY <1>7, <2>1
<1> HIDE DEF used, towrite, first
<1>10. /\ writeoutbuffer' \in Chunk /\ writeoutbuffer' # NoBuffer
       /\ writeoutbuffer'.first = first /\ writeoutbuffer'.datalen = used + towrite
  BY <1>1, <1>2, <1>5, <1>6, <1>9 DEF Chunk, NoBuffer
<1>11. len' \in 0..ReplyLen /\ written' - len' = first + (used + towrite) - 1
  BY <1>1, <1>2, <1>5, <1>6, <1>8, <1>9
<1>12. ReplyOK'
  BY <1>1, <1>2, <1>7, <1>10, <1>11 DEF ReplyOK, Pending
<1>13. StreamOK' /\ TaskOK'
  BY <1>1 DEF parsevars, RequestInv, StreamOK, TaskOK, stream, Said
<1> QED
  BY <1>12, <1>13 DEF RequestInv

LEMMA ClearInv ==
  ASSUME RequestInv, ClearRequest
  PROVE  RequestInv'
<1>1. /\ tpc = "reply" /\ len = 0 /\ tpc' = "input" /\ request' = Cleared(request) /\ start' = pos
      /\ UNCHANGED <<msgs, pos, rest, served, replyvars>>
  BY DEF ClearRequest
<1>2. RequestOK(Cleared(request)) /\ Cleared(request).resault = FALSE
  <2>1. request.torecvbody \in Int
    BY DEF RequestInv, TaskOK, RequestOK
  <2>2. Like([Fresh EXCEPT !.torecvbody = request.torecvbody], Fresh)
    BY <2>1, FreshOK, FieldsOK
  <2> QED
    BY <2>2, FreshOK DEF Cleared, Like
<1>3. StreamOK'
  BY <1>1 DEF RequestInv, StreamOK, stream, Said
<1>4. TaskOK'
  BY <1>1, <1>2 DEF TaskOK, replyvars
<1>5. ReplyOK'
  BY <1>1 DEF RequestInv, ReplyOK, replyvars, Pending
<1> QED
  BY <1>3, <1>4, <1>5 DEF RequestInv

LEMMA FlushInv ==
  ASSUME RequestInv, WriteOutFlush
  PROVE  RequestInv'
<1>1. /\ tpc = "input" /\ tpc' = "idle" /\ writeoutbuffer' = NoBuffer
      /\ handed' = IF Pending THEN Append(handed, writeoutbuffer) ELSE handed
      /\ UNCHANGED <<parsevars, len, written>>
  BY DEF WriteOutFlush
<1>2. Gapless(handed') /\ EndOf(handed') = written - len
  <2>1. CASE Pending
    BY <1>1, <2>1, HandOver DEF RequestInv, ReplyOK
  <2>2. CASE ~Pending
    BY <1>1, <2>2 DEF RequestInv, ReplyOK
  <2> QED
    BY <2>1, <2>2
<1>3. ReplyOK'
  BY <1>1, <1>2 DEF RequestInv, ReplyOK, Pending
<1>4. StreamOK' /\ TaskOK'
  BY <1>1 DEF parsevars, RequestInv, StreamOK, TaskOK, stream, Said
<1> QED
  BY <1>3, <1>4 DEF RequestInv

LEMMA InputInv ==
  ASSUME RequestInv, DataInput
  PROVE  RequestInv'
<1>1. /\ tpc = "idle" /\ tpc' = "input" /\ pos < Len(stream)
      /\ UNCHANGED <<msgs, pos, start, request, served, replyvars>>
  BY DEF DataInput
<1>2. PICK n \in Pieces : rest' = SubSeq(stream, pos + 1, Min({pos + n, Len(stream)}))
  BY DEF DataInput
<1>3. stream \in Seq(AnyByte) /\ Len(stream) \in Nat /\ pos \in 0..Len(stream)
  BY <1>1, StreamType, LenProperties DEF RequestInv, StreamOK
<1> DEFINE m == Min({pos + n, Len(stream)})
<1>4. m \in pos..Len(stream)
  <2>1. n \in Nat
    BY LimitAssumption
  <2>2. m = IF pos + n <= Len(stream) THEN pos + n ELSE Len(stream)
    BY <1>3, <2>1, MinOfTwo
  <2> HIDE DEF m
  <2> QED
    BY <1>3, <2>1, <2>2
<1> HIDE DEF m
<1>5. /\ rest' \in Seq(AnyByte) /\ Len(rest') = m - pos
      /\ \A i \in 1..(m - pos) : rest'[i] = stream[pos + i]
  BY <1>2, <1>3, <1>4, Slice DEF m
<1>6. StreamOK'
  <2>1. pos + Len(rest') <= Len(stream) /\ stream' = stream
    BY <1>1, <1>3, <1>4, <1>5 DEF stream, Said
  <2> QED
    BY <1>1, <1>5, <2>1 DEF RequestInv, StreamOK
<1>7. TaskOK' /\ ReplyOK'
  BY <1>1 DEF RequestInv, TaskOK, ReplyOK, replyvars, Pending
<1> QED
  BY <1>6, <1>7 DEF RequestInv

LEMMA RequestStep == RequestInv /\ [Next]_reqvars => RequestInv'
<1> SUFFICES ASSUME RequestInv, [Next]_reqvars PROVE RequestInv'
  OBVIOUS
<1>1. CASE UNCHANGED reqvars
  BY <1>1 DEF reqvars, parsevars, replyvars, RequestInv, StreamOK, TaskOK, ReplyOK, Pending,
              stream, Said
<1>2. CASE InputChar \/ EndLine \/ EndHead
  BY <1>2, HeadInv
<1>3. CASE InputBody
  BY <1>3, BodyInv
<1>4. CASE WriteOut
  BY <1>4, WriteOutInv
<1>5. CASE ClearRequest
  BY <1>5, ClearInv
<1>6. CASE WriteOutFlush
  BY <1>6, FlushInv
<1>7. CASE DataInput
  BY <1>7, InputInv
<1> QED
  BY <1>1, <1>2, <1>3, <1>4, <1>5, <1>6, <1>7 DEF Next, DataInputStep

LEMMA RequestInvariant == SafeSpec => []RequestInv
BY InitRequest, RequestStep, PTL DEF SafeSpec

(* Type correctness: the parser is in the stream and reads on where it     *)
(* left off, wherever TCP cuts it, and a line is never longer than the     *)
(* limit and one byte.                                                     *)
THEOREM RequestTypeCorrect == SafeSpec => []TypeOK
<1>1. RequestInv => TypeOK
  <2> SUFFICES ASSUME RequestInv PROVE TypeOK
    OBVIOUS
  <2>1. stream \in Seq(AnyByte) /\ Len(stream) \in Nat
    BY StreamType, LenProperties DEF RequestInv, StreamOK
  <2>2. pos \in 0..Len(stream) /\ start \in 0..pos
    <3>1. Len(rest) \in Nat
      BY LenProperties DEF RequestInv, StreamOK
    <3> QED
      BY <2>1, <3>1 DEF RequestInv, StreamOK
  <2>3. rest = SubSeq(stream, pos + 1, pos + Len(rest))
    <3> DEFINE t == SubSeq(stream, pos + 1, pos + Len(rest))
    <3>1. rest \in Seq(AnyByte) /\ Len(rest) \in Nat /\ pos + Len(rest) \in pos..Len(stream)
      BY <2>1, LenProperties DEF RequestInv, StreamOK
    <3>2. /\ t \in Seq(AnyByte) /\ Len(t) = pos + Len(rest) - pos
          /\ \A i \in 1..(pos + Len(rest) - pos) : t[i] = stream[pos + i]
      BY <2>1, <2>2, <3>1, Slice
    <3> HIDE DEF t
    <3>3. Len(t) = Len(rest) /\ \A i \in 1..Len(rest) : t[i] = rest[i]
      BY <2>2, <3>1, <3>2 DEF RequestInv, StreamOK
    <3>4. t = rest
      BY <3>1, <3>2, <3>3, SeqEqual
    <3> QED
      BY <3>4 DEF t
  <2>4. writeoutbuffer = NoBuffer \/ writeoutbuffer.datalen \in 1..BufLen
    BY DEF RequestInv, ReplyOK, Pending, Chunk
  <2> QED
    BY <2>2, <2>3, <2>4 DEF RequestInv, TaskOK, RequestOK, ReplyOK, TypeOK
<1> QED
  BY <1>1, RequestInvariant, PTL

(* The replies reach AddWriteQueue byte for byte, in order, in buffers     *)
(* that are not empty, and none is kept back when datainput returns, for   *)
(* replies and buffers of any size.                                        *)
THEOREM RepliesAreInOrder == SafeSpec => []RepliesInOrder
<1>1. RequestInv => RepliesInOrder
  <2> SUFFICES ASSUME RequestInv PROVE RepliesInOrder
    OBVIOUS
  <2> DEFINE given == IF Pending THEN Append(handed, writeoutbuffer) ELSE handed
             before(i) == IF i = 1 THEN 0 ELSE given[i - 1].first + given[i - 1].datalen - 1
  <2>1. Gapless(given) /\ EndOf(given) = written - len
    BY HandOver DEF RequestInv, ReplyOK
  <2>2. tpc = "idle" => handed = given
    BY DEF RequestInv, ReplyOK
  <2> HIDE DEF given
  <2>3. given \in Seq(Chunk) /\ DOMAIN given = 1..Len(given) /\ Len(given) \in Nat
    BY <2>1, LenProperties DEF Gapless
  <2>4. \A i \in 1..Len(given) : given[i].first \in Int /\ given[i].datalen \in 1..BufLen
    <3>1. \A i \in 1..Len(given) : given[i] \in Chunk
      BY <2>3, ElementOfSeq
    <3> QED
      BY <3>1 DEF Chunk
  <2>5. ASSUME NEW i \in DOMAIN given
        PROVE  given[i].first = before(i) + 1 /\ given[i].datalen \in 1..BufLen
    <3>1. CASE i = 1
      BY <2>1, <2>4, <2>5, <3>1 DEF Gapless
    <3>2. CASE i # 1
      <4>1. i - 1 \in 1..Len(given)
        BY <2>3, <3>2
      <4>2. given[i].first = given[i - 1].first + given[i - 1].datalen
        BY <2>1, <3>2 DEF Gapless
      <4>3. given[i - 1].first \in Int /\ given[i - 1].datalen \in Int
        BY <2>4, <4>1, LimitAssumption
      <4> QED
        BY <2>3, <2>4, <3>2, <4>2, <4>3
    <3> QED
      BY <3>1, <3>2
  <2>6. before(Len(given) + 1) = written - len
    <3>1. CASE given = <<>>
      BY <2>1, <2>3, <3>1 DEF EndOf
    <3>2. CASE given # <<>>
      <4>1. Len(given) # 0
        BY <2>3, <3>2, EmptySeq
      <4> QED
        BY <2>1, <2>3, <3>2, <4>1 DEF EndOf
    <3> QED
      BY <3>1, <3>2
  <2> QED
    BY <2>2, <2>5, <2>6 DEF RepliesInOrder, given
<1> QED
  BY <1>1, RequestInvariant, PTL
-----------------------------------------------------------------------------
(* Where the parser is in a message.  In the head it has read i lines and  *)
(* j bytes of what follows them, in the body j bytes of it.                *)
Part(m, i) == IF i < Len(m.lines) THEN m.lines[i + 1] ELSE m.tail
HeadSize(m, i) == Size(Lines(m), i)
Begun(m, i, j) == SubSeq(Part(m, i), 1, j)
InLine(m, i, j, t) ==
  [HeadOf(m, i) EXCEPT !.inputbuffer = Begun(m, i, j), !.torecvbody = t]
FirstBytes(s, j) == [bytes |-> SubSeq(s, 1, j), nowpos |-> j]
AfterHead(m, j) ==
  [WholeHead(m) EXCEPT !.state = "RecvBody", !.body = FirstBytes(m.tail, j),
                       !.torecvbody = BodyLen(WholeHead(m)) - j]

InHead(m, o, r) ==
  \E i \in 0..Len(m.lines) : \E j \in 0..Len(Part(m, i)), t \in Int :
    /\ i < Len(m.lines) \/ ~HeadEnds(m)
    /\ o = HeadSize(m, i) + j
    /\ r = InLine(m, i, j, t)

InBody(m, o, r) ==
  \E j \in 0..Len(m.tail) :
    /\ HeadEnds(m) /\ BodyLen(WholeHead(m)) # 0
    /\ o = HeadSize(m, Len(m.lines)) + j
    /\ r = AfterHead(m, j)

Ongoing(m, o) == o < Len(Bytes(m)) \/ Unended(m)
Reading(m, o, r) == Ongoing(m, o) /\ (InHead(m, o, r) \/ InBody(m, o, r))

(* What is served are the first n messages, and the parser is in the next. *)
Meanings == [i \in 1..Len(msgs) |-> msgs[i].meaning]
SentUpto(n) ==
  /\ served = Upto(Meanings, n)
  /\ \/ (tpc = "reply" \/ n = Len(msgs)) /\ pos = Size(Texts, n)
     \/ /\ tpc # "reply" /\ n < Len(msgs)
        /\ Size(Texts, n) <= pos
        /\ Reading(msgs[n + 1], pos - Size(Texts, n), request)

MsgsOK ==
  /\ msgs \in Seq(Messages \cup Lasts)
  /\ \A i \in 1..(Len(msgs) - 1) : msgs[i] \in Messages

SentInv == MsgsOK /\ \E n \in 0..Len(msgs) : SentUpto(n)
-----------------------------------------------------------------------------
(* What stands in a message behind i lines and j bytes. *)
LEMMA PartType ==
  ASSUME NEW m \in Messages \cup Lasts, NEW i \in 0..Len(m.lines)
  PROVE  /\ Part(m, i) \in Seq(AnyByte) /\ Len(Part(m, i)) \in Nat
         /\ i < Len(m.lines) \/ ~HeadEnds(m) => \A x \in 1..Len(Part(m, i)) : Part(m, i)[x] # "nl"
         /\ i < Len(m.lines) => Len(Part(m, i)) <= MaxLine + 1
<1>1. CASE i < Len(m.lines)
  <2> DEFINE line == m.lines[i + 1]
  <2>1. i + 1 \in 1..Len(m.lines)
    BY <1>1, MessageParts
  <2>2. line \in Seq(Word) /\ Word \subseteq AnyByte /\ Part(m, i) = line
    BY <1>1, <2>1, MessageParts DEF Word, AnyByte, Part
  <2>3. Len(line) <= MaxLine + 1
    BY <2>1, MessageAssumption
  <2> HIDE DEF line
  <2>4. line \in Seq(AnyByte) /\ Len(line) \in Nat
    BY <2>2, SeqWider, LenProperties
  <2>5. \A x \in 1..Len(line) : line[x] \in Word
    BY <2>2, ElementOfSeq
  <2> QED
    BY <2>2, <2>3, <2>4, <2>5 DEF Word
<1>2. CASE ~(i < Len(m.lines))
  <2>1. Part(m, i) = m.tail
    BY <1>2 DEF Part
  <2> QED
    BY <1>2, <2>1, MessageParts, MessageAssumption
<1> QED
  BY <1>1, <1>2

LEMMA ReadInMessage ==
  ASSUME NEW m \in Messages \cup Lasts, NEW i \in 0..Len(m.lines), NEW j \in 0..Len(Part(m, i))
  PROVE  LET o == HeadSize(m, i) + j
         IN  /\ HeadSize(m, i) \in Nat /\ o \in Nat /\ Len(Bytes(m)) \in Nat
             /\ o <= Len(Bytes(m))
             /\ j < Len(Part(m, i)) => Bytes(m)[o + 1] = Part(m, i)[j + 1]
             /\ i < Len(m.lines) => o < Len(Bytes(m))
             /\ i < Len(m.lines) /\ j = Len(Part(m, i)) =>
                  Bytes(m)[o + 1] = "nl" /\ o + 1 = HeadSize(m, i + 1)
             /\ i = Len(m.lines) => Len(Bytes(m)) = HeadSize(m, i) + Len(m.tail)
<1> DEFINE ss == Lines(m)
           head == FlattenSeq(ss)
           h == HeadSize(m, i)
<1>1. /\ ss \in Seq(Seq(AnyByte)) /\ Len(ss) = Len(m.lines) /\ Len(m.lines) \in Nat
      /\ head \in Seq(AnyByte) /\ m.tail \in Seq(AnyByte) /\ Bytes(m) = head \o m.tail
  BY MessageParts
<1>2. /\ Len(Bytes(m)) = Len(head) + Len(m.tail) /\ Len(head) \in Nat /\ Len(m.tail) \in Nat
      /\ \A x \in 1..Len(head) : Bytes(m)[x] = head[x]
      /\ \A x \in 1..Len(m.tail) : Bytes(m)[Len(head) + x] = m.tail[x]
  <2> HIDE DEF head
  <2> QED
    BY <1>1, Joined
<1>3. Len(Part(m, i)) \in Nat
  BY PartType
<1>4. CASE i < Len(m.lines)
  <2> DEFINE k == i + 1
             line == m.lines[k]
  <2>1. k \in 1..Len(ss) /\ k - 1 = i /\ k \in 1..Len(m.lines) /\ Part(m, i) = line
    BY <1>1, <1>4 DEF Part
  <2>2. ss[k] = Append(line, "nl") /\ line \in Seq(Word)
    BY <1>1, <2>1, MessageParts DEF Lines
  <2>3. /\ Len(ss[k]) = Len(line) + 1
        /\ \A x \in 1..Len(line) : ss[k][x] = line[x]
        /\ ss[k][Len(line) + 1] = "nl"
    <3>1. line \in Seq(AnyByte) /\ "nl" \in AnyByte
      BY <2>1, PartType DEF AnyByte
    <3> HIDE DEF line
    <3> QED
      BY <2>2, <3>1, AppendProperties
  <2>4. /\ Size(ss, k - 1) \in Nat /\ Size(ss, k) \in Nat
        /\ Size(ss, k) = Size(ss, k - 1) + Len(ss[k])
        /\ Size(ss, k) <= Len(head)
        /\ \A x \in 1..Len(ss[k]) : head[Size(ss, k - 1) + x] = ss[k][x]
    <3> HIDE DEF ss, k
    <3> QED
      BY <1>1, <2>1, PieceAt
  <2>5. h = Size(ss, k - 1) /\ HeadSize(m, i + 1) = Size(ss, k)
    BY <2>1 DEF HeadSize
  <2>6. j \in 0..Len(line) /\ Len(line) \in Nat
    BY <1>3, <2>1
  <2> HIDE DEF ss, head, h, k, line
  <2>7. j + 1 \in 1..Len(ss[k]) /\ h + j + 1 = Size(ss, k - 1) + (j + 1)
        /\ h + j + 1 \in 1..Len(head) /\ h + j \in Nat /\ h + j + 1 <= Len(head)
        /\ h \in Nat
    <3> DEFINE a == Size(ss, k - 1)
               b == Size(ss, k)
               c == Len(head)
               d == Len(line)
    <3>1. /\ a \in Nat /\ b = a + (d + 1) /\ b <= c /\ c \in Nat /\ h = a /\ d \in Nat
          /\ j \in 0..d /\ Len(ss[k]) = d + 1
      BY <1>2, <2>3, <2>4, <2>5, <2>6
    <3> HIDE DEF a, b, c, d
    <3>2. /\ j + 1 \in 1..(d + 1) /\ h + j + 1 = a + (j + 1) /\ h + j + 1 \in 1..c
          /\ h + j \in Nat /\ h + j + 1 <= c /\ h \in Nat
      BY ONLY <3>1
    <3> QED
      BY <3>1, <3>2 DEF a, c
  <2>8. Bytes(m)[h + j + 1] = ss[k][j + 1]
    <3>1. Bytes(m)[h + j + 1] = head[h + j + 1]
      BY <1>2, <2>7
    <3>2. head[Size(ss, k - 1) + (j + 1)] = ss[k][j + 1]
      BY <2>4, <2>7
    <3> QED
      BY <2>7, <3>1, <3>2
  <2>9. /\ h \in Nat /\ h + j \in Nat /\ Len(Bytes(m)) \in Nat
        /\ h + j <= Len(Bytes(m)) /\ h + j < Len(Bytes(m))
    <3> DEFINE a == Len(head)
               b == Len(Bytes(m))
               c == Len(m.tail)
    <3>1. h \in Nat /\ j \in Nat /\ h + j + 1 <= a /\ a \in Nat /\ c \in Nat /\ b = a + c
      BY <1>2, <2>6, <2>7
    <3> HIDE DEF a, b, c
    <3> SUFFICES h + j \in Nat /\ b \in Nat /\ h + j <= b /\ h + j < b
      BY <3>1 DEF b
    <3> QED
      BY ONLY <3>1
  <2>10. j < Len(line) => Bytes(m)[h + j + 1] = line[j + 1]
    BY <2>3, <2>6, <2>8
  <2>11. j = Len(line) => Bytes(m)[h + j + 1] = "nl" /\ h + j + 1 = Size(ss, k)
    BY <2>3, <2>4, <2>5, <2>6, <2>8
  <2> QED
    BY <1>4, <2>1, <2>5, <2>9, <2>10, <2>11 DEF h, k
<1>5. CASE i = Len(m.lines)
  <2>1. Part(m, i) = m.tail /\ h = Len(head)
    <3>1. Size(ss, Len(ss)) = Len(head)
      <4> HIDE DEF ss
      <4> QED
        BY <1>1, PiecesEnd
    <3> QED
      BY <1>1, <1>5, <3>1 DEF Part, HeadSize
  <2> HIDE DEF ss, head, h
  <2>2. j < Len(m.tail) => j + 1 \in 1..Len(m.tail) /\ h + j + 1 = Len(head) + (j + 1)
    BY <1>2, <1>3, <2>1
  <2>3. j < Len(m.tail) => Bytes(m)[h + j + 1] = m.tail[j + 1]
    BY <1>2, <2>2
  <2>4. /\ h \in Nat /\ h + j \in Nat /\ Len(Bytes(m)) \in Nat /\ h + j <= Len(Bytes(m))
        /\ Len(Bytes(m)) = h + Len(m.tail)
    BY <1>2, <1>3, <2>1
  <2> QED
    BY <1>5, <2>1, <2>3, <2>4 DEF h
<1>6. i < Len(m.lines) \/ i = Len(m.lines)
  BY <1>1
<1> QED
  BY ONLY <1>4, <1>5, <1>6

(* A message that ends is one request; only the last may not end. *)
LEMMA Kinds ==
  ASSUME NEW m \in Messages \cup Lasts
  PROVE  /\ Whole(m) \/ TooLong(m) \/ Unended(m)
         /\ m \in Messages => ~Unended(m)
         /\ Unended(m) <=> m.meaning = <<>>
         /\ ~Unended(m) => \E x : m.meaning = <<x>>
<1>1. Whole(m) \/ TooLong(m) \/ Unended(m)
  BY MessageAssumption
<1>2. Whole(m) \/ TooLong(m) => \E x : m.meaning = <<x>>
  BY DEF Whole, TooLong
<1>3. \A x : <<x>> # <<>>
  OBVIOUS
<1>4. Unended(m) => m.meaning = <<>>
  BY DEF Unended
<1>5. m \in Messages => Whole(m) \/ TooLong(m)
  BY MessageAssumption
<1> QED
  BY <1>1, <1>2, <1>3, <1>4, <1>5

LEMMA HeadNone ==
  ASSUME NEW m \in Messages \cup Lasts
  PROVE  HeadSize(m, 0) = 0 /\ HeadOf(m, 0) = Fresh
<1>1. HeadSize(m, 0) = 0
  BY UptoNone DEF HeadSize, Size
<1> DEFINE none == [i \in 1..0 |-> Trim(m.lines[i], Blank)]
<1>2. none = <<>> /\ HeadOf(m, 0) = [Fresh EXCEPT !.headlines = none]
  BY DEF HeadOf
<1> HIDE DEF none
<1>3. HeadOf(m, 0) = Fresh
  <2>1. HeadOf(m, 0) = [Fresh EXCEPT !.headlines = <<>>]
    BY <1>2
  <2> QED
    BY <2>1 DEF Fresh
<1> QED
  BY <1>1, <1>3

(* A head that ends has a line. *)
LEMMA SomeLine ==
  ASSUME NEW m \in Messages \cup Lasts, HeadEnds(m)
  PROVE  Len(m.lines) \in Nat \ {0} /\ Trim(m.lines[Len(m.lines)], Blank) = <<>>
<1>1. m.lines \in Seq(Seq(Word)) /\ m.lines # <<>> /\ Len(m.lines) \in Nat
  BY MessageParts DEF HeadEnds
<1>2. Len(m.lines) # 0
  BY <1>1, EmptySeq
<1> QED
  BY <1>1, <1>2 DEF HeadEnds, Last

(* The beginning of a message. *)
LEMMA ReadingBegins ==
  ASSUME NEW m \in Messages \cup Lasts, NEW t \in Int
  PROVE  Reading(m, 0, [Fresh EXCEPT !.torecvbody = t])
<1>1. Len(m.lines) \in Nat /\ 0 \in 0..Len(m.lines)
  BY MessageParts
<1>2. /\ Part(m, 0) \in Seq(AnyByte) /\ Len(Part(m, 0)) \in Nat /\ 0 \in 0..Len(Part(m, 0))
      /\ SubSeq(Part(m, 0), 1, 0) = <<>>
  <2>1. Part(m, 0) \in Seq(AnyByte) /\ Len(Part(m, 0)) \in Nat
    BY <1>1, PartType
  <2> QED
    BY <2>1, FirstOnes
<1>3. HeadEnds(m) => 0 < Len(m.lines)
  BY <1>1, SomeLine
<1>4. HeadSize(m, 0) = 0 /\ HeadOf(m, 0) = Fresh
  BY HeadNone
<1>5. InLine(m, 0, 0, t) = [Fresh EXCEPT !.torecvbody = t]
  <2>1. InLine(m, 0, 0, t) = [Fresh EXCEPT !.inputbuffer = <<>>, !.torecvbody = t]
    BY <1>2, <1>4 DEF InLine, Begun
  <2> DEFINE q == [Fresh EXCEPT !.inputbuffer = <<>>]
  <2>2. InLine(m, 0, 0, t) = [q EXCEPT !.torecvbody = t] /\ q = [Fresh EXCEPT !.inputbuffer = <<>>]
    BY <2>1
  <2> HIDE DEF q
  <2>3. q = Fresh
    BY <2>2 DEF Fresh
  <2> QED
    BY <2>2, <2>3
<1>6. InHead(m, 0, [Fresh EXCEPT !.torecvbody = t])
  BY <1>1, <1>2, <1>3, <1>4, <1>5 DEF InHead
<1>7. /\ 0 < Len(m.lines) => 0 < Len(Bytes(m))
      /\ 0 = Len(m.lines) => Len(Bytes(m)) = Len(m.tail)
  BY <1>1, <1>2, <1>4, ReadInMessage, MessageParts
<1>8. Ongoing(m, 0)
  <2>1. CASE Whole(m)
    BY <1>3, <1>7, <2>1 DEF Whole, Ongoing
  <2>2. CASE TooLong(m)
    <3>1. Len(m.tail) > 0
      BY <2>2, LimitAssumption DEF TooLong
    <3> QED
      BY <1>1, <1>7, <3>1 DEF Ongoing
  <2>3. CASE Unended(m)
    BY <2>3 DEF Ongoing
  <2> QED
    BY <2>1, <2>2, <2>3, Kinds
<1> QED
  BY <1>6, <1>8 DEF Reading

(* Nothing but torecvbody differs between what is read at once and what is *)
(* read behind another request.                                            *)
With(r, t) == [r EXCEPT !.torecvbody = t]
Shaped(r) ==
  r = [state |-> r.state, act |-> r.act, uri |-> r.uri, vision |-> r.vision,
       headmap |-> r.headmap, headlines |-> r.headlines, inputbuffer |-> r.inputbuffer,
       body |-> r.body, torecvbody |-> r.torecvbody, resault |-> r.resault]

LEMMA WithType ==
  ASSUME NEW r, Shaped(r), NEW t, NEW q, q = With(r, t)
  PROVE  /\ Shaped(q)
         /\ q.state = r.state /\ q.act = r.act /\ q.uri = r.uri /\ q.vision = r.vision
         /\ q.headmap = r.headmap /\ q.headlines = r.headlines
         /\ q.inputbuffer = r.inputbuffer /\ q.body = r.body /\ q.resault = r.resault
         /\ q.torecvbody = t
<1>1. Shaped(q)
  BY DEF Shaped, With
<1> QED
  BY <1>1 DEF Shaped, With

(* What stays as it is while the first line is read. *)
Kept(q, r) ==
  /\ Shaped(q) /\ q.headlines = r.headlines /\ q.body = r.body /\ q.resault = r.resault

LEMMA FirstLineWith ==
  ASSUME NEW r, Shaped(r), NEW t
  PROVE  FirstLine(With(r, t)) = With(FirstLine(r), t) /\ Kept(FirstLine(r), r)
<1> DEFINE line == r.headlines[1]
           i == Find(line, "sp", 1)
           j == Find(line, "sp", i + 1)
           a == SubSeq(line, 1, i - 1)
           u == HttpDecodeUri(SubSeq(line, i + 1, j - 1))
           v == SubSeq(line, j + 1, Len(line))
           act(q) == [q EXCEPT !.act = a]
           all(q) == [act(q) EXCEPT !.uri = u, !.vision = v]
           w == With(r, t)
<1>1. w.headlines = r.headlines
  BY WithType
<1> HIDE DEF w
<1>2. FirstLine(w) = IF i = 0 THEN w ELSE IF j \in {0, i + 1} THEN act(w) ELSE all(w)
  BY <1>1 DEF FirstLine
<1>3. FirstLine(r) = IF i = 0 THEN r ELSE IF j \in {0, i + 1} THEN act(r) ELSE all(r)
  BY DEF FirstLine
<1> HIDE DEF line, i, j, a, u, v
<1>4. act(w) = With(act(r), t) /\ Kept(act(r), r)
  <2>1. act(w) = With(act(r), t)
    BY DEF With, w, Shaped
  <2>2. Shaped(act(r))
    BY DEF Shaped
  <2> QED
    BY <2>1, <2>2 DEF Kept, Shaped
<1>5. all(w) = With(all(r), t) /\ Kept(all(r), r)
  <2>1. all(w) = With(all(r), t)
    BY DEF With, w, Shaped
  <2> DEFINE q == act(r)
  <2>2. Kept(q, r) /\ all(r) = [q EXCEPT !.uri = u, !.vision = v]
    BY <1>4
  <2> HIDE DEF q
  <2>3. Kept([q EXCEPT !.uri = u, !.vision = v], q)
    <3> DEFINE p == [q EXCEPT !.uri = u]
               o == [p EXCEPT !.vision = v]
    <3>1. o = [q EXCEPT !.uri = u, !.vision = v]
      OBVIOUS
    <3>2. Shaped(p) /\ Kept(p, q)
      BY <2>2 DEF Kept, Shaped
    <3> HIDE DEF p
    <3>3. Shaped(o)
      BY <3>2 DEF Shaped
    <3>4. Kept(o, p)
      BY <3>2, <3>3 DEF Kept, Shaped
    <3> HIDE DEF o
    <3> QED
      BY <3>1, <3>2, <3>4 DEF Kept
  <2> QED
    BY <2>1, <2>2, <2>3 DEF Kept
<1>6. Kept(r, r)
  BY DEF Kept
<1> HIDE DEF act, all
<1> QED
  BY <1>2, <1>3, <1>4, <1>5, <1>6 DEF w

LEMMA HeadsWith ==
  ASSUME NEW r, Shaped(r), NEW t
  PROVE  /\ WithHeads(With(r, t)) = With(WithHeads(r), t) /\ Kept(WithHeads(r), r)
         /\ WithHeads(r).uri = r.uri /\ WithHeads(r).act = r.act
<1> DEFINE n == IF BadHeads(r) = {} THEN Len(r.headlines) ELSE Min(BadHeads(r)) - 1
           v == HeadMap(r.headlines, n)
           w == With(r, t)
<1>1. w.headlines = r.headlines
  BY WithType
<1> HIDE DEF w
<1>2. BadHeads(w) = BadHeads(r)
  BY <1>1 DEF BadHeads
<1>3. WithHeads(w) = [w EXCEPT !.headmap = v] /\ WithHeads(r) = [r EXCEPT !.headmap = v]
  BY <1>1, <1>2 DEF WithHeads
<1> HIDE DEF v
<1>4. [w EXCEPT !.headmap = v] = With([r EXCEPT !.headmap = v], t)
  BY DEF With, w, Shaped
<1>5. Shaped([r EXCEPT !.headmap = v])
  BY DEF Shaped
<1>6. Kept([r EXCEPT !.headmap = v], r)
  BY <1>5 DEF Kept, Shaped
<1>7. [r EXCEPT !.headmap = v].uri = r.uri /\ [r EXCEPT !.headmap = v].act = r.act
  BY DEF Shaped
<1> QED
  BY <1>3, <1>4, <1>6, <1>7 DEF w

(* The head of a message. *)
LEMMA HeadOfIs ==
  ASSUME NEW m, NEW n
  PROVE  /\ Shaped(HeadOf(m, n))
         /\ HeadOf(m, n).headlines = [i \in 1..n |-> Trim(m.lines[i], Blank)]
         /\ HeadOf(m, n).body = NewStream /\ HeadOf(m, n).resault = FALSE
         /\ HeadOf(m, n).uri = <<>> /\ HeadOf(m, n).state = "RecvFirstLine"
         /\ HeadOf(m, n).inputbuffer = <<>>
<1> DEFINE v == [i \in 1..n |-> Trim(m.lines[i], Blank)]
           h == HeadOf(m, n)
<1>1. h = [Fresh EXCEPT !.headlines = v]
  BY DEF HeadOf
<1> HIDE DEF v, h
<1>2. h = [state |-> "RecvFirstLine", act |-> <<>>, uri |-> <<>>, vision |-> <<>>,
           headmap |-> <<>>, headlines |-> v, inputbuffer |-> <<>>, body |-> NewStream,
           torecvbody |-> 0, resault |-> FALSE]
  BY <1>1 DEF Fresh
<1> QED
  BY <1>2 DEF Shaped, h, v

Taken(r) == WellFormed(r) /\ r.act \in {<<"GET">>, <<"POST">>}

LEMMA WholeHeadIs ==
  ASSUME NEW m
  PROVE  /\ Kept(WholeHead(m), HeadOf(m, Len(m.lines) - 1))
         /\ LET h == HeadOf(m, Len(m.lines) - 1)
                f == FirstLine(h)
            IN  WholeHead(m) = IF Len(h.headlines) < 2 THEN h
                               ELSE IF f.uri = <<>> THEN f ELSE WithHeads(f)
<1> DEFINE h == HeadOf(m, Len(m.lines) - 1)
           f == FirstLine(h)
<1>1. Kept(h, h) /\ Shaped(h)
  BY HeadOfIs DEF Kept
<1>2. WholeHead(m) = IF Len(h.headlines) < 2 THEN h
                     ELSE IF f.uri = <<>> THEN f ELSE WithHeads(f)
  BY DEF WholeHead
<1> HIDE DEF h
<1>3. Kept(f, h)
  BY <1>1, FirstLineWith
<1> HIDE DEF f
<1>4. Kept(WithHeads(f), f)
  BY <1>3, HeadsWith DEF Kept
<1>5. Kept(WithHeads(f), h)
  BY <1>3, <1>4 DEF Kept
<1> QED
  BY <1>1, <1>2, <1>3, <1>5 DEF h, f

(* What ProcessRequest is called with. *)
Serves(u, b, taken) ==
  \E q : ProcessRequest(q) /\ Served(q) = [uri |-> u, body |-> b, resault |-> taken]

LEMMA AcceptServes ==
  ASSUME NEW r, Shaped(r), Accept(r)
  PROVE  Serves(r.uri, r.body.bytes, TRUE)
<1> DEFINE q == [r EXCEPT !.resault = TRUE]
<1>1. ProcessRequest(q)
  BY DEF Accept
<1>2. q.uri = r.uri /\ q.body = r.body /\ q.resault = TRUE
  BY DEF Shaped
<1> HIDE DEF q
<1>3. Served(q) = [uri |-> r.uri, body |-> r.body.bytes, resault |-> TRUE]
  BY <1>2 DEF Served
<1> QED
  BY <1>1, <1>3 DEF Serves

LEMMA RefuseServes ==
  ASSUME NEW r, r.resault = FALSE, ProcessRequest(r)
  PROVE  Serves(r.uri, r.body.bytes, FALSE)
BY DEF Serves, Served

(* Behind the head, a body follows or the request is served. *)
LEMMA PostServes ==
  ASSUME NEW w, Shaped(w), w.body = NewStream, WellFormed(w), w.act = <<"POST">>,
         NEW t, NEW q, q = With(w, t), Post(q)
  PROVE  \/ BodyLen(w) = 0 /\ Serves(w.uri, <<>>, TRUE)
         \/ /\ BodyLen(w) # 0
            /\ Continue([w EXCEPT !.torecvbody = BodyLen(w), !.state = "RecvBody"])
<1>1. /\ Shaped(q) /\ q.uri = w.uri /\ q.headmap = w.headmap /\ q.body = w.body
      /\ q.state = w.state
  BY WithType
<1>2. Length(q) = Length(w)
  BY <1>1 DEF Length
<1>3. w.body.bytes = <<>>
  BY DEF NewStream
<1>4. BodyLen(w) = IF Length(w) # <<>> THEN Atoi(Length(w)) ELSE 0
  BY DEF BodyLen
<1>5. CASE Length(w) = <<>>
  <2>1. Accept(q)
    BY <1>2, <1>5 DEF Post
  <2> QED
    BY <1>1, <1>3, <1>4, <1>5, <2>1, AcceptServes
<1>6. CASE Length(w) # <<>> /\ Atoi(Length(w)) = 0
  <2> DEFINE p == [q EXCEPT !.torecvbody = 0]
  <2>1. Accept(p) /\ p = With(q, 0)
    BY <1>2, <1>6 DEF Post, With
  <2> HIDE DEF p
  <2>2. Shaped(p) /\ p.uri = q.uri /\ p.body = q.body
    BY <1>1, <2>1, WithType
  <2> QED
    BY <1>1, <1>3, <1>4, <1>6, <2>1, <2>2, AcceptServes
<1>7. CASE Length(w) # <<>> /\ Atoi(Length(w)) # 0
  <2> DEFINE v == Atoi(Length(w))
  <2>1. Continue([q EXCEPT !.torecvbody = v, !.state = "RecvBody"])
    BY <1>2, <1>7 DEF Post
  <2>2. v = BodyLen(w) /\ BodyLen(w) # 0
    BY <1>4, <1>7
  <2> HIDE DEF v
  <2>3. [q EXCEPT !.torecvbody = v, !.state = "RecvBody"]
          = [w EXCEPT !.torecvbody = v, !.state = "RecvBody"]
    <3> DEFINE a == [q EXCEPT !.torecvbody = v]
               b == [w EXCEPT !.torecvbody = v]
    <3>1. a = b
      BY DEF Shaped, With
    <3>2. [q EXCEPT !.torecvbody = v, !.state = "RecvBody"] = [a EXCEPT !.state = "RecvBody"]
      OBVIOUS
    <3>3. [w EXCEPT !.torecvbody = v, !.state = "RecvBody"] = [b EXCEPT !.state = "RecvBody"]
      OBVIOUS
    <3> HIDE DEF a, b
    <3> QED
      BY <3>1, <3>2, <3>3
  <2> QED
    BY <2>1, <2>2, <2>3
<1> QED
  BY <1>5, <1>6, <1>7

LEMMA HeadServes ==
  ASSUME NEW m, Len(m.lines) \in Nat \ {0}, NEW t, NEW ended,
         ended = With(HeadOf(m, Len(m.lines) - 1), t),
         \/ Len(ended.headlines) < 2 /\ ProcessRequest(ended)
         \/ /\ Len(ended.headlines) >= 2
            /\ LET r == FirstLine(ended)
               IN  \/ r.uri = <<>> /\ ProcessRequest(r)
                   \/ r.uri # <<>> /\ HeadFound(WithHeads(r))
  PROVE  LET w == WholeHead(m)
         IN  \/ BodyLen(w) = 0 /\ Serves(w.uri, <<>>, Taken(w))
             \/ /\ BodyLen(w) # 0
                /\ Continue([w EXCEPT !.torecvbody = BodyLen(w), !.state = "RecvBody"])
<1> DEFINE h == HeadOf(m, Len(m.lines) - 1)
           f == FirstLine(h)
           w == WholeHead(m)
           Goal == \/ BodyLen(w) = 0 /\ Serves(w.uri, <<>>, Taken(w))
                   \/ /\ BodyLen(w) # 0
                      /\ Continue([w EXCEPT !.torecvbody = BodyLen(w), !.state = "RecvBody"])
<1>1. /\ Shaped(h) /\ h.body = NewStream /\ h.resault = FALSE /\ h.uri = <<>>
      /\ Len(h.headlines) \in Nat
  <2> DEFINE n == Len(m.lines) - 1
             v == [i \in 1..n |-> Trim(m.lines[i], Blank)]
  <2>1. Len(v) = n /\ n \in Nat
    OBVIOUS
  <2>2. /\ Shaped(h) /\ h.body = NewStream /\ h.resault = FALSE /\ h.uri = <<>>
        /\ h.headlines = v
    BY HeadOfIs
  <2> HIDE DEF n, v, h
  <2> QED
    BY <2>1, <2>2
<1>2. Kept(w, h) /\ w = IF Len(h.headlines) < 2 THEN h
                        ELSE IF f.uri = <<>> THEN f ELSE WithHeads(f)
  BY WholeHeadIs
<1>3. ended = With(h, t)
  OBVIOUS
<1> HIDE DEF h, w
<1>4. /\ Shaped(ended) /\ ended.headlines = h.headlines /\ ended.body = h.body
      /\ ended.resault = h.resault /\ ended.uri = h.uri
  BY <1>1, <1>3, WithType
<1>5. FirstLine(ended) = With(f, t) /\ Kept(f, h)
  BY <1>1, <1>3, FirstLineWith
<1> HIDE DEF f
<1>6. NewStream.bytes = <<>>
  BY DEF NewStream
<1>7. CASE Len(h.headlines) < 2
  <2>1. ProcessRequest(ended) /\ w = h
    BY <1>1, <1>2, <1>4, <1>7
  <2>2. Serves(w.uri, <<>>, FALSE)
    BY <1>1, <1>4, <1>6, <2>1, RefuseServes
  <2>3. ~WellFormed(w)
    BY <1>1, <1>7, <2>1 DEF WellFormed
  <2> QED
    BY <2>2, <2>3 DEF BodyLen, Taken, w
<1>8. CASE Len(h.headlines) >= 2 /\ f.uri = <<>>
  <2> DEFINE r == FirstLine(ended)
  <2>1. w = f /\ r = With(f, t) /\ Shaped(f) /\ f.body = NewStream /\ f.resault = FALSE
    BY <1>1, <1>2, <1>5, <1>8 DEF Kept
  <2>2. r.uri = <<>> => ProcessRequest(r)
    BY <1>1, <1>4, <1>8
  <2> HIDE DEF r
  <2>3. r.uri = f.uri /\ r.body = f.body /\ r.resault = f.resault
    BY <2>1, WithType
  <2>4. Serves(w.uri, <<>>, FALSE)
    BY <1>6, <1>8, <2>1, <2>2, <2>3, RefuseServes
  <2>5. ~WellFormed(w)
    BY <1>8, <2>1 DEF WellFormed
  <2> QED
    BY <2>4, <2>5 DEF BodyLen, Taken, w
<1>9. CASE Len(h.headlines) >= 2 /\ f.uri # <<>>
  <2> DEFINE r == FirstLine(ended)
             q == WithHeads(r)
  <2>1. w = WithHeads(f) /\ r = With(f, t) /\ Shaped(f) /\ f.body = NewStream /\ f.resault = FALSE
    BY <1>1, <1>2, <1>5, <1>9 DEF Kept
  <2>2. r.uri # <<>> => HeadFound(q)
    BY <1>1, <1>4, <1>9
  <2> HIDE DEF r
  <2>3. r.uri = f.uri
    BY <2>1, WithType
  <2>4. q = With(w, t) /\ Kept(w, f) /\ w.uri = f.uri
    BY <2>1, HeadsWith
  <2>5. HeadFound(q)
    BY <1>9, <2>2, <2>3
  <2> HIDE DEF q
  <2>6. Shaped(w) /\ w.body = NewStream /\ w.resault = FALSE /\ w.headlines = h.headlines
    BY <1>2, <2>1, <2>4 DEF Kept
  <2>7. /\ Shaped(q) /\ q.uri = w.uri /\ q.body = w.body /\ q.resault = w.resault
        /\ q.act = w.act /\ q.headlines = w.headlines
    BY <2>4, <2>6, WithType
  <2>8. BadHeads(q) = BadHeads(w)
    BY <2>7 DEF BadHeads
  <2>9. WellFormed(w) <=> BadHeads(w) = {}
    BY <1>9, <2>4, <2>6 DEF WellFormed
  <2>10. CASE BadHeads(q) # {} /\ ProcessRequest(q)
    <3>1. Serves(w.uri, <<>>, FALSE)
      BY <1>6, <2>6, <2>7, <2>10, RefuseServes
    <3> QED
      BY <2>8, <2>9, <2>10, <3>1 DEF BodyLen, Taken, w
  <2>11. CASE BadHeads(q) = {} /\ q.act = <<"GET">> /\ Accept(q)
    <3>1. Serves(w.uri, <<>>, TRUE)
      BY <1>6, <2>6, <2>7, <2>11, AcceptServes
    <3>2. Taken(w)
      BY <2>7, <2>8, <2>9, <2>11 DEF Taken
    <3>3. BodyLen(w) = 0
      <4>1. <<"GET">> # <<"POST">>
        <5>1. <<"GET">>[1] = "GET" /\ <<"POST">>[1] = "POST"
          OBVIOUS
        <5> QED
          BY <5>1
      <4> QED
        BY <2>7, <2>11, <4>1 DEF BodyLen
    <3> QED
      BY <3>1, <3>2, <3>3 DEF w
  <2>12. CASE BadHeads(q) = {} /\ q.act = <<"POST">> /\ Post(q)
    <3>1. WellFormed(w) /\ w.act = <<"POST">> /\ Taken(w)
      BY <2>7, <2>8, <2>9, <2>12 DEF Taken
    <3>2. \/ BodyLen(w) = 0 /\ Serves(w.uri, <<>>, TRUE)
          \/ /\ BodyLen(w) # 0
             /\ Continue([w EXCEPT !.torecvbody = BodyLen(w), !.state = "RecvBody"])
      BY <2>4, <2>6, <2>12, <3>1, PostServes
    <3> QED
      BY <3>1, <3>2 DEF w
  <2>13. CASE BadHeads(q) = {} /\ q.act \notin {<<"GET">>, <<"POST">>} /\ ProcessRequest(q)
    <3>1. Serves(w.uri, <<>>, FALSE)
      BY <1>6, <2>6, <2>7, <2>13, RefuseServes
    <3> QED
      BY <2>7, <2>13, <3>1 DEF BodyLen, Taken, w
  <2> QED
    BY <2>5, <2>10, <2>11, <2>12, <2>13 DEF HeadFound
<1> QED
  BY <1>1, <1>7, <1>8, <1>9
-----------------------------------------------------------------------------
(* What the parser makes of d bytes of a message, behind o of them.        *)
Proceeds(m, o, d) ==
  \/ \E q : Continue(q) /\ Reading(m, o + d, q)
  \/ o + d = Len(Bytes(m)) /\ \E x : m.meaning = <<x>> /\ \E q : ProcessRequest(q) /\ Served(q) = x

(* The message that the parser is in. *)
LEMMA NextMessage ==
  ASSUME StreamOK, MsgsOK, NEW n \in 0..Len(msgs), n < Len(msgs)
  PROVE  LET m == msgs[n + 1]
         IN  /\ m \in Messages \cup Lasts
             /\ Size(Texts, n) \in Nat /\ Len(Bytes(m)) \in Nat
             /\ Size(Texts, n + 1) = Size(Texts, n) + Len(Bytes(m))
             /\ Size(Texts, n + 1) <= Len(stream)
             /\ \A x \in 1..Len(Bytes(m)) : stream[Size(Texts, n) + x] = Bytes(m)[x]
             /\ Unended(m) => n + 1 = Len(msgs) /\ Size(Texts, n + 1) = Len(stream)
<1> DEFINE k == n + 1
           m == msgs[k]
<1>1. /\ stream = FlattenSeq(Texts) /\ Texts \in Seq(Seq(AnyByte)) /\ Len(Texts) = Len(msgs)
      /\ Len(msgs) \in Nat /\ msgs \in Seq(Messages \cup Lasts)
  BY StreamType DEF MsgsOK
<1>2. k \in 1..Len(Texts) /\ k - 1 = n /\ k \in 1..Len(msgs)
  BY <1>1
<1> HIDE DEF k
<1>3. m \in Messages \cup Lasts /\ Texts[k] = Bytes(m)
  BY <1>1, <1>2, ElementOfSeq DEF Texts
<1> HIDE DEF m
<1>4. /\ Size(Texts, k - 1) \in Nat /\ Size(Texts, k) \in Nat /\ Len(Texts[k]) \in Nat
      /\ Size(Texts, k) = Size(Texts, k - 1) + Len(Texts[k])
      /\ Size(Texts, k) <= Len(FlattenSeq(Texts))
      /\ \A x \in 1..Len(Texts[k]) : FlattenSeq(Texts)[Size(Texts, k - 1) + x] = Texts[k][x]
  BY <1>1, <1>2, PieceAt
<1>5. ASSUME Unended(m) PROVE k = Len(msgs) /\ Size(Texts, k) = Len(stream)
  <2>1. m \notin Messages
    BY <1>3, <1>5, Kinds
  <2>2. k \notin 1..(Len(msgs) - 1)
    BY <2>1 DEF MsgsOK, m
  <2>3. k = Len(msgs)
    BY <1>1, <1>2, <2>2
  <2>4. Size(Texts, Len(Texts)) = Len(FlattenSeq(Texts))
    BY <1>1, PiecesEnd
  <2> QED
    BY <1>1, <2>3, <2>4
<1> QED
  BY <1>1, <1>2, <1>3, <1>4, <1>5 DEF k, m

(* What of it is not yet parsed. *)
LEMMA RestOfMessage ==
  ASSUME StreamOK, MsgsOK, NEW n \in 0..Len(msgs), n < Len(msgs), rest # <<>>,
         NEW o \in Nat, pos = Size(Texts, n) + o, Ongoing(msgs[n + 1], o)
  PROVE  LET m == msgs[n + 1]
         IN  /\ o < Len(Bytes(m))
             /\ Len(rest) \in Nat \ {0}
             /\ \A x \in 1..Len(rest) : o + x <= Len(Bytes(m)) => rest[x] = Bytes(m)[o + x]
             /\ Unended(m) => o + Len(rest) <= Len(Bytes(m))
<1> DEFINE m == msgs[n + 1]
           a == Size(Texts, n)
           l == Len(Bytes(m))
<1>1. /\ a \in Nat /\ l \in Nat
      /\ \A x \in 1..l : stream[a + x] = Bytes(m)[x]
      /\ Unended(m) => a + l = Len(stream)
  <2>1. /\ a \in Nat /\ l \in Nat /\ Size(Texts, n + 1) = a + l
        /\ \A x \in 1..l : stream[a + x] = Bytes(m)[x]
        /\ Unended(m) => Size(Texts, n + 1) = Len(stream)
    BY NextMessage
  <2> QED
    BY <2>1
<1>2. pos = a + o /\ (o < l \/ Unended(m))
  BY DEF Ongoing
<1> HIDE DEF m, a, l
<1>3. rest \in Seq(AnyByte) /\ Len(rest) \in Nat
  BY LenProperties DEF StreamOK
<1>4. Len(rest) # 0
  BY <1>3, EmptySeq
<1>5. pos + Len(rest) <= Len(stream) /\ \A x \in 1..Len(rest) : rest[x] = stream[pos + x]
  BY DEF StreamOK
<1>6. Unended(m) => o + Len(rest) <= l
  BY <1>1, <1>2, <1>3, <1>5
<1>7. o < l
  BY <1>1, <1>2, <1>3, <1>4, <1>6
<1>8. ASSUME NEW x \in 1..Len(rest), o + x <= l PROVE rest[x] = Bytes(m)[o + x]
  <2>1. o + x \in 1..l /\ pos + x = a + (o + x)
    <3>1. x \in Nat \ {0} /\ a \in Nat /\ l \in Nat /\ pos = a + o /\ o \in Nat /\ o + x <= l
      BY <1>1, <1>2, <1>3, <1>8
    <3> QED
      BY ONLY <3>1
  <2>2. rest[x] = stream[pos + x] /\ stream[a + (o + x)] = Bytes(m)[o + x]
    BY <1>1, <1>5, <2>1
  <2> QED
    BY <2>1, <2>2
<1> QED
  BY <1>3, <1>4, <1>6, <1>7, <1>8 DEF m, l

(* One message more is served. *)
AnyRequest == {msgs[i].meaning[1] : i \in 1..Len(msgs)}

LEMMA MeaningsType ==
  ASSUME MsgsOK
  PROVE  Meanings \in Seq(Seq(AnyRequest)) /\ Len(Meanings) = Len(msgs) /\ Len(msgs) \in Nat
<1>1. msgs \in Seq(Messages \cup Lasts) /\ Len(msgs) \in Nat
  BY LenProperties DEF MsgsOK
<1>2. ASSUME NEW i \in 1..Len(msgs) PROVE msgs[i].meaning \in Seq(AnyRequest)
  <2>1. msgs[i] \in Messages \cup Lasts
    BY <1>1, ElementOfSeq
  <2>2. msgs[i].meaning = <<>> \/ \E y : msgs[i].meaning = <<y>>
    BY <2>1, Kinds
  <2>3. CASE msgs[i].meaning = <<>>
    BY <2>3
  <2>4. CASE \E y : msgs[i].meaning = <<y>>
    <3>1. PICK y : msgs[i].meaning = <<y>>
      BY <2>4
    <3>2. y = msgs[i].meaning[1]
      BY <3>1
    <3>3. y \in AnyRequest
      BY <3>2 DEF AnyRequest
    <3> QED
      BY <3>1, <3>3
  <2> QED
    BY <2>2, <2>3, <2>4
<1> QED
  BY <1>1, <1>2, IsASeq DEF Meanings

LEMMA ServedNext ==
  ASSUME MsgsOK, NEW n \in 0..Len(msgs), n < Len(msgs), NEW x, msgs[n + 1].meaning = <<x>>
  PROVE  Upto(Meanings, n + 1) = Append(Upto(Meanings, n), x)
<1> DEFINE k == n + 1
<1>1. /\ Meanings \in Seq(Seq(AnyRequest)) /\ Len(Meanings) = Len(msgs)
      /\ Len(msgs) \in Nat
  BY MeaningsType
<1>2. k \in 1..Len(Meanings) /\ k - 1 = n /\ k \in 1..Len(msgs)
  BY <1>1
<1>3. Meanings[k] = <<x>> /\ x = msgs[k].meaning[1]
  BY <1>2 DEF Meanings
<1>4. x \in AnyRequest
  BY <1>2, <1>3 DEF AnyRequest
<1> HIDE DEF k
<1>5. /\ Upto(Meanings, k - 1) \in Seq(AnyRequest)
      /\ Upto(Meanings, k) = Upto(Meanings, k - 1) \o Meanings[k]
  BY <1>1, <1>2, UptoNext
<1>6. Append(Upto(Meanings, n), x) = Upto(Meanings, n) \o <<x>>
  BY <1>2, <1>4, <1>5, AppendIsConcat
<1> QED
  BY <1>2, <1>3, <1>5, <1>6 DEF k

LEMMA ProceedsInv ==
  ASSUME StreamOK, MsgsOK, NEW n \in 0..Len(msgs), n < Len(msgs), served = Upto(Meanings, n),
         tpc = "input", NEW o \in Nat, pos = Size(Texts, n) + o, NEW d \in Nat, Consume(d),
         UNCHANGED msgs, Proceeds(msgs[n + 1], o, d)
  PROVE  SentInv'
<1> DEFINE m == msgs[n + 1]
           a == Size(Texts, n)
<1>1. Texts' = Texts /\ Meanings' = Meanings /\ MsgsOK' /\ Len(msgs) \in Nat
  BY LenProperties DEF Texts, Meanings, MsgsOK
<1>2. pos' = pos + d
  BY DEF Consume
<1>3. a \in Nat /\ Size(Texts, n + 1) = a + Len(Bytes(m)) /\ Len(Bytes(m)) \in Nat
  BY NextMessage
<1>4. ASSUME NEW q, Continue(q), Reading(m, o + d, q) PROVE SentUpto(n)'
  <2>1. request' = q /\ tpc' = "input" /\ served' = served
    BY <1>4 DEF Continue
  <2>2. a <= pos' /\ pos' - a = o + d
    BY <1>2, <1>3
  <2>3. Reading(msgs[n + 1], pos' - a, request')
    BY <1>4, <2>1, <2>2
  <2>4. served' = Upto(Meanings, n)
    BY <2>1
  <2> HIDE DEF m
  <2> QED
    BY <1>1, <2>1, <2>2, <2>3, <2>4 DEF SentUpto
<1>5. ASSUME o + d = Len(Bytes(m)), NEW x, m.meaning = <<x>>,
             NEW q, ProcessRequest(q), Served(q) = x
      PROVE  SentUpto(n + 1)'
  <2>1. tpc' = "reply" /\ served' = Append(served, x)
    BY <1>5 DEF ProcessRequest
  <2>2. served' = Upto(Meanings, n + 1)
    BY <1>5, <2>1, ServedNext
  <2>3. pos' = Size(Texts, n + 1)
    BY <1>2, <1>3, <1>5
  <2> QED
    BY <1>1, <2>1, <2>2, <2>3 DEF SentUpto
<1>6. SentUpto(n)' \/ SentUpto(n + 1)'
  BY <1>4, <1>5 DEF Proceeds
<1>7. n \in 0..Len(msgs') /\ n + 1 \in 0..Len(msgs')
  BY <1>1
<1> QED
  BY <1>1, <1>6, <1>7 DEF SentInv
-----------------------------------------------------------------------------
(* The rest is what follows o bytes of m. *)
Ahead(m, o) ==
  /\ m \in Messages \cup Lasts /\ o \in Nat /\ o < Len(Bytes(m))
  /\ rest \in Seq(AnyByte) /\ Len(rest) \in Nat \ {0}
  /\ \A x \in 1..Len(rest) : o + x <= Len(Bytes(m)) => rest[x] = Bytes(m)[o + x]
  /\ Unended(m) => o + Len(rest) <= Len(Bytes(m))

LEMMA ByteAhead ==
  ASSUME NEW m, NEW o, Ahead(m, o), NEW i \in 0..Len(m.lines), NEW j \in 0..Len(Part(m, i)),
         i < Len(m.lines) \/ ~HeadEnds(m), o = HeadSize(m, i) + j
  PROVE  /\ rest[1] # "nl" => j < Len(Part(m, i)) /\ rest[1] = Part(m, i)[j + 1]
         /\ rest[1] = "nl" => /\ i < Len(m.lines) /\ j = Len(Part(m, i))
                              /\ o + 1 = HeadSize(m, i + 1)
<1> DEFINE p == Part(m, i)
           b == Bytes(m)
           h == HeadSize(m, i)
           l == Len(m.lines)
<1>1. m \in Messages \cup Lasts /\ o \in Nat /\ o < Len(b) /\ Len(rest) \in Nat \ {0}
  BY DEF Ahead
<1>2. Len(p) \in Nat /\ \A x \in 1..Len(p) : p[x] # "nl"
  BY <1>1, PartType
<1>3. l \in Nat /\ Len(m.tail) \in Nat
  BY <1>1, MessageParts
<1>4. /\ h \in Nat /\ Len(b) \in Nat
      /\ j < Len(p) => b[o + 1] = p[j + 1]
      /\ i < l /\ j = Len(p) => b[o + 1] = "nl" /\ o + 1 = HeadSize(m, i + 1)
      /\ i = l => Len(b) = h + Len(m.tail)
  <2>1. o = h + j
    OBVIOUS
  <2> QED
    BY <1>1, <2>1, ReadInMessage
<1>5. i = l => p = m.tail
  BY <1>3 DEF Part
<1>6. rest[1] = b[o + 1]
  <2>1. 1 \in 1..Len(rest) /\ o + 1 <= Len(b)
    BY <1>1, <1>4
  <2> QED
    BY <2>1 DEF Ahead
<1>7. o = h + j /\ j \in Nat /\ j <= Len(p) /\ i <= l /\ i \in Nat
  BY <1>2, <1>3
<1> HIDE DEF p, b, h, l
<1>8. CASE j < Len(p)
  <2>1. j + 1 \in 1..Len(p)
    BY <1>2, <1>7, <1>8
  <2>2. rest[1] = p[j + 1] /\ p[j + 1] # "nl"
    BY <1>2, <1>4, <1>6, <1>8, <2>1
  <2> QED
    BY <1>8, <2>2 DEF p
<1>9. CASE j = Len(p)
  <2>1. i < l
    <3>1. i = l => o = Len(b)
      BY <1>4, <1>5, <1>7, <1>9
    <3> QED
      BY <1>1, <1>3, <1>4, <1>7, <3>1
  <2> QED
    BY <1>4, <1>6, <1>9, <2>1 DEF p, l
<1> QED
  BY <1>2, <1>7, <1>8, <1>9

LEMMA HeadKinds ==
  ASSUME NEW m \in Messages \cup Lasts
  PROVE  /\ ~HeadEnds(m) => \/ TooLong(m) /\ Len(m.tail) = MaxLine + 2
                            \/ Unended(m) /\ Len(m.tail) <= MaxLine + 1
         /\ HeadEnds(m) => \/ /\ Whole(m) /\ Len(m.tail) = BodyLen(WholeHead(m))
                           \/ /\ Unended(m)
                              /\ \/ BodyLen(WholeHead(m)) < 0
                                 \/ Len(m.tail) < BodyLen(WholeHead(m))
BY Kinds DEF Whole, TooLong, Unended

PutsIn(m, i, t, r) ==
  \A v : [r EXCEPT !.inputbuffer = v]
           = [HeadOf(m, i) EXCEPT !.inputbuffer = v, !.torecvbody = t]

LEMMA InLineIs ==
  ASSUME NEW m, NEW i, NEW j, NEW t
  PROVE  /\ InLine(m, i, j, t).state = "RecvFirstLine"
         /\ InLine(m, i, j, t).inputbuffer = Begun(m, i, j)
         /\ InLine(m, i, j, t).headlines = HeadOf(m, i).headlines
         /\ InLine(m, i, j, t).uri = <<>> /\ InLine(m, i, j, t).body = NewStream
         /\ InLine(m, i, j, t).resault = FALSE
         /\ PutsIn(m, i, t, InLine(m, i, j, t))
<1> DEFINE h == HeadOf(m, i)
           v == Begun(m, i, j)
           r == InLine(m, i, j, t)
<1>1. /\ Shaped(h) /\ h.body = NewStream /\ h.resault = FALSE /\ h.uri = <<>>
      /\ h.state = "RecvFirstLine" /\ h.inputbuffer = <<>>
  BY HeadOfIs
<1>2. r = [h EXCEPT !.inputbuffer = v, !.torecvbody = t]
  BY DEF InLine
<1> HIDE DEF h, v, r
<1>3. /\ r.state = "RecvFirstLine" /\ r.inputbuffer = v /\ r.headlines = h.headlines
      /\ r.uri = <<>> /\ r.body = NewStream /\ r.resault = FALSE
  BY <1>1, <1>2 DEF Shaped
<1>4. ASSUME NEW u
      PROVE  [r EXCEPT !.inputbuffer = u] = [h EXCEPT !.inputbuffer = u, !.torecvbody = t]
  BY <1>1, <1>2 DEF Shaped
<1> QED
  BY <1>3, <1>4 DEF h, v, r, PutsIn

LEMMA AfterHeadIs ==
  ASSUME NEW m, NEW j, NEW r, r = AfterHead(m, j)
  PROVE  /\ Shaped(r) /\ r.state = "RecvBody"
         /\ r.uri = WholeHead(m).uri /\ r.resault = FALSE
         /\ r.body = FirstBytes(m.tail, j)
         /\ r.torecvbody = BodyLen(WholeHead(m)) - j
<1> DEFINE w == WholeHead(m)
           b == FirstBytes(m.tail, j)
           n == BodyLen(w) - j
<1>1. Shaped(w) /\ w.resault = FALSE
  BY WholeHeadIs, HeadOfIs DEF Kept
<1>2. r = [w EXCEPT !.state = "RecvBody", !.body = b, !.torecvbody = n]
  BY DEF AfterHead
<1> HIDE DEF w, b, n
<1>3. /\ r.state = "RecvBody" /\ r.uri = w.uri /\ r.resault = FALSE
      /\ r.body = b /\ r.torecvbody = n
  BY <1>1, <1>2 DEF Shaped
<1>4. Shaped(r)
  BY <1>1, <1>2 DEF Shaped
<1> QED
  BY <1>3, <1>4 DEF w, b, n

LEMMA BodyLenType == ASSUME NEW r PROVE BodyLen(r) \in Int
BY DEF BodyLen, Atoi, Number

(* The state tells where the parser is. *)
LEMMA InHeadState ==
  ASSUME NEW m, NEW o, Reading(m, o, request), request.state = "RecvFirstLine"
  PROVE  InHead(m, o, request)
<1>1. ASSUME NEW j, request = AfterHead(m, j) PROVE FALSE
  <2>1. request.state = "RecvBody"
    BY ONLY <1>1, AfterHeadIs
  <2> QED
    BY <1>1, <2>1
<1> QED
  BY <1>1 DEF Reading, InBody

LEMMA StepChar ==
  ASSUME NEW m, NEW o, Ahead(m, o), Reading(m, o, request), InputChar
  PROVE  Proceeds(m, o, 1)
<1>1. request.state = "RecvFirstLine" /\ rest[1] # "nl"
  BY DEF InputChar, HeadByte
<1>2. InHead(m, o, request)
  BY <1>1, InHeadState
<1>3. PICK i \in 0..Len(m.lines) : \E j \in 0..Len(Part(m, i)), t \in Int :
        /\ i < Len(m.lines) \/ ~HeadEnds(m)
        /\ o = HeadSize(m, i) + j
        /\ request = InLine(m, i, j, t)
  BY <1>2 DEF InHead
<1>4. PICK j \in 0..Len(Part(m, i)), t \in Int :
        /\ i < Len(m.lines) \/ ~HeadEnds(m)
        /\ o = HeadSize(m, i) + j
        /\ request = InLine(m, i, j, t)
  BY <1>3
<1> DEFINE p == Part(m, i)
           s == SubSeq(p, 1, j)
           n == Len(p)
<1>5. m \in Messages \cup Lasts /\ Len(m.lines) \in Nat /\ Len(m.tail) \in Nat /\ o \in Nat
  BY MessageParts DEF Ahead
<1>6. p \in Seq(AnyByte) /\ n \in Nat /\ (i < Len(m.lines) => n <= MaxLine + 1)
  BY <1>5, PartType
<1>7. j < n /\ rest[1] = p[j + 1]
  BY <1>1, <1>4, ByteAhead
<1>8. j \in 0..(n - 1) /\ j \in 0..n /\ j + 1 \in 0..n
  BY <1>6, <1>7
<1>9. Len(s) = j /\ Append(s, p[j + 1]) = SubSeq(p, 1, j + 1)
  <2> HIDE DEF p
  <2> QED
    BY <1>6, <1>8, FirstOnes
<1>10. /\ request.inputbuffer = s /\ request.uri = <<>> /\ request.body = NewStream
       /\ request.resault = FALSE
       /\ PutsIn(m, i, t, request)
  <2>1. request = InLine(m, i, j, t)
    BY <1>4
  <2>2. /\ request.inputbuffer = Begun(m, i, j) /\ request.uri = <<>>
        /\ request.body = NewStream /\ request.resault = FALSE /\ PutsIn(m, i, t, request)
    BY ONLY <2>1, InLineIs
  <2> QED
    BY <2>2 DEF Begun
<1>11. i = Len(m.lines) => /\ p = m.tail /\ ~HeadEnds(m) /\ Len(Bytes(m)) = HeadSize(m, i) + n
                           /\ HeadSize(m, i) \in Nat
  BY <1>4, <1>5, ReadInMessage DEF Part
<1>12. MaxLine \in Nat /\ j \in Nat /\ (i < Len(m.lines) \/ i = Len(m.lines))
  BY <1>5, LimitAssumption
<1>13. CASE j > MaxLine
  <2>1. i = Len(m.lines) /\ n > MaxLine + 1
    BY <1>6, <1>7, <1>12, <1>13
  <2>2. TooLong(m) /\ n = MaxLine + 2
    BY <1>5, <1>11, <1>12, <2>1, HeadKinds
  <2>3. o + 1 = Len(Bytes(m))
    <3>1. o = HeadSize(m, i) + j /\ Len(Bytes(m)) = HeadSize(m, i) + n /\ HeadSize(m, i) \in Nat
      BY <1>4, <1>11, <2>1
    <3>2. n = j + 1
      BY <1>7, <1>12, <1>13, <2>2
    <3> QED
      BY <1>12, <3>1, <3>2
  <2>4. ProcessRequest(request)
    BY <1>9, <1>10, <1>13 DEF InputChar
  <2>5. Served(request) = [uri |-> <<>>, body |-> <<>>, resault |-> FALSE]
    <3>1. NewStream.bytes = <<>>
      BY DEF NewStream
    <3>2. request.body.bytes = <<>>
      BY <1>10, <3>1
    <3> QED
      BY <1>10, <3>2 DEF Served
  <2> QED
    BY <2>2, <2>3, <2>4, <2>5 DEF Proceeds, TooLong
<1>14. CASE ~(j > MaxLine)
  <2>1. Continue([request EXCEPT !.inputbuffer = Append(@, rest[1])])
    BY <1>9, <1>10, <1>14 DEF InputChar
  <2>2. [request EXCEPT !.inputbuffer = Append(@, rest[1])] = InLine(m, i, j + 1, t)
    <3> DEFINE v == SubSeq(p, 1, j + 1)
    <3>1. Append(request.inputbuffer, rest[1]) = v
      BY <1>7, <1>9, <1>10
    <3>2. InLine(m, i, j + 1, t) = [HeadOf(m, i) EXCEPT !.inputbuffer = v, !.torecvbody = t]
      BY DEF InLine, Begun
    <3>3. [request EXCEPT !.inputbuffer = Append(@, rest[1])] = [request EXCEPT !.inputbuffer = v]
      BY <3>1
    <3> HIDE DEF v
    <3> QED
      BY <1>10, <3>2, <3>3 DEF PutsIn
  <2>3. o + 1 = HeadSize(m, i) + (j + 1)
    <3>1. HeadSize(m, i) \in Nat
      BY <1>4, <1>5, ReadInMessage
    <3> QED
      BY <1>4, <1>12, <3>1
  <2>4. InHead(m, o + 1, InLine(m, i, j + 1, t))
    BY <1>4, <1>8, <2>3 DEF InHead
  <2>5. Ongoing(m, o + 1)
    <3>1. CASE i < Len(m.lines)
      <4>1. HeadSize(m, i) + (j + 1) < Len(Bytes(m))
        BY <1>5, <1>8, <3>1, ReadInMessage
      <4> QED
        BY <2>3, <4>1 DEF Ongoing
    <3>2. CASE i = Len(m.lines)
      <4>1. CASE Unended(m)
        BY <4>1 DEF Ongoing
      <4>2. CASE Len(m.tail) = MaxLine + 2
        <5>1. /\ Len(Bytes(m)) = HeadSize(m, i) + n /\ n = MaxLine + 2 /\ HeadSize(m, i) \in Nat
          BY <1>11, <3>2, <4>2
        <5>2. o + 1 < Len(Bytes(m))
          BY <1>12, <1>14, <2>3, <5>1
        <5> QED
          BY <5>2 DEF Ongoing
      <4> QED
        BY <1>5, <1>11, <3>2, <4>1, <4>2, HeadKinds
    <3> QED
      BY <1>12, <3>1, <3>2
  <2> QED
    BY <2>1, <2>2, <2>4, <2>5 DEF Proceeds, Reading
<1> QED
  BY <1>13, <1>14

(* A line end stands behind a line. *)
LEMMA AtLineEnd ==
  ASSUME NEW m, NEW o, Ahead(m, o), Reading(m, o, request), HeadByte(TRUE)
  PROVE  \E i \in 0..(Len(m.lines) - 1), t \in Int :
           /\ request.headlines = HeadOf(m, i).headlines
           /\ PutsIn(m, i, t, request)
           /\ Line = Trim(m.lines[i + 1], Blank)
           /\ o + 1 = HeadSize(m, i + 1)
<1>1. request.state = "RecvFirstLine" /\ rest[1] = "nl"
  BY DEF HeadByte
<1>2. InHead(m, o, request)
  BY <1>1, InHeadState
<1>3. PICK i \in 0..Len(m.lines) : \E j \in 0..Len(Part(m, i)), t \in Int :
        /\ i < Len(m.lines) \/ ~HeadEnds(m)
        /\ o = HeadSize(m, i) + j
        /\ request = InLine(m, i, j, t)
  BY <1>2 DEF InHead
<1>4. PICK j \in 0..Len(Part(m, i)), t \in Int :
        /\ i < Len(m.lines) \/ ~HeadEnds(m)
        /\ o = HeadSize(m, i) + j
        /\ request = InLine(m, i, j, t)
  BY <1>3
<1>5. m \in Messages \cup Lasts /\ Len(m.lines) \in Nat
  BY MessageParts DEF Ahead
<1>6. i < Len(m.lines) /\ j = Len(Part(m, i)) /\ o + 1 = HeadSize(m, i + 1)
  BY <1>1, <1>4, ByteAhead
<1>7. Part(m, i) \in Seq(AnyByte) /\ Part(m, i) = m.lines[i + 1]
  BY <1>5, <1>6, PartType DEF Part
<1>8. Begun(m, i, j) = Part(m, i)
  <2> DEFINE p == Part(m, i)
  <2>1. p \in Seq(AnyByte) /\ Begun(m, i, j) = SubSeq(p, 1, Len(p))
    BY <1>6, <1>7 DEF Begun
  <2> HIDE DEF p
  <2>2. SubSeq(p, 1, Len(p)) = p
    BY <2>1, FirstOnes
  <2> QED
    BY <2>1, <2>2 DEF p
<1>9. /\ request.inputbuffer = Begun(m, i, j) /\ request.headlines = HeadOf(m, i).headlines
      /\ PutsIn(m, i, t, request)
  <2>1. request = InLine(m, i, j, t)
    BY <1>4
  <2> QED
    BY ONLY <2>1, InLineIs
<1>10. Line = Trim(m.lines[i + 1], Blank)
  BY <1>7, <1>8, <1>9 DEF Line
<1>11. i \in 0..(Len(m.lines) - 1)
  BY <1>5, <1>6
<1> QED
  BY <1>6, <1>9, <1>10, <1>11

LEMMA OneLineMore ==
  ASSUME NEW m, NEW i \in Nat
  PROVE  HeadOf(m, i + 1).headlines
           = Append(HeadOf(m, i).headlines, Trim(m.lines[i + 1], Blank))
<1> DEFINE f(k) == Trim(m.lines[k], Blank)
           s == [k \in 1..i |-> f(k)]
           n == [k \in 1..(i + 1) |-> f(k)]
           x == f(i + 1)
           a == Append(s, x)
<1>1. HeadOf(m, i).headlines = s /\ HeadOf(m, i + 1).headlines = n
  BY HeadOfIs
<1> DEFINE S == {f(k) : k \in 1..(i + 1)}
<1>2. s \in Seq(S) /\ n \in Seq(S) /\ x \in S /\ Len(s) = i /\ Len(n) = i + 1
  <2>1. \A k \in 1..(i + 1) : f(k) \in S
    OBVIOUS
  <2>2. x \in S
    <3>1. i + 1 \in 1..(i + 1)
      OBVIOUS
    <3> QED
      BY <2>1, <3>1
  <2>3. i \in Nat /\ i + 1 \in Nat /\ \A k \in 1..i : f(k) \in S
    BY <2>1
  <2> HIDE DEF S, f
  <2>4. s \in Seq(S) /\ n \in Seq(S)
    BY <2>1, <2>3, IsASeq
  <2> QED
    BY <2>2, <2>4
<1>3. (\A k \in 1..i : s[k] = f(k)) /\ (\A k \in 1..(i + 1) : n[k] = f(k)) /\ x = f(i + 1)
  OBVIOUS
<1> HIDE DEF s, n, x, S
<1>4. a \in Seq(S) /\ Len(a) = i + 1 /\ (\A k \in 1..i : a[k] = s[k]) /\ a[i + 1] = x
  BY <1>2, AppendProperties
<1> HIDE DEF a, f
<1>5. ASSUME NEW k \in 1..(i + 1) PROVE a[k] = n[k]
  <2>1. k \in 1..i \/ k = i + 1
    OBVIOUS
  <2> QED
    BY <1>3, <1>4, <2>1
<1>6. a = n
  BY <1>2, <1>4, <1>5, SeqEqual
<1> QED
  BY <1>1, <1>6 DEF a, x, f

LEMMA StepLine ==
  ASSUME NEW m, NEW o, Ahead(m, o), Reading(m, o, request), EndLine
  PROVE  Proceeds(m, o, 1)
<1>1. PICK i \in 0..(Len(m.lines) - 1), t \in Int :
        /\ request.headlines = HeadOf(m, i).headlines
        /\ PutsIn(m, i, t, request)
        /\ Line = Trim(m.lines[i + 1], Blank)
        /\ o + 1 = HeadSize(m, i + 1)
  BY AtLineEnd DEF EndLine
<1>2. m \in Messages \cup Lasts /\ Len(m.lines) \in Nat /\ Len(m.tail) \in Nat /\ o \in Nat
  BY MessageParts DEF Ahead
<1>3. i \in Nat /\ i + 1 \in 0..Len(m.lines)
  BY <1>2
<1> DEFINE p == Part(m, i + 1)
           r == [request EXCEPT !.headlines = Append(@, Line), !.inputbuffer = <<>>]
<1>4. Continue(r) /\ Line # <<>>
  BY DEF EndLine
<1>5. p \in Seq(AnyByte) /\ Len(p) \in Nat /\ 0 \in 0..Len(p)
  BY <1>2, <1>3, PartType
<1>6. Begun(m, i + 1, 0) = <<>>
  <2>1. SubSeq(p, 1, 0) = <<>>
    <3> HIDE DEF p
    <3> QED
      BY <1>5, FirstOnes
  <2> QED
    BY <2>1 DEF Begun
<1>7. r = InLine(m, i + 1, 0, t)
  <2> DEFINE v == Append(HeadOf(m, i).headlines, Line)
             g == HeadOf(m, i)
             h == HeadOf(m, i + 1)
             e == [g EXCEPT !.inputbuffer = <<>>, !.torecvbody = t]
             q == [request EXCEPT !.inputbuffer = <<>>]
  <2>1. v = h.headlines
    BY <1>1, <1>3, OneLineMore
  <2>2. h = [g EXCEPT !.headlines = h.headlines]
    <3> DEFINE y == [k \in 1..(i + 1) |-> Trim(m.lines[k], Blank)]
               z == [k \in 1..i |-> Trim(m.lines[k], Blank)]
    <3>1. h = [Fresh EXCEPT !.headlines = y] /\ g = [Fresh EXCEPT !.headlines = z]
          /\ h.headlines = y
      BY HeadOfIs DEF HeadOf
    <3> HIDE DEF y, z, g, h
    <3> QED
      BY <3>1 DEF Fresh
  <2>3. r = [request EXCEPT !.headlines = v, !.inputbuffer = <<>>]
    BY <1>1
  <2>4. q = e
    BY <1>1 DEF PutsIn
  <2>5. r = [q EXCEPT !.headlines = v]
    BY <2>3
  <2>6. Shaped(g)
    BY HeadOfIs
  <2>7. InLine(m, i + 1, 0, t) = [h EXCEPT !.inputbuffer = <<>>, !.torecvbody = t]
    BY <1>6 DEF InLine
  <2> HIDE DEF v, g, h, q
  <2>8. [e EXCEPT !.headlines = v] = [h EXCEPT !.inputbuffer = <<>>, !.torecvbody = t]
    BY <2>1, <2>2, <2>6 DEF Shaped
  <2> QED
    BY <2>4, <2>5, <2>7, <2>8
<1>8. i + 1 < Len(m.lines) \/ ~HeadEnds(m)
  <2>1. CASE i + 1 = Len(m.lines)
    BY <1>1, <1>2, <1>4, <2>1, SomeLine
  <2> QED
    BY <1>2, <1>3, <2>1
<1>9. HeadSize(m, i + 1) \in Nat /\ o + 1 = HeadSize(m, i + 1) + 0
  BY <1>1, <1>2, <1>3, <1>5, ReadInMessage
<1> HIDE DEF p
<1>10. InHead(m, o + 1, r)
  BY <1>3, <1>5, <1>7, <1>8, <1>9 DEF InHead, p
<1>11. Ongoing(m, o + 1)
  <2>1. CASE i + 1 < Len(m.lines)
    <3>1. HeadSize(m, i + 1) + 0 < Len(Bytes(m))
      BY <1>2, <1>3, <1>5, <2>1, ReadInMessage DEF p
    <3> QED
      BY <1>9, <3>1 DEF Ongoing
  <2>2. CASE i + 1 = Len(m.lines) /\ ~HeadEnds(m)
    <3>1. Len(Bytes(m)) = HeadSize(m, i + 1) + Len(m.tail)
      BY <1>2, <1>3, <1>5, <2>2, ReadInMessage DEF p
    <3>2. CASE Unended(m)
      BY <3>2 DEF Ongoing
    <3>3. CASE Len(m.tail) = MaxLine + 2
      <4>1. MaxLine \in Nat
        BY LimitAssumption
      <4>2. o + 1 < Len(Bytes(m))
        BY <1>9, <3>1, <3>3, <4>1
      <4> QED
        BY <4>2 DEF Ongoing
    <3> QED
      BY <1>2, <2>2, <3>2, <3>3, HeadKinds
  <2> QED
    BY <1>2, <1>3, <1>8, <2>1, <2>2
<1> QED
  BY <1>4, <1>10, <1>11 DEF Proceeds, Reading

LEMMA StepHead ==
  ASSUME NEW m, NEW o, Ahead(m, o), Reading(m, o, request), EndHead
  PROVE  Proceeds(m, o, 1)
<1>1. PICK i \in 0..(Len(m.lines) - 1), t \in Int :
        /\ request.headlines = HeadOf(m, i).headlines
        /\ PutsIn(m, i, t, request)
        /\ Line = Trim(m.lines[i + 1], Blank)
        /\ o + 1 = HeadSize(m, i + 1)
  BY AtLineEnd DEF EndHead
<1>2. /\ m \in Messages \cup Lasts /\ Len(m.lines) \in Nat /\ Len(m.tail) \in Nat /\ o \in Nat
      /\ m.tail \in Seq(AnyByte)
  BY MessageParts DEF Ahead
<1>3. i + 1 = Len(m.lines) /\ HeadEnds(m) /\ Len(m.lines) \in Nat \ {0} /\ i = Len(m.lines) - 1
  <2>1. Trim(m.lines[i + 1], Blank) = <<>>
    BY <1>1 DEF EndHead
  <2>2. i + 1 \notin 1..(Len(m.lines) - 1)
    <3>1. \A k \in 1..(Len(m.lines) - 1) : Trim(m.lines[k], Blank) # <<>>
      BY <1>2, MessageAssumption
    <3> QED
      BY <2>1, <3>1
  <2>3. i + 1 = Len(m.lines)
    BY <1>2, <2>2
  <2>4. m.lines # <<>>
    BY <1>2, <2>3, EmptySeq
  <2> QED
    BY <1>2, <2>1, <2>3, <2>4 DEF HeadEnds, Last
<1> DEFINE w == WholeHead(m)
           h == HeadOf(m, Len(m.lines) - 1)
           ended == [request EXCEPT !.inputbuffer = <<>>]
<1>4. ended = With(h, t) /\ Shaped(h) /\ ended.headlines = request.headlines
  <2>1. Shaped(h) /\ h.inputbuffer = <<>> /\ h = HeadOf(m, i)
    BY <1>3, HeadOfIs
  <2>2. ended = [h EXCEPT !.inputbuffer = <<>>, !.torecvbody = t]
    BY <1>1, <2>1 DEF PutsIn
  <2> HIDE DEF h, ended
  <2>3. ended = With(h, t)
    BY <2>1, <2>2 DEF Shaped, With
  <2>4. ended.headlines = h.headlines
    BY <2>1, <2>3, WithType
  <2> QED
    BY <1>1, <2>1, <2>3, <2>4
<1>5. \/ Len(ended.headlines) < 2 /\ ProcessRequest(ended)
      \/ /\ Len(ended.headlines) >= 2
         /\ LET r == FirstLine(ended)
            IN  \/ r.uri = <<>> /\ ProcessRequest(r)
                \/ r.uri # <<>> /\ HeadFound(WithHeads(r))
  <2>1. \/ Len(request.headlines) < 2 /\ ProcessRequest(ended)
        \/ /\ Len(request.headlines) >= 2
           /\ \E r \in {FirstLine(ended)} :
                \/ r.uri = <<>> /\ ProcessRequest(r)
                \/ r.uri # <<>> /\ \E found \in {WithHeads(r)} : HeadFound(found)
    BY DEF EndHead
  <2> HIDE DEF ended
  <2> QED
    BY <1>4, <2>1
<1>6. \/ BodyLen(w) = 0 /\ Serves(w.uri, <<>>, Taken(w))
      \/ /\ BodyLen(w) # 0
         /\ Continue([w EXCEPT !.torecvbody = BodyLen(w), !.state = "RecvBody"])
  <2> HIDE DEF ended, h
  <2>1. ended = With(HeadOf(m, Len(m.lines) - 1), t)
    BY <1>4 DEF h
  <2> QED
    BY <1>3, <1>5, <2>1, HeadServes
<1>7. HeadSize(m, Len(m.lines)) = o + 1 /\ Len(Bytes(m)) = o + 1 + Len(m.tail)
  <2> DEFINE l == Len(m.lines)
  <2>1. /\ l \in 0..Len(m.lines) /\ Part(m, l) = m.tail /\ 0 \in 0..Len(Part(m, l))
        /\ l = Len(m.lines) /\ m \in Messages \cup Lasts
    BY <1>2 DEF Part
  <2>2. HeadSize(m, l) = o + 1
    BY <1>1, <1>3
  <2> HIDE DEF l
  <2>3. Len(Bytes(m)) = HeadSize(m, l) + Len(m.tail)
    BY ONLY <2>1, ReadInMessage
  <2> QED
    BY <2>1, <2>2, <2>3
<1>8. \/ Whole(m) /\ Len(m.tail) = BodyLen(w)
      \/ Unended(m) /\ (BodyLen(w) < 0 \/ Len(m.tail) < BodyLen(w))
  BY <1>2, <1>3, HeadKinds
<1>9. CASE BodyLen(w) = 0 /\ Serves(w.uri, <<>>, Taken(w))
  <2>1. Whole(m) /\ Len(m.tail) = 0
    BY <1>2, <1>8, <1>9
  <2>2. m.tail = <<>> /\ o + 1 = Len(Bytes(m))
    BY <1>2, <1>7, <2>1, EmptySeq
  <2>3. m.meaning = << [uri |-> w.uri, body |-> <<>>, resault |-> Taken(w)] >>
    BY <2>1, <2>2 DEF Whole, Taken
  <2> HIDE DEF w
  <2> QED
    BY <1>9, <2>2, <2>3 DEF Proceeds, Serves
<1>10. CASE /\ BodyLen(w) # 0
            /\ Continue([w EXCEPT !.torecvbody = BodyLen(w), !.state = "RecvBody"])
  <2>1. BodyLen(w) \in Int
    BY BodyLenType
  <2>2. [w EXCEPT !.torecvbody = BodyLen(w), !.state = "RecvBody"] = AfterHead(m, 0)
    <3> DEFINE b == FirstBytes(m.tail, 0)
               z == BodyLen(w)
    <3>1. b = NewStream
      <4>1. SubSeq(m.tail, 1, 0) = <<>>
        BY <1>2, FirstOnes
      <4> QED
        BY <4>1 DEF NewStream, FirstBytes
    <3>2. AfterHead(m, 0) = [w EXCEPT !.state = "RecvBody", !.body = b, !.torecvbody = z - 0]
      BY DEF AfterHead
    <3>3. Shaped(w) /\ w.body = NewStream
      BY WholeHeadIs, HeadOfIs DEF Kept
    <3>4. z - 0 = z
      BY <2>1
    <3> HIDE DEF b, w, z
    <3>5. AfterHead(m, 0) = [w EXCEPT !.state = "RecvBody", !.body = w.body, !.torecvbody = z]
      BY <3>1, <3>2, <3>3, <3>4
    <3>6. [w EXCEPT !.state = "RecvBody", !.body = w.body, !.torecvbody = z]
            = [w EXCEPT !.torecvbody = z, !.state = "RecvBody"]
      BY <3>3 DEF Shaped
    <3> QED
      BY <3>5, <3>6 DEF z
  <2>3. Ongoing(m, o + 1)
    <3>1. CASE Unended(m)
      BY <3>1 DEF Ongoing
    <3>2. CASE Len(m.tail) = BodyLen(w)
      <4>1. o + 1 < Len(Bytes(m))
        BY <1>2, <1>7, <1>10, <3>2
      <4> QED
        BY <4>1 DEF Ongoing
    <3> QED
      BY <1>8, <3>1, <3>2
  <2>4. InBody(m, o + 1, AfterHead(m, 0))
    <3>1. 0 \in 0..Len(m.tail) /\ o + 1 = HeadSize(m, Len(m.lines)) + 0
      BY <1>2, <1>7
    <3> QED
      BY <1>3, <1>10, <3>1 DEF InBody
  <2> HIDE DEF w
  <2> QED
    BY <1>10, <2>2, <2>3, <2>4 DEF Proceeds, Reading
<1> QED
  BY <1>6, <1>9, <1>10

(* What is written behind the first j bytes of s and goes on as s does. *)
LEMMA WriteMore ==
  ASSUME NEW S, NEW s \in Seq(S), NEW j \in 0..Len(s), NEW d \in Nat, j + d <= Len(s),
         NEW pv \in Seq(S), Len(pv) = d, \A x \in 1..d : pv[x] = s[j + x]
  PROVE  Write(FirstBytes(s, j), pv) = FirstBytes(s, j + d)
<1> DEFINE b == FirstBytes(s, j)
           p == SubSeq(s, 1, j)
           n == SubSeq(s, 1, j + d)
           e == SubSeq(p, j + d + 1, j)
           w == p \o pv
<1>1. Len(s) \in Nat /\ j \in Nat /\ j + d \in 0..Len(s)
  BY LenProperties
<1>2. /\ p \in Seq(S) /\ Len(p) = j /\ \A x \in 1..j : p[x] = s[x]
      /\ n \in Seq(S) /\ Len(n) = j + d /\ \A x \in 1..(j + d) : n[x] = s[x]
  <2>1. /\ p \in Seq(S) /\ Len(p) = j /\ n \in Seq(S) /\ Len(n) = j + d
    BY <1>1, FirstOnes
  <2>2. \A x \in 1..j : 1 + x - 1 = x
    BY <1>1
  <2>3. \A x \in 1..(j + d) : 1 + x - 1 = x
    BY <1>1
  <2>4. \A x \in 1..j : p[x] = s[x]
    BY <1>1, <2>2, SubSeqProperties
  <2>5. \A x \in 1..(j + d) : n[x] = s[x]
    BY <1>1, <2>3, SubSeqProperties
  <2> QED
    BY <2>1, <2>4, <2>5
<1>3. SubSeq(p, 1, j) = p
  <2> HIDE DEF p
  <2>1. SubSeq(p, 1, Len(p)) = p
    BY <1>2, FirstOnes
  <2> QED
    BY <1>2, <2>1
<1>4. e = <<>>
  <2>1. j < j + d + 1 /\ j + d + 1 \in Int /\ j \in Int
    BY <1>1
  <2> HIDE DEF p
  <2> QED
    BY <2>1, SubSeqEmpty
<1> HIDE DEF p, n, e
<1>5. /\ w \in Seq(S) /\ Len(w) = j + d
      /\ \A x \in 1..j : w[x] = p[x]
      /\ \A x \in 1..d : w[j + x] = pv[x]
  <2>1. /\ w \in Seq(S) /\ Len(w) = Len(p) + Len(pv)
        /\ \A x \in 1..Len(p) : w[x] = p[x]
        /\ \A x \in 1..Len(pv) : w[Len(p) + x] = pv[x]
    <3>1. p \in Seq(S) /\ pv \in Seq(S)
      BY <1>2
    <3> QED
      BY ONLY <3>1, Joined
  <2> HIDE DEF w
  <2> QED
    BY <1>2, <2>1
<1> HIDE DEF w
<1>6. ASSUME NEW x \in 1..(j + d) PROVE w[x] = n[x]
  <2>1. CASE x <= j
    <3>1. x \in 1..j
      BY <1>1, <2>1
    <3> QED
      BY <1>2, <1>5, <3>1
  <2>2. CASE ~(x <= j)
    <3>1. x - j \in 1..d /\ j + (x - j) = x
      BY <1>1, <2>2
    <3>2. w[j + (x - j)] = pv[x - j] /\ pv[x - j] = s[j + (x - j)]
      BY <1>5, <3>1
    <3> QED
      BY <1>2, <3>1, <3>2
  <2> QED
    BY <2>1, <2>2
<1>7. w = n
  BY <1>2, <1>5, <1>6, SeqEqual
<1>8. w \o e = w
  BY <1>4, <1>5, ConcatEmptySeq
<1>9. b.bytes = p /\ b.nowpos = j
  BY DEF p, FirstBytes
<1> HIDE DEF b
<1>10. Write(b, pv) = [bytes |-> SubSeq(p, 1, j) \o pv \o SubSeq(p, j + d + 1, Len(p)),
                       nowpos |-> j + d]
  BY <1>9 DEF Write
<1> QED
  BY <1>2, <1>3, <1>7, <1>8, <1>10 DEF w, e, n, b, FirstBytes

LEMMA StepBody ==
  ASSUME NEW m, NEW o, Ahead(m, o), Reading(m, o, request), InputBody
  PROVE  \E d \in 0..Len(rest) : Consume(d) /\ Proceeds(m, o, d)
<1>1. InBody(m, o, request)
  <2>1. request.state = "RecvBody"
    BY DEF InputBody
  <2>2. ASSUME NEW i, NEW j, NEW t, request = InLine(m, i, j, t) PROVE FALSE
    <3>1. request.state = "RecvFirstLine"
      BY ONLY <2>2, InLineIs
    <3> QED
      BY <2>1, <3>1
  <2> QED
    BY <2>2 DEF Reading, InHead
<1> DEFINE w == WholeHead(m)
           all == BodyLen(w)
           tail == m.tail
           l == Len(tail)
           n == Len(rest)
           h == HeadSize(m, Len(m.lines))
<1>2. PICK j \in 0..l : HeadEnds(m) /\ all # 0 /\ o = h + j /\ request = AfterHead(m, j)
  BY <1>1 DEF InBody
<1>3. /\ m \in Messages \cup Lasts /\ Len(m.lines) \in Nat /\ l \in Nat /\ o \in Nat
      /\ tail \in Seq(AnyByte) /\ n \in Nat \ {0} /\ rest \in Seq(AnyByte) /\ all \in Int
  BY MessageParts, BodyLenType DEF Ahead
<1>4. h \in Nat /\ Len(Bytes(m)) = h + l /\ \A x \in 1..l : Bytes(m)[h + x] = tail[x]
  <2> DEFINE k == Len(m.lines)
  <2>1. k \in 0..Len(m.lines) /\ k = Len(m.lines) /\ Part(m, k) = tail
    BY <1>3 DEF Part
  <2> HIDE DEF k
  <2>2. HeadSize(m, k) \in Nat /\ Len(Bytes(m)) = HeadSize(m, k) + l
    <3>1. 0 \in 0..Len(Part(m, k))
      BY <1>3, <2>1
    <3> QED
      BY ONLY <1>3, <2>1, <3>1, ReadInMessage
  <2>3. ASSUME NEW x \in 1..l PROVE Bytes(m)[HeadSize(m, k) + x] = tail[x]
    <3> DEFINE y == x - 1
    <3>1. y \in 0..Len(Part(m, k)) /\ y < Len(Part(m, k)) /\ y + 1 = x
      BY <1>3, <2>1
    <3>2. HeadSize(m, k) + y + 1 = HeadSize(m, k) + x
      BY <2>2, <3>1
    <3> HIDE DEF y
    <3>3. Bytes(m)[HeadSize(m, k) + y + 1] = Part(m, k)[y + 1]
      BY <1>3, <2>1, <3>1, ReadInMessage
    <3> QED
      BY <2>1, <3>1, <3>2, <3>3
  <2> QED
    BY <2>1, <2>2, <2>3
<1> DEFINE left == all - j
           d == IF left < 0 THEN n ELSE Min({n, left})
<1>5. /\ \/ Whole(m) /\ l = all
         \/ Unended(m) /\ (all < 0 \/ l < all)
      /\ o < h + l /\ (Unended(m) => o + n <= h + l)
  BY <1>2, <1>3, <1>4, HeadKinds DEF Ahead
<1>6. /\ request.torecvbody = left /\ request.body = FirstBytes(m.tail, j) /\ request.uri = w.uri
      /\ Shaped(request) /\ request.resault = FALSE
  <2>1. request = AfterHead(m, j)
    BY <1>2
  <2> QED
    BY ONLY <2>1, AfterHeadIs
<1>7. TakeBody(d)
  BY <1>6 DEF InputBody
<1>8. left \in Int /\ d = IF left < 0 \/ n <= left THEN n ELSE left
  <2>1. left \in Int /\ n \in Int
    BY <1>2, <1>3
  <2>2. Min({n, left}) = IF n <= left THEN n ELSE left
    <3> HIDE DEF n, left
    <3> QED
      BY <2>1, MinOfTwo
  <2> QED
    BY <2>1, <2>2
<1> DEFINE pv == SubSeq(rest, 1, d)
           r == [request EXCEPT !.body = Write(@, pv), !.torecvbody = @ - d]
<1>9. Consume(d) /\ IF d > 0 /\ r.torecvbody = 0 THEN Accept(r) ELSE Continue(r)
  BY <1>7 DEF TakeBody
<1> HIDE DEF l, n, h, d, all, left
<1>10. /\ d \in 1..n /\ d \in Nat /\ d > 0 /\ j + d <= l /\ left - d = all - (j + d)
       /\ o + d = h + (j + d) /\ j \in Nat /\ j + d \in 0..l
       /\ left - d = 0 => Whole(m) /\ j + d = l
       /\ left - d # 0 => o + d < h + l \/ Unended(m)
  <2>1. left = all - j /\ o = h + j /\ j \in 0..l /\ all # 0
    BY <1>2 DEF left
  <2>2. d = IF left < 0 \/ n <= left THEN n ELSE left
    BY <1>8
  <2>3. j < l /\ (Unended(m) => j + n <= l)
    BY <1>3, <1>4, <1>5, <2>1
  <2>4. CASE Whole(m) /\ l = all
    <3> SUFFICES /\ d \in 1..n /\ d \in Nat /\ d > 0 /\ j + d <= l
                 /\ left - d = all - (j + d) /\ o + d = h + (j + d)
                 /\ j \in Nat /\ j + d \in 0..l
                 /\ left - d = 0 => j + d = l
                 /\ left - d # 0 => o + d < h + l
      BY <2>4
    <3> QED
      BY <1>3, <1>4, <2>1, <2>2, <2>3, <2>4
  <2>5. CASE Unended(m) /\ (all < 0 \/ l < all)
    <3> SUFFICES /\ d \in 1..n /\ d \in Nat /\ d > 0 /\ j + d <= l
                 /\ left - d = all - (j + d) /\ o + d = h + (j + d)
                 /\ j \in Nat /\ j + d \in 0..l
                 /\ left - d # 0
      BY <2>5
    <3> QED
      BY <1>3, <1>4, <2>1, <2>2, <2>3, <2>5
  <2> QED
    BY <1>5, <2>4, <2>5
<1>11. pv \in Seq(AnyByte) /\ Len(pv) = d /\ \A x \in 1..d : pv[x] = tail[j + x]
  <2>1. d \in 0..Len(rest)
    BY <1>3, <1>10 DEF n
  <2>2. pv \in Seq(AnyByte) /\ Len(pv) = d
    <3> HIDE DEF d
    <3> QED
      BY <1>3, <2>1, FirstOnes
  <2>3. ASSUME NEW x \in 1..d PROVE pv[x] = tail[j + x]
    <3>1. pv[x] = rest[x]
      <4>1. 1 + x - 1 = x
        OBVIOUS
      <4>2. rest \in Seq(AnyByte) /\ 1 \in Int /\ d \in Int
        BY <1>3, <1>10
      <4>3. x \in 1..(d - 1 + 1)
        BY <4>2
      <4> QED
        BY <4>1, <4>2, <4>3, SubSeqProperties
    <3>2. x \in 1..Len(rest) /\ o + x <= h + l /\ j + x \in 1..l /\ o + x = h + (j + x)
      BY <1>2, <1>3, <1>4, <1>10 DEF n
    <3>3. rest[x] = Bytes(m)[o + x]
      BY <1>4, <3>2 DEF Ahead
    <3> QED
      BY <1>4, <3>1, <3>2, <3>3
  <2> QED
    BY <2>2, <2>3
<1>12. Write(request.body, pv) = FirstBytes(m.tail, j + d)
  <2>1. j \in 0..Len(tail) /\ j + d <= Len(tail)
    BY <1>10, <1>2 DEF l
  <2> HIDE DEF tail, pv
  <2>2. Write(FirstBytes(tail, j), pv) = FirstBytes(tail, j + d)
    BY <1>3, <1>10, <1>11, <2>1, WriteMore
  <2> QED
    BY <1>6, <2>2 DEF tail
<1>13. r = AfterHead(m, j + d)
  <2> DEFINE b == FirstBytes(m.tail, j)
             c == FirstBytes(m.tail, j + d)
             z == all - (j + d)
  <2>1. request = [w EXCEPT !.state = "RecvBody", !.body = b, !.torecvbody = left]
    BY <1>2 DEF AfterHead, left, all
  <2>2. AfterHead(m, j + d) = [w EXCEPT !.state = "RecvBody", !.body = c, !.torecvbody = z]
    BY DEF AfterHead, all
  <2>3. r = [request EXCEPT !.body = c, !.torecvbody = z]
    BY <1>6, <1>10, <1>12
  <2>4. Shaped(w)
    BY WholeHeadIs DEF Kept
  <2> HIDE DEF b, c, z, w, r
  <2>5. [request EXCEPT !.body = c, !.torecvbody = z]
          = [w EXCEPT !.state = "RecvBody", !.body = c, !.torecvbody = z]
    BY <2>1, <2>4 DEF Shaped
  <2> QED
    BY <2>2, <2>3, <2>5
<1> HIDE DEF r
<1>14. /\ Shaped(r) /\ r.uri = w.uri /\ r.resault = FALSE /\ r.body = FirstBytes(m.tail, j + d)
       /\ r.torecvbody = left - d
  <2>1. /\ Shaped(r) /\ r.uri = w.uri /\ r.resault = FALSE /\ r.body = FirstBytes(m.tail, j + d)
        /\ r.torecvbody = BodyLen(w) - (j + d)
    BY ONLY <1>13, AfterHeadIs DEF w
  <2> QED
    BY <1>10, <2>1 DEF all
<1>15. CASE left - d = 0
  <2>1. Accept(r) /\ Whole(m) /\ j + d = l
    BY <1>9, <1>10, <1>14, <1>15
  <2>2. r.body.bytes = tail
    <3>1. r.body.bytes = SubSeq(tail, 1, j + d)
      <4>1. FirstBytes(tail, j + d).bytes = SubSeq(tail, 1, j + d)
        BY DEF FirstBytes
      <4> QED
        BY <1>14, <4>1
    <3>2. SubSeq(tail, 1, Len(tail)) = tail
      <4> HIDE DEF tail
      <4> QED
        BY <1>3, FirstOnes
    <3> QED
      BY <2>1, <3>1, <3>2 DEF l
  <2>3. Serves(w.uri, tail, TRUE)
    BY <1>14, <2>1, <2>2, AcceptServes
  <2>4. Taken(w)
    BY <1>2 DEF all, BodyLen, Taken
  <2>5. m.meaning = << [uri |-> w.uri, body |-> tail, resault |-> Taken(w)] >>
    BY <2>1 DEF Whole, Taken
  <2>6. o + d = Len(Bytes(m))
    BY <1>4, <1>10, <2>1
  <2> HIDE DEF w, tail
  <2>7. Proceeds(m, o, d)
    BY <2>3, <2>4, <2>5, <2>6 DEF Proceeds, Serves
  <2>8. d \in 0..Len(rest)
    BY <1>3, <1>10 DEF n
  <2> QED
    BY <1>9, <2>7, <2>8
<1>16. CASE left - d # 0
  <2>1. Continue(r)
    BY <1>9, <1>14, <1>16
  <2>2. Ongoing(m, o + d)
    BY <1>4, <1>10, <1>16 DEF Ongoing
  <2>3. InBody(m, o + d, r)
    <3>1. j + d \in 0..Len(m.tail) /\ o + d = HeadSize(m, Len(m.lines)) + (j + d)
      BY <1>10 DEF l, h
    <3>2. HeadEnds(m) /\ BodyLen(WholeHead(m)) # 0
      BY <1>2 DEF all
    <3> QED
      BY <1>13, <3>1, <3>2 DEF InBody
  <2>4. Proceeds(m, o, d)
    BY <2>1, <2>2, <2>3 DEF Proceeds, Reading
  <2>5. d \in 0..Len(rest)
    BY <1>3, <1>10 DEF n
  <2> QED
    BY <1>9, <2>4, <2>5
<1> QED
  BY <1>15, <1>16
-----------------------------------------------------------------------------
LEMMA InitSent == Init => SentInv
<1> SUFFICES ASSUME Init PROVE SentInv
  OBVIOUS
<1>1. PICK n \in 0..MaxMsgs : \E some \in [1..n -> Messages], last \in Lasts :
        msgs = Append(some, last)
  BY DEF Init
<1>2. PICK some \in [1..n -> Messages], last \in Lasts : msgs = Append(some, last)
  BY <1>1
<1>3. n \in Nat
  BY LimitAssumption
<1>4. some \in Seq(Messages \cup Lasts) /\ Len(some) = n /\ last \in Messages \cup Lasts
  BY <1>3, IsASeq
<1>5. /\ msgs \in Seq(Messages \cup Lasts) /\ Len(msgs) = n + 1
      /\ \A i \in 1..n : msgs[i] = some[i]
  BY <1>2, <1>4, AppendProperties
<1>6. \A i \in 1..(Len(msgs) - 1) : msgs[i] \in Messages
  <2>1. Len(msgs) - 1 = n
    BY <1>3, <1>5
  <2> QED
    BY <1>5, <2>1
<1>7. MsgsOK
  BY <1>5, <1>6 DEF MsgsOK
<1>8. msgs[1] \in Messages \cup Lasts
  <2>1. 1 \in 1..Len(msgs)
    BY <1>3, <1>5
  <2> QED
    BY <1>5, <2>1, ElementOfSeq
<1>9. Size(Texts, 0) = 0 /\ Upto(Meanings, 0) = <<>>
  BY UptoNone DEF Size
<1>10. Reading(msgs[1], 0, Fresh)
  <2> DEFINE t == 0
  <2>1. t \in Int
    OBVIOUS
  <2> DEFINE q == [Fresh EXCEPT !.torecvbody = t]
  <2>2. q = [Fresh EXCEPT !.torecvbody = t]
    OBVIOUS
  <2> HIDE DEF q
  <2>4. Fresh = q
    BY <2>2 DEF Fresh
  <2> HIDE DEF t
  <2>3. Reading(msgs[1], 0, [Fresh EXCEPT !.torecvbody = t])
    BY <1>8, <2>1, ReadingBegins, Zenon
  <2> QED
    BY <2>2, <2>3, <2>4, Zenon
<1>11. SentUpto(0)
  <2>1. pos = 0 /\ request = Fresh /\ tpc = "idle" /\ served = <<>>
    BY DEF Init
  <2>2. 0 < Len(msgs) /\ 0 + 1 = 1 /\ 0 - 0 = 0 /\ 0 <= 0
    BY <1>3, <1>5
  <2>3. Reading(msgs[0 + 1], pos - Size(Texts, 0), request)
    BY <1>9, <1>10, <2>1, <2>2
  <2> QED
    BY <1>9, <2>1, <2>2, <2>3 DEF SentUpto
<1>12. 0 \in 0..Len(msgs)
  BY <1>3, <1>5
<1> QED
  BY <1>7, <1>11, <1>12 DEF SentInv

(* A byte of the stream is read. *)
LEMMA ParseSent ==
  ASSUME RequestInv, SentInv, InputChar \/ EndLine \/ EndHead \/ InputBody
  PROVE  SentInv'
<1>1. /\ tpc = "input" /\ rest # <<>> /\ msgs' = msgs
      /\ InputChar \/ EndLine \/ EndHead => Consume(1)
  BY DEF InputChar, EndLine, EndHead, HeadByte, InputBody
<1>2. StreamOK /\ MsgsOK
  BY DEF RequestInv, SentInv
<1>3. PICK n \in 0..Len(msgs) : SentUpto(n)
  BY DEF SentInv
<1>4. n < Len(msgs)
  <2>1. /\ stream = FlattenSeq(Texts) /\ Texts \in Seq(Seq(AnyByte)) /\ Len(Texts) = Len(msgs)
        /\ Len(msgs) \in Nat
    BY <1>2, StreamType DEF MsgsOK
  <2>2. ASSUME n = Len(msgs) PROVE FALSE
    <3>1. pos = Len(stream)
      <4>1. Size(Texts, Len(Texts)) = Len(FlattenSeq(Texts))
        BY <2>1, PiecesEnd
      <4>2. pos = Size(Texts, n)
        <5>1. ~(n < Len(msgs))
          BY <2>1, <2>2
        <5> QED
          BY <1>3, <5>1 DEF SentUpto
      <4> QED
        BY <2>1, <2>2, <4>1, <4>2
    <3>2. rest \in Seq(AnyByte) /\ pos \in Nat /\ pos + Len(rest) <= Len(stream)
      BY <1>2 DEF StreamOK
    <3>3. Len(rest) \in Nat
      BY <3>2, LenProperties
    <3>4. Len(rest) = 0
      BY <3>1, <3>2, <3>3
    <3> QED
      BY <1>1, <3>2, <3>4, EmptySeq
  <2> QED
    BY <2>1, <2>2
<1> DEFINE m == msgs[n + 1]
           a == Size(Texts, n)
           o == pos - a
<1>5. served = Upto(Meanings, n) /\ a <= pos /\ Reading(m, o, request)
  BY <1>1, <1>3, <1>4 DEF SentUpto
<1>6. a \in Nat /\ m \in Messages \cup Lasts
  BY <1>2, <1>4, NextMessage
<1>7. o \in Nat /\ pos = a + o
  BY <1>2, <1>5, <1>6 DEF StreamOK
<1> HIDE DEF o
<1>8. Ahead(m, o)
  <2>1. Ongoing(msgs[n + 1], o) /\ pos = Size(Texts, n) + o
    BY <1>5, <1>7 DEF Reading
  <2>2. /\ o < Len(Bytes(m)) /\ Len(rest) \in Nat \ {0}
        /\ \A x \in 1..Len(rest) : o + x <= Len(Bytes(m)) => rest[x] = Bytes(m)[o + x]
        /\ Unended(m) => o + Len(rest) <= Len(Bytes(m))
    BY <1>1, <1>2, <1>4, <1>7, <2>1, RestOfMessage
  <2>3. rest \in Seq(AnyByte)
    BY <1>2 DEF StreamOK
  <2> QED
    BY <1>6, <1>7, <2>2, <2>3 DEF Ahead
<1> HIDE DEF m
<1>9. \E d \in 0..Len(rest) : Consume(d) /\ Proceeds(m, o, d)
  <2>1. CASE InputChar \/ EndLine \/ EndHead
    <3>1. Consume(1) /\ Proceeds(m, o, 1)
      BY <1>1, <1>5, <1>8, <2>1, StepChar, StepLine, StepHead
    <3>2. 1 \in 0..Len(rest)
      BY <1>8 DEF Ahead
    <3> QED
      BY <3>1, <3>2
  <2>2. CASE InputBody
    BY <1>5, <1>8, <2>2, StepBody
  <2> QED
    BY <2>1, <2>2
<1>10. PICK d \in 0..Len(rest) : Consume(d) /\ Proceeds(m, o, d)
  BY <1>9
<1>11. d \in Nat
  BY <1>8 DEF Ahead
<1>12. pos = Size(Texts, n) + o /\ Proceeds(msgs[n + 1], o, d)
  BY <1>7, <1>10 DEF m
<1> HIDE DEF a
<1> QED
  BY <1>1, <1>2, <1>4, <1>5, <1>7, <1>10, <1>11, <1>12, ProceedsInv

(* Where the parser is changes only while the task reads. *)
LEMMA SentStays ==
  ASSUME SentInv, UNCHANGED <<msgs, pos, request, served>>, tpc = "reply" <=> tpc' = "reply"
  PROVE  SentInv'
<1>1. Texts' = Texts /\ Meanings' = Meanings /\ MsgsOK' /\ msgs' = msgs
  BY DEF Texts, Meanings, MsgsOK, SentInv
<1>2. PICK n \in 0..Len(msgs) : SentUpto(n)
  BY DEF SentInv
<1>3. SentUpto(n)'
  BY <1>1, <1>2 DEF SentUpto
<1> QED
  BY <1>1, <1>3 DEF SentInv

LEMMA ClearSent ==
  ASSUME RequestInv, SentInv, ClearRequest
  PROVE  SentInv'
<1>1. /\ tpc = "reply" /\ tpc' = "input" /\ request' = Cleared(request)
      /\ UNCHANGED <<msgs, pos, served>>
  BY DEF ClearRequest
<1>2. /\ Texts' = Texts /\ Meanings' = Meanings /\ MsgsOK' /\ msgs' = msgs /\ MsgsOK
      /\ StreamOK /\ Len(msgs) \in Nat
  BY <1>1, LenProperties DEF Texts, Meanings, MsgsOK, SentInv, RequestInv
<1>3. PICK n \in 0..Len(msgs) : SentUpto(n)
  BY DEF SentInv
<1>4. served = Upto(Meanings, n) /\ pos = Size(Texts, n)
  BY <1>1, <1>3 DEF SentUpto
<1>5. SentUpto(n)'
  <2>1. CASE n = Len(msgs)
    BY <1>1, <1>2, <1>4, <2>1 DEF SentUpto
  <2>2. CASE n < Len(msgs)
    <3>1. msgs[n + 1] \in Messages \cup Lasts /\ Size(Texts, n) \in Nat
      BY <1>2, <2>2, NextMessage
    <3>2. request.torecvbody \in Int
      BY DEF RequestInv, TaskOK, RequestOK
    <3>3. Reading(msgs[n + 1], 0, request')
      BY <1>1, <3>1, <3>2, ReadingBegins DEF Cleared
    <3>4. Size(Texts, n) <= pos' /\ pos' - Size(Texts, n) = 0
      BY <1>1, <1>4, <3>1
    <3> QED
      BY <1>1, <1>2, <1>4, <2>2, <3>3, <3>4 DEF SentUpto
  <2> QED
    BY <1>2, <2>1, <2>2
<1> QED
  BY <1>2, <1>5 DEF SentInv

LEMMA NextSent ==
  ASSUME RequestInv, SentInv, [Next]_reqvars
  PROVE  SentInv'
<1>1. CASE InputChar \/ EndLine \/ EndHead \/ InputBody
  BY <1>1, ParseSent
<1>2. CASE ClearRequest
  BY <1>2, ClearSent
<1>3. CASE DataInput
  BY <1>3, SentStays DEF DataInput
<1>4. CASE WriteOut
  BY <1>4, SentStays DEF WriteOut, parsevars
<1>5. CASE WriteOutFlush
  BY <1>5, SentStays DEF WriteOutFlush, parsevars
<1>6. CASE UNCHANGED reqvars
  BY <1>6, SentStays DEF reqvars, parsevars
<1> QED
  BY <1>1, <1>2, <1>3, <1>4, <1>5, <1>6 DEF Next, DataInputStep

LEMMA UptoPrefix ==
  ASSUME NEW S, NEW ss \in Seq(Seq(S)), NEW k \in 0..Len(ss), NEW n \in k..Len(ss)
  PROVE  IsPrefix(Upto(ss, k), Upto(ss, n))
<1> DEFINE s == Upto(ss, k)
           t == Upto(ss, n)
<1>1. \A i \in 0..Len(ss) : Upto(ss, i) \in Seq(S)
  <2>1. Upto(ss, 0) \in Seq(S)
    <3>1. Upto(ss, 0) = <<>>
      BY UptoNone
    <3>2. <<>> \in Seq(S)
      OBVIOUS
    <3> QED
      BY ONLY <3>1, <3>2, Zenon
  <2>2. \A i \in 1..Len(ss) : Upto(ss, i) \in Seq(S)
    BY UptoNext
  <2>3. \A i \in 0..Len(ss) : i = 0 \/ i \in 1..Len(ss)
    OBVIOUS
  <2> QED
    BY <2>1, <2>2, <2>3
<1>2. s \in Seq(S) /\ t \in Seq(S) /\ Len(ss) \in Nat
  BY <1>1, LenProperties
<1>3. /\ Len(s) \in Nat /\ Len(t) \in Nat /\ Len(s) <= Len(t)
      /\ \A x \in 1..Len(s) : t[x] = s[x]
  BY SizeGrows DEF Size
<1> HIDE DEF s, t
<1>4. SubSeq(s, 1, Len(s)) = s
  BY <1>2, FirstOnes
<1> DEFINE p == SubSeq(t, 1, Len(s))
<1>5. p \in Seq(S) /\ Len(p) = Len(s)
  BY <1>2, <1>3, FirstOnes
<1>6. ASSUME NEW x \in 1..Len(s) PROVE p[x] = s[x]
  <2>1. t \in Seq(S) /\ 1 \in Int /\ Len(s) \in Int /\ x \in 1..(Len(s) - 1 + 1)
        /\ 1 + x - 1 = x
    BY <1>2, <1>3
  <2>2. p[x] = t[x]
    BY <2>1, SubSeqProperties
  <2> QED
    BY <1>3, <2>2
<1> HIDE DEF p
<1>7. p = s
  BY <1>2, <1>5, <1>6, SeqEqual
<1>8. IsPrefix(s, t)
  BY <1>3, <1>4, <1>7 DEF IsPrefix, p
<1> QED
  BY <1>8 DEF s, t

(* The first messages, and what they mean. *)
LEMMA SaidAndMeant ==
  ASSUME MsgsOK, NEW k \in 0..Len(msgs)
  PROVE  Said(k) = Upto(Texts, k) /\ Meant(k) = Upto(Meanings, k)
<1>1. /\ Texts \in Seq(Seq(AnyByte)) /\ Len(Texts) = Len(msgs) /\ Len(msgs) \in Nat
      /\ Meanings \in Seq(Seq(AnyRequest)) /\ Len(Meanings) = Len(msgs)
  BY StreamType, MeaningsType DEF MsgsOK
<1>2. k \in Nat /\ \A i \in 1..k : i \in 1..Len(msgs) /\ 1 + i - 1 = i
  BY <1>1
<1>3. SubSeq(Texts, 1, k) = [i \in 1..k |-> Bytes(msgs[i])]
  BY <1>1, <1>2, SubSeqProperties DEF Texts
<1>4. SubSeq(Meanings, 1, k) = [i \in 1..k |-> msgs[i].meaning]
  BY <1>1, <1>2, SubSeqProperties DEF Meanings
<1> QED
  BY <1>3, <1>4 DEF Said, Meant, Upto

LEMMA SentIsServed ==
  ASSUME StreamOK, SentInv
  PROVE  ServedAsSent
<1>1. MsgsOK
  BY DEF SentInv
<1>2. PICK n \in 0..Len(msgs) : SentUpto(n)
  BY DEF SentInv
<1> DEFINE l == Len(msgs)
           mm == Meanings
           tt == Texts
<1>3. /\ tt \in Seq(Seq(AnyByte)) /\ Len(tt) = l /\ l \in Nat
      /\ mm \in Seq(Seq(AnyRequest)) /\ Len(mm) = l /\ served = Upto(mm, n)
  BY <1>1, <1>2, StreamType, MeaningsType DEF MsgsOK, SentUpto
<1>4. \A k \in 0..l : Said(k) = Upto(tt, k) /\ Meant(k) = Upto(mm, k)
  BY <1>1, SaidAndMeant
<1>5. n \in 0..l /\ n \in Nat
  BY <1>3
<1> HIDE DEF mm, tt
<1>6. IsPrefix(served, Meant(l))
  <2>1. n \in 0..Len(mm) /\ Len(mm) \in n..Len(mm)
    BY <1>3, <1>5
  <2>2. IsPrefix(Upto(mm, n), Upto(mm, Len(mm)))
    BY <1>3, <2>1, UptoPrefix
  <2>3. l \in 0..l
    BY <1>3
  <2> QED
    BY <1>3, <1>4, <2>2, <2>3
<1>7. ASSUME NEW k \in 1..l, pos >= Len(Said(k)) PROVE IsPrefix(Meant(k), served)
  <2>1. k \in 0..l /\ k \in Nat
    BY <1>3
  <2>2. CASE k <= n
    <3>1. k \in 0..Len(mm) /\ n \in k..Len(mm)
      BY <1>3, <1>5, <2>1, <2>2
    <3>2. IsPrefix(Upto(mm, k), Upto(mm, n))
      BY <1>3, <3>1, UptoPrefix
    <3> QED
      BY <1>3, <1>4, <2>1, <3>2
  <2>3. CASE n < k
    <3>1. n < l /\ n + 1 <= k
      BY <1>3, <1>5, <2>1, <2>3
    <3> DEFINE m == msgs[n + 1]
               a == Size(tt, n)
    <3>2. /\ m \in Messages \cup Lasts /\ a \in Nat /\ Len(Bytes(m)) \in Nat
          /\ Size(tt, n + 1) = a + Len(Bytes(m))
          /\ Unended(m) => n + 1 = l
      BY <1>1, <3>1, NextMessage DEF tt
    <3>3. Size(tt, n + 1) <= pos
      <4>1. n + 1 \in 0..Len(tt) /\ k \in (n + 1)..Len(tt)
        BY <1>3, <1>5, <2>1, <3>1
      <4>2. Size(tt, n + 1) \in Nat /\ Size(tt, k) \in Nat /\ Size(tt, n + 1) <= Size(tt, k)
        BY <1>3, <4>1, SizeGrows
      <4>3. Len(Said(k)) = Size(tt, k)
        BY <1>4, <2>1 DEF Size
      <4>4. pos \in Nat
        BY DEF StreamOK
      <4> QED
        BY <1>7, <4>2, <4>3, <4>4
    <3>4. Ongoing(m, pos - a)
      <4>1. CASE pos = a
        <5> DEFINE t == 0
        <5>1. t \in Int
          OBVIOUS
        <5> HIDE DEF t
        <5>3. Reading(m, 0, [Fresh EXCEPT !.torecvbody = t])
          BY <3>2, <5>1, ReadingBegins, Zenon
        <5>2. pos - a = 0
          BY <3>2, <4>1
        <5> QED
          BY <5>2, <5>3 DEF Reading
      <4>2. CASE pos # a
        <5>1. Reading(msgs[n + 1], pos - Size(Texts, n), request)
          BY <1>2, <3>1, <4>2 DEF SentUpto, tt
        <5> QED
          BY <5>1 DEF Reading, tt
      <4> QED
        BY <4>1, <4>2
    <3>5. Unended(m)
      <4>1. pos \in Nat
        BY DEF StreamOK
      <4>2. ~(pos - a < Len(Bytes(m)))
        BY <3>2, <3>3, <4>1
      <4> QED
        BY <3>4, <4>2 DEF Ongoing
    <3>6. k = n + 1 /\ m.meaning = <<>>
      BY <1>3, <2>1, <3>1, <3>2, <3>5, Kinds
    <3>7. Upto(mm, k) = Upto(mm, n)
      <4>1. k \in 1..Len(mm) /\ k - 1 = n
        BY <1>3, <1>5, <3>6
      <4>2. mm[k] = <<>>
        BY <3>6 DEF mm, Meanings
      <4>3. /\ Upto(mm, k - 1) \in Seq(AnyRequest)
            /\ Upto(mm, k) = Upto(mm, k - 1) \o mm[k]
        BY <1>3, <4>1, UptoNext
      <4>4. Upto(mm, k - 1) \o <<>> = Upto(mm, k - 1)
        BY <4>3, ConcatEmptySeq
      <4> QED
        BY <4>1, <4>2, <4>3, <4>4
    <3>8. IsPrefix(Upto(mm, n), Upto(mm, n))
      <4>1. n \in 0..Len(mm) /\ n \in n..Len(mm)
        BY <1>3, <1>5
      <4> QED
        BY <1>3, <4>1, UptoPrefix
    <3> QED
      BY <1>3, <1>4, <2>1, <3>7, <3>8
  <2> QED
    BY <1>5, <2>1, <2>2, <2>3
<1>8. DOMAIN msgs = 1..l
  BY <1>1, LenProperties DEF MsgsOK
<1> QED
  BY <1>6, <1>7, <1>8 DEF ServedAsSent

(* What a connection says is understood as it was meant, and in order,     *)
(* wherever TCP cuts it, for messages of any number, length and kind: each *)
(* is served with its own uri and body and nothing of the one before it,   *)
(* and one that is not understood fails alone.                             *)
THEOREM MessagesServedAsSent == SafeSpec => []ServedAsSent
<1>1. Init => RequestInv /\ SentInv
  BY InitRequest, InitSent
<1>2. RequestInv /\ SentInv /\ [Next]_reqvars => RequestInv' /\ SentInv'
  BY RequestStep, NextSent
<1>3. RequestInv /\ SentInv => ServedAsSent
  BY SentIsServed DEF RequestInv
<1> QED
  BY <1>1, <1>2, <1>3, PTL DEF SafeSpec
-----------------------------------------------------------------------------
LEMMA Divided ==
  ASSUME NEW a \in Int, NEW d \in Nat \ {0}
  PROVE  a \div d \in Int /\ a % d \in 0..(d - 1) /\ a = d * (a \div d) + (a % d)
OBVIOUS

(* What Quote writes for each character, and where it stands. *)
QuotePieces(s, chars) ==
  [i \in DOMAIN s |->
    IF s[i] \in chars THEN <<Percent, Digit(s[i] \div 16), Digit(s[i] % 16)>> ELSE <<s[i]>>]
QuoteSize(s, chars, k) == Size(QuotePieces(s, chars), k)

LEMMA CharHalves ==
  ASSUME NEW c \in Char
  PROVE  c \div 16 \in 0..15 /\ c % 16 \in 0..15 /\ c = 16 * (c \div 16) + (c % 16)
<1> DEFINE m == c \div 16
           n == c % 16
<1>1. c \in Int /\ 0 <= c /\ c <= 255
  BY DEF Char
<1>2. m \in Int /\ n \in 0..(16 - 1) /\ c = 16 * m + n
  <2>1. 16 \in Nat \ {0}
    OBVIOUS
  <2> QED
    BY ONLY <1>1, <2>1, Divided
<1> HIDE DEF m, n
<1>3. m \in 0..15 /\ n \in 0..15 /\ c = 16 * m + n
  BY <1>1, <1>2
<1> QED
  BY <1>3 DEF m, n

(* The digits that Quote writes are those that the decoders read. *)
LEMMA DigitsRead ==
  ASSUME NEW c \in Char
  PROVE  /\ Digit(c \div 16) \in Char /\ Digit(c % 16) \in Char
         /\ IsHex(Digit(c \div 16)) /\ IsHex(Digit(c % 16))
         /\ Byte(Digit(c \div 16), Digit(c % 16)) = c
<1>1. ASSUME NEW n \in 0..15
      PROVE  Digit(n) \in Char /\ IsHex(Digit(n)) /\ Nibble(Digit(n)) = n
  BY DEF Digit, Char, IsHex, Nibble
<1>2. c \div 16 \in 0..15 /\ c % 16 \in 0..15 /\ c = 16 * (c \div 16) + (c % 16)
  BY CharHalves
<1> DEFINE m == c \div 16
           n == c % 16
<1>3. m \in 0..15 /\ n \in 0..15 /\ c = 16 * m + n
  BY ONLY <1>2
<1> HIDE DEF m, n
<1>4. /\ Digit(m) \in Char /\ IsHex(Digit(m)) /\ Nibble(Digit(m)) = m
      /\ Digit(n) \in Char /\ IsHex(Digit(n)) /\ Nibble(Digit(n)) = n
  BY <1>1, <1>3
<1>5. Byte(Digit(m), Digit(n)) = c
  BY <1>3, <1>4 DEF Byte
<1> QED
  BY <1>4, <1>5 DEF m, n

LEMMA QuotePiecesType ==
  ASSUME NEW s \in Seq(Char), NEW chars
  PROVE  /\ QuotePieces(s, chars) \in Seq(Seq(Char)) /\ Len(QuotePieces(s, chars)) = Len(s)
         /\ Quote(s, chars) = FlattenSeq(QuotePieces(s, chars))
<1> DEFINE piece(i) == IF s[i] \in chars
                       THEN <<Percent, Digit(s[i] \div 16), Digit(s[i] % 16)>> ELSE <<s[i]>>
<1>1. Len(s) \in Nat /\ DOMAIN s = 1..Len(s) /\ \A i \in 1..Len(s) : s[i] \in Char
  BY LenProperties, ElementOfSeq
<1>2. ASSUME NEW i \in 1..Len(s) PROVE piece(i) \in Seq(Char)
  <2>1. s[i] \in Char /\ Percent \in Char
    BY <1>1 DEF Percent, Char
  <2>2. Digit(s[i] \div 16) \in Char /\ Digit(s[i] % 16) \in Char
    BY <2>1, DigitsRead
  <2> QED
    BY <2>1, <2>2
<1>3. QuotePieces(s, chars) = [i \in 1..Len(s) |-> piece(i)]
  BY <1>1 DEF QuotePieces
<1> HIDE DEF piece
<1>4. [i \in 1..Len(s) |-> piece(i)] \in Seq(Seq(Char))
  BY <1>1, <1>2, IsASeq
<1>5. Len([i \in 1..Len(s) |-> piece(i)]) = Len(s)
  BY <1>1
<1> QED
  BY <1>3, <1>4, <1>5 DEF Quote, QuotePieces

LEMMA QuoteType ==
  ASSUME NEW s \in Seq(Char), NEW chars
  PROVE  /\ Quote(s, chars) \in Seq(Char) /\ Len(Quote(s, chars)) \in Nat
         /\ QuoteSize(s, chars, 0) = 0
         /\ QuoteSize(s, chars, Len(s)) = Len(Quote(s, chars))
<1>1. Quote(s, chars) \in Seq(Char)
  BY QuotePiecesType, FlattenType
<1> QED
  BY <1>1, QuotePiecesType, PiecesEnd, LenProperties DEF QuoteSize

LEMMA QuoteAt ==
  ASSUME NEW s \in Seq(Char), NEW chars, NEW k \in 1..Len(s)
  PROVE  LET p == QuoteSize(s, chars, k - 1)
             n == QuoteSize(s, chars, k)
             q == Quote(s, chars)
         IN  /\ p \in Nat /\ n <= Len(q) /\ s[k] \in Char
             /\ s[k] \in chars =>
                  /\ n = p + 3
                  /\ q[p + 1] = Percent
                  /\ q[p + 2] = Digit(s[k] \div 16)
                  /\ q[p + 3] = Digit(s[k] % 16)
             /\ s[k] \notin chars => n = p + 1 /\ q[p + 1] = s[k]
<1> DEFINE ss == QuotePieces(s, chars)
           p == QuoteSize(s, chars, k - 1)
           n == QuoteSize(s, chars, k)
           q == Quote(s, chars)
<1>1. ss \in Seq(Seq(Char)) /\ k \in 1..Len(ss) /\ q = FlattenSeq(ss)
  BY QuotePiecesType
<1>2. s[k] \in Char
  BY ElementOfSeq
<1>3. ss[k] = IF s[k] \in chars THEN <<Percent, Digit(s[k] \div 16), Digit(s[k] % 16)>>
              ELSE <<s[k]>>
  BY LenProperties DEF QuotePieces
<1>4. /\ p \in Nat /\ n = p + Len(ss[k]) /\ n <= Len(q)
      /\ \A x \in 1..Len(ss[k]) : q[p + x] = ss[k][x]
  <2> HIDE DEF ss
  <2>1. p = Size(ss, k - 1) /\ n = Size(ss, k)
    BY DEF QuoteSize, ss
  <2> HIDE DEF p, n, q
  <2> QED
    BY <1>1, <2>1, PieceAt
<1> HIDE DEF ss, p, n, q
<1>5. CASE s[k] \in chars
  <2>1. Len(ss[k]) = 3 /\ ss[k][1] = Percent /\ ss[k][2] = Digit(s[k] \div 16)
        /\ ss[k][3] = Digit(s[k] % 16)
    BY <1>3, <1>5
  <2>2. q[p + 1] = ss[k][1] /\ q[p + 2] = ss[k][2] /\ q[p + 3] = ss[k][3]
    BY <1>4, <2>1
  <2> QED
    BY <1>2, <1>4, <1>5, <2>1, <2>2 DEF p, n, q
<1>6. CASE s[k] \notin chars
  <2>1. Len(ss[k]) = 1 /\ ss[k][1] = s[k]
    BY <1>3, <1>6
  <2>2. q[p + 1] = ss[k][1]
    BY <1>4, <2>1
  <2> QED
    BY <1>2, <1>4, <1>6, <2>1, <2>2 DEF p, n, q
<1> QED
  BY <1>5, <1>6
-----------------------------------------------------------------------------
(* The text of a form. *)
Mark(i) == IF i = 1 THEN Question ELSE Ampersand
Marks == {Percent, Ampersand, Hash}
PathPieces(f) == [i \in DOMAIN f.path |-> <<Slash>> \o f.path[i]]
ParamPieces(f) == [i \in DOMAIN f.params |-> <<Mark(i)>> \o Pair(f.params[i])]
PathSize(f, i) == Size(PathPieces(f), i)
ParamSize(f, i) == Size(ParamPieces(f), i)
PathEnd(f) == PathSize(f, Len(f.path))
ParamsEnd(f) == PathEnd(f) + ParamSize(f, Len(f.params))

LEMMA FormParts ==
  ASSUME NEW f \in Forms
  PROVE  /\ Len(f.path) \in Nat \ {0} /\ DOMAIN f.path = 1..Len(f.path)
         /\ \A i \in 1..Len(f.path) :
              f.path[i] \in Seq(Char \ {Slash, Question}) /\ f.path[i] \in Seq(Char)
         /\ Len(f.params) \in Nat /\ DOMAIN f.params = 1..Len(f.params)
         /\ \A i \in 1..Len(f.params) :
              /\ f.params[i].name \in Seq(Char \ {Equals}) /\ f.params[i].name \in Seq(Char)
              /\ f.params[i].value \in Seq(Char)
         /\ f.fragment \in Seq(Char)
         /\ Len(f.params) = 0 => f.fragment = <<>>
<1>1. /\ f.path \in Seq(Seq(Char \ {Slash, Question})) /\ f.path # <<>>
      /\ f.params \in Seq([name : Seq(Char \ {Equals}), value : Seq(Char)])
      /\ f.fragment \in Seq(Char)
      /\ f.params = <<>> => f.fragment = <<>>
  BY FormAssumption
<1>2. /\ Len(f.path) \in Nat \ {0} /\ DOMAIN f.path = 1..Len(f.path)
      /\ Len(f.params) \in Nat /\ DOMAIN f.params = 1..Len(f.params)
      /\ Len(f.params) = 0 => f.params = <<>>
  BY <1>1, LenProperties, EmptySeq
<1>3. ASSUME NEW i \in 1..Len(f.path)
      PROVE  f.path[i] \in Seq(Char \ {Slash, Question}) /\ f.path[i] \in Seq(Char)
  <2>1. f.path[i] \in Seq(Char \ {Slash, Question})
    BY <1>1, ElementOfSeq
  <2>2. Char \ {Slash, Question} \subseteq Char
    OBVIOUS
  <2> QED
    BY <2>1, <2>2, SeqMonotonic
<1>4. ASSUME NEW i \in 1..Len(f.params)
      PROVE  /\ f.params[i].name \in Seq(Char \ {Equals}) /\ f.params[i].name \in Seq(Char)
             /\ f.params[i].value \in Seq(Char)
  <2>1. f.params[i] \in [name : Seq(Char \ {Equals}), value : Seq(Char)]
    BY <1>1, ElementOfSeq
  <2>2. f.params[i].name \in Seq(Char \ {Equals}) /\ f.params[i].value \in Seq(Char)
    BY <2>1
  <2>3. Char \ {Equals} \subseteq Char
    OBVIOUS
  <2> QED
    BY <2>2, <2>3, SeqMonotonic
<1> QED
  BY <1>1, <1>2, <1>3, <1>4

LEMMA MarkType == \A i : Mark(i) \in Char /\ Mark(i) \in {Question, Ampersand}
BY DEF Mark, Question, Ampersand, Char

LEMMA PathPiecesType ==
  ASSUME NEW f \in Forms
  PROVE  /\ PathPieces(f) \in Seq(Seq(Char)) /\ Len(PathPieces(f)) = Len(f.path)
         /\ \A i \in 1..Len(f.path) :
              LET t == PathPieces(f)[i]
              IN  /\ Len(t) = 1 + Len(f.path[i]) /\ t[1] = Slash
                  /\ Len(f.path[i]) \in Nat
                  /\ \A x \in 1..Len(f.path[i]) : t[1 + x] = f.path[i][x]
<1> DEFINE piece(i) == <<Slash>> \o f.path[i]
<1>1. Len(f.path) \in Nat /\ DOMAIN f.path = 1..Len(f.path)
  BY FormParts
<1>2. ASSUME NEW i \in 1..Len(f.path)
      PROVE  /\ piece(i) \in Seq(Char)
             /\ Len(piece(i)) = 1 + Len(f.path[i]) /\ piece(i)[1] = Slash
             /\ Len(f.path[i]) \in Nat
             /\ \A x \in 1..Len(f.path[i]) : piece(i)[1 + x] = f.path[i][x]
  <2>1. f.path[i] \in Seq(Char) /\ Slash \in Char
    BY FormParts DEF Slash, Char
  <2> QED
    BY <2>1, Behind, LenProperties
<1>3. PathPieces(f) = [i \in 1..Len(f.path) |-> piece(i)]
  BY <1>1 DEF PathPieces
<1> HIDE DEF piece
<1>4. [i \in 1..Len(f.path) |-> piece(i)] \in Seq(Seq(Char))
  BY <1>1, <1>2, IsASeq
<1>5. Len([i \in 1..Len(f.path) |-> piece(i)]) = Len(f.path)
  BY <1>1
<1>6. \A i \in 1..Len(f.path) : PathPieces(f)[i] = piece(i)
  BY <1>3
<1> QED
  BY <1>2, <1>3, <1>4, <1>5, <1>6

LEMMA ParamPieceIs ==
  ASSUME NEW f \in Forms, NEW i \in 1..Len(f.params)
  PROVE  LET t == <<Mark(i)>> \o Pair(f.params[i])
             name == f.params[i].name
             text == Quote(f.params[i].value, Marks)
         IN  /\ t \in Seq(Char) /\ Len(name) \in Nat /\ Len(text) \in Nat
             /\ Len(t) = 2 + Len(name) + Len(text)
             /\ t[1] = Mark(i)
             /\ \A x \in 1..Len(name) : t[1 + x] = name[x]
             /\ t[2 + Len(name)] = Equals
             /\ \A x \in 1..Len(text) : t[2 + Len(name) + x] = text[x]
<1> DEFINE name == f.params[i].name
           text == Quote(f.params[i].value, Marks)
           rear == <<Equals>> \o text
<1>1. name \in Seq(Char) /\ text \in Seq(Char) /\ Equals \in Char /\ Mark(i) \in Char
  <2>1. name \in Seq(Char) /\ f.params[i].value \in Seq(Char)
    BY FormParts
  <2>2. text \in Seq(Char)
    BY <2>1, QuoteType
  <2>3. Equals \in Char
    BY DEF Equals, Char
  <2> QED
    BY <2>1, <2>2, <2>3, MarkType
<1>2. Pair(f.params[i]) = (name \o <<Equals>>) \o text
  BY DEF Pair, Marks
<1> HIDE DEF name, text
<1>3. (name \o <<Equals>>) \o text = name \o rear
  <2>1. <<Equals>> \in Seq(Char)
    BY <1>1
  <2> QED
    BY <1>1, <2>1, ConcatAssociative
<1>4. /\ rear \in Seq(Char) /\ Len(rear) = Len(text) + 1 /\ rear[1] = Equals
      /\ \A x \in 1..Len(text) : rear[1 + x] = text[x]
  BY <1>1, Behind
<1> HIDE DEF rear
<1> DEFINE pair == name \o rear
           t == <<Mark(i)>> \o pair
<1>5. /\ pair \in Seq(Char) /\ Len(pair) = Len(name) + Len(rear)
      /\ Len(name) \in Nat /\ Len(text) \in Nat /\ Len(rear) \in Nat
      /\ \A x \in 1..Len(name) : pair[x] = name[x]
      /\ \A x \in 1..Len(rear) : pair[Len(name) + x] = rear[x]
  <2>1. Len(text) \in Nat
    BY <1>1, LenProperties
  <2>2. name \in Seq(Char) /\ rear \in Seq(Char)
    BY <1>1, <1>4
  <2> QED
    BY ONLY <2>1, <2>2, Joined
<1> HIDE DEF pair
<1>6. /\ t \in Seq(Char) /\ Len(t) = Len(pair) + 1 /\ t[1] = Mark(i)
      /\ \A x \in 1..Len(pair) : t[1 + x] = pair[x]
  BY <1>1, <1>5, Behind
<1> HIDE DEF t
<1>7. \A x \in 1..Len(name) : t[1 + x] = name[x]
  BY <1>4, <1>5, <1>6
<1>8. ASSUME NEW x \in 1..Len(rear) PROVE t[1 + Len(name) + x] = rear[x]
  <2>1. Len(name) + x \in 1..Len(pair) /\ 1 + (Len(name) + x) = 1 + Len(name) + x
    BY <1>5
  <2> QED
    BY <1>5, <1>6, <2>1
<1>9. t[2 + Len(name)] = Equals
  <2>1. 1 \in 1..Len(rear) /\ 1 + Len(name) + 1 = 2 + Len(name)
    BY <1>4, <1>5
  <2>2. t[1 + Len(name) + 1] = rear[1]
    BY <1>8, <2>1
  <2> QED
    BY <1>4, <2>1, <2>2
<1>10. ASSUME NEW x \in 1..Len(text) PROVE t[2 + Len(name) + x] = text[x]
  <2>1. 1 + x \in 1..Len(rear) /\ 1 + Len(name) + (1 + x) = 2 + Len(name) + x
    BY <1>4, <1>5
  <2>2. t[1 + Len(name) + (1 + x)] = rear[1 + x]
    BY <1>8, <2>1
  <2> QED
    BY <1>4, <2>1, <2>2
<1>11. Len(t) = 2 + Len(name) + Len(text)
  BY <1>4, <1>5, <1>6
<1>12. t = <<Mark(i)>> \o Pair(f.params[i])
  BY <1>2, <1>3 DEF t, pair
<1> HIDE DEF t
<1> QED
  BY <1>5, <1>6, <1>7, <1>9, <1>10, <1>11, <1>12 DEF name, text

LEMMA ParamPiecesType ==
  ASSUME NEW f \in Forms
  PROVE  /\ ParamPieces(f) \in Seq(Seq(Char)) /\ Len(ParamPieces(f)) = Len(f.params)
         /\ \A i \in 1..Len(f.params) : ParamPieces(f)[i] = <<Mark(i)>> \o Pair(f.params[i])
<1> DEFINE piece(i) == <<Mark(i)>> \o Pair(f.params[i])
<1>1. Len(f.params) \in Nat /\ DOMAIN f.params = 1..Len(f.params)
  BY FormParts
<1>2. \A i \in 1..Len(f.params) : piece(i) \in Seq(Char)
  BY ParamPieceIs
<1>3. ParamPieces(f) = [i \in 1..Len(f.params) |-> piece(i)]
  BY <1>1 DEF ParamPieces
<1>4. \A i \in 1..Len(f.params) : ParamPieces(f)[i] = piece(i)
  BY <1>3
<1> HIDE DEF piece
<1>5. [i \in 1..Len(f.params) |-> piece(i)] \in Seq(Seq(Char))
  BY <1>1, <1>2, IsASeq
<1>6. Len([i \in 1..Len(f.params) |-> piece(i)]) = Len(f.params)
  BY <1>1
<1> QED
  BY <1>3, <1>4, <1>5, <1>6 DEF piece

Ending(f) == IF f.fragment = <<>> THEN <<>> ELSE <<Hash>> \o f.fragment

LEMMA EndingType ==
  ASSUME NEW f \in Forms
  PROVE  /\ Ending(f) \in Seq(Char) /\ Len(f.fragment) \in Nat
         /\ f.fragment = <<>> => Len(Ending(f)) = 0
         /\ f.fragment # <<>> => /\ Len(Ending(f)) = Len(f.fragment) + 1 /\ Ending(f)[1] = Hash
                                 /\ \A x \in 1..Len(f.fragment) : Ending(f)[1 + x] = f.fragment[x]
<1>1. f.fragment \in Seq(Char) /\ Hash \in Char
  BY FormParts DEF Hash, Char
<1>2. Len(f.fragment) \in Nat
  BY <1>1, LenProperties
<1>3. CASE f.fragment = <<>>
  <2>1. Ending(f) = <<>>
    BY <1>3 DEF Ending
  <2> QED
    BY <1>2, <1>3, <2>1
<1>4. CASE f.fragment # <<>>
  <2>1. Ending(f) = <<Hash>> \o f.fragment
    BY <1>4 DEF Ending
  <2> QED
    BY <1>1, <1>2, <1>4, <2>1, Behind
<1> QED
  BY <1>3, <1>4

(* The text of a form is its path, its parameters and its fragment.        *)
LEMMA TextParts ==
  ASSUME NEW f \in Forms
  PROVE  LET t == Text(f)
             a == FlattenSeq(PathPieces(f))
             b == FlattenSeq(ParamPieces(f))
         IN  /\ t \in Seq(Char) /\ PathEnd(f) \in Nat /\ ParamsEnd(f) \in Nat
             /\ Len(a) = PathEnd(f) /\ ParamsEnd(f) = PathEnd(f) + Len(b)
             /\ PathEnd(f) <= ParamsEnd(f)
             /\ Len(t) = ParamsEnd(f) + Len(Ending(f)) /\ ParamsEnd(f) <= Len(t)
             /\ \A x \in 1..PathEnd(f) : t[x] = a[x]
             /\ \A x \in 1..Len(b) : t[PathEnd(f) + x] = b[x]
             /\ \A x \in 1..Len(Ending(f)) : t[ParamsEnd(f) + x] = Ending(f)[x]
<1> DEFINE t == Text(f)
           a == FlattenSeq(PathPieces(f))
           b == FlattenSeq(ParamPieces(f))
           c == Ending(f)
<1>1. a \in Seq(Char) /\ b \in Seq(Char) /\ c \in Seq(Char)
  BY PathPiecesType, ParamPiecesType, EndingType, FlattenType
<1>2. PathEnd(f) = Len(a) /\ ParamSize(f, Len(f.params)) = Len(b)
  <2>1. Size(PathPieces(f), Len(f.path)) = Len(a)
    BY PathPiecesType, PiecesEnd
  <2>2. Size(ParamPieces(f), Len(f.params)) = Len(b)
    BY ParamPiecesType, PiecesEnd
  <2> QED
    BY <2>1, <2>2 DEF PathEnd, PathSize, ParamSize
<1>3. t = (a \o b) \o c
  BY DEF Text, Ending, PathPieces, ParamPieces, Mark
<1> HIDE DEF t, a, b, c
<1> DEFINE ab == a \o b
<1>4. /\ ab \in Seq(Char) /\ Len(ab) = Len(a) + Len(b) /\ Len(a) \in Nat /\ Len(b) \in Nat
      /\ \A x \in 1..Len(a) : ab[x] = a[x]
      /\ \A x \in 1..Len(b) : ab[Len(a) + x] = b[x]
  BY ONLY <1>1, Joined
<1> HIDE DEF ab
<1>5. /\ t \in Seq(Char) /\ Len(t) = Len(ab) + Len(c) /\ Len(c) \in Nat
      /\ \A x \in 1..Len(ab) : t[x] = ab[x]
      /\ \A x \in 1..Len(c) : t[Len(ab) + x] = c[x]
  <2>1. t = ab \o c
    BY <1>3 DEF ab
  <2>2. ab \in Seq(Char) /\ c \in Seq(Char)
    BY <1>1, <1>4
  <2>3. /\ ab \o c \in Seq(Char) /\ Len(ab \o c) = Len(ab) + Len(c) /\ Len(c) \in Nat
        /\ \A x \in 1..Len(ab) : (ab \o c)[x] = ab[x]
        /\ \A x \in 1..Len(c) : (ab \o c)[Len(ab) + x] = c[x]
    BY ONLY <2>2, Joined
  <2> HIDE DEF ab
  <2> QED
    BY ONLY <2>1, <2>3
<1>6. ParamsEnd(f) = Len(ab)
  BY <1>2, <1>4 DEF ParamsEnd
<1>7. \A x \in 1..Len(a) : t[x] = a[x]
  BY <1>4, <1>5
<1>8. ASSUME NEW x \in 1..Len(b) PROVE t[Len(a) + x] = b[x]
  <2>1. Len(a) + x \in 1..Len(ab)
    BY <1>4
  <2> QED
    BY <1>4, <1>5, <2>1
<1>9. /\ PathEnd(f) \in Nat /\ ParamsEnd(f) \in Nat
      /\ PathEnd(f) <= ParamsEnd(f) /\ ParamsEnd(f) <= Len(t)
  BY <1>2, <1>4, <1>5, <1>6
<1> QED
  BY <1>2, <1>4, <1>5, <1>6, <1>7, <1>8, <1>9 DEF t, a, b, c

LEMMA SegmentAt ==
  ASSUME NEW f \in Forms, NEW i \in 1..Len(f.path)
  PROVE  LET p == PathSize(f, i - 1)
             s == f.path[i]
             t == Text(f)
         IN  /\ p \in Nat /\ Len(s) \in Nat /\ PathSize(f, i) = p + 1 + Len(s)
             /\ PathSize(f, i) <= PathEnd(f) /\ PathSize(f, i) <= Len(t)
             /\ t[p + 1] = Slash
             /\ \A x \in 1..Len(s) : t[p + 1 + x] = s[x]
<1> DEFINE p == PathSize(f, i - 1)
           n == PathSize(f, i)
           s == f.path[i]
           t == Text(f)
           ss == PathPieces(f)
           a == FlattenSeq(ss)
<1>1. /\ ss \in Seq(Seq(Char)) /\ i \in 1..Len(ss)
      /\ Len(ss[i]) = 1 + Len(s) /\ ss[i][1] = Slash /\ Len(s) \in Nat
      /\ \A x \in 1..Len(s) : ss[i][1 + x] = s[x]
  BY PathPiecesType
<1>2. /\ Len(t) \in Nat /\ PathEnd(f) \in Nat /\ Len(a) = PathEnd(f) /\ PathEnd(f) <= Len(t)
      /\ \A x \in 1..PathEnd(f) : t[x] = a[x]
  <2> HIDE DEF ss
  <2>1. /\ t \in Seq(Char) /\ PathEnd(f) \in Nat /\ ParamsEnd(f) \in Nat
        /\ PathEnd(f) <= ParamsEnd(f) /\ ParamsEnd(f) <= Len(t)
        /\ Len(a) = PathEnd(f)
        /\ \A x \in 1..PathEnd(f) : t[x] = a[x]
    BY TextParts DEF ss
  <2>2. Len(t) \in Nat
    BY <2>1, LenProperties
  <2> QED
    BY <2>1, <2>2
<1>3. p = Size(ss, i - 1) /\ n = Size(ss, i)
  BY DEF PathSize
<1> HIDE DEF p, n, s, t, ss
<1>4. /\ p \in Nat /\ n = p + Len(ss[i]) /\ n <= Len(a)
      /\ \A x \in 1..Len(ss[i]) : a[p + x] = ss[i][x]
  BY <1>1, <1>3, PieceAt
<1> HIDE DEF a
<1>5. ASSUME NEW x \in 1..Len(ss[i]) PROVE t[p + x] = ss[i][x]
  <2>1. p + x \in 1..PathEnd(f)
    BY <1>1, <1>2, <1>4
  <2> QED
    BY <1>2, <1>4, <2>1
<1>6. t[p + 1] = Slash
  BY <1>1, <1>5
<1>7. ASSUME NEW x \in 1..Len(s) PROVE t[p + 1 + x] = s[x]
  <2>1. 1 + x \in 1..Len(ss[i]) /\ p + (1 + x) = p + 1 + x
    BY <1>1, <1>4
  <2>2. t[p + (1 + x)] = ss[i][1 + x]
    BY <1>5, <2>1
  <2> QED
    BY <1>1, <2>1, <2>2
<1>8. n = p + 1 + Len(s) /\ n <= PathEnd(f) /\ n <= Len(t)
  BY <1>1, <1>2, <1>4
<1> QED
  BY <1>1, <1>4, <1>6, <1>7, <1>8 DEF p, n, s, t

LEMMA ParamAt ==
  ASSUME NEW f \in Forms, NEW i \in 1..Len(f.params)
  PROVE  LET p == PathEnd(f) + ParamSize(f, i - 1)
             name == f.params[i].name
             text == Quote(f.params[i].value, Marks)
             n == PathEnd(f) + ParamSize(f, i)
             t == Text(f)
         IN  /\ p \in Nat /\ n = p + 2 + Len(name) + Len(text)
             /\ Len(name) \in Nat /\ Len(text) \in Nat
             /\ n <= ParamsEnd(f) /\ n <= Len(t)
             /\ t[p + 1] = Mark(i)
             /\ \A x \in 1..Len(name) : t[p + 1 + x] = name[x]
             /\ t[p + 2 + Len(name)] = Equals
             /\ \A x \in 1..Len(text) : t[p + 2 + Len(name) + x] = text[x]
<1> DEFINE e == PathEnd(f)
           p == e + ParamSize(f, i - 1)
           n == e + ParamSize(f, i)
           name == f.params[i].name
           text == Quote(f.params[i].value, Marks)
           t == Text(f)
           ss == ParamPieces(f)
           b == FlattenSeq(ss)
           k == Size(ss, i - 1)
<1>1. /\ ss \in Seq(Seq(Char)) /\ i \in 1..Len(ss)
      /\ ss[i] = <<Mark(i)>> \o Pair(f.params[i])
  BY ParamPiecesType
<1>2. /\ Len(name) \in Nat /\ Len(text) \in Nat
      /\ Len(ss[i]) = 2 + Len(name) + Len(text)
      /\ ss[i][1] = Mark(i)
      /\ \A x \in 1..Len(name) : ss[i][1 + x] = name[x]
      /\ ss[i][2 + Len(name)] = Equals
      /\ \A x \in 1..Len(text) : ss[i][2 + Len(name) + x] = text[x]
  <2> DEFINE tt == <<Mark(i)>> \o Pair(f.params[i])
  <2>1. /\ Len(name) \in Nat /\ Len(text) \in Nat
        /\ Len(tt) = 2 + Len(name) + Len(text)
        /\ tt[1] = Mark(i)
        /\ \A x \in 1..Len(name) : tt[1 + x] = name[x]
        /\ tt[2 + Len(name)] = Equals
        /\ \A x \in 1..Len(text) : tt[2 + Len(name) + x] = text[x]
    BY ParamPieceIs
  <2>2. ss[i] = tt
    BY <1>1
  <2> HIDE DEF ss, tt, name, text
  <2> QED
    BY ONLY <2>1, <2>2
<1>3. /\ Len(t) \in Nat /\ e \in Nat /\ ParamsEnd(f) = e + Len(b) /\ ParamsEnd(f) <= Len(t)
      /\ ParamsEnd(f) \in Nat
      /\ \A x \in 1..Len(b) : t[e + x] = b[x]
  <2> HIDE DEF ss
  <2>1. /\ t \in Seq(Char) /\ PathEnd(f) \in Nat /\ ParamsEnd(f) \in Nat
        /\ ParamsEnd(f) <= Len(t)
        /\ ParamsEnd(f) = PathEnd(f) + Len(b)
        /\ \A x \in 1..Len(b) : t[PathEnd(f) + x] = b[x]
    BY TextParts DEF ss
  <2>2. Len(t) \in Nat
    BY <2>1, LenProperties
  <2> QED
    BY <2>1, <2>2
<1>4. p = e + k /\ n = e + Size(ss, i)
  BY DEF ParamSize
<1> HIDE DEF p, n, e, name, text, t, ss
<1>5. /\ k \in Nat /\ Size(ss, i) = k + Len(ss[i]) /\ Size(ss, i) <= Len(b) /\ Len(b) \in Nat
      /\ \A x \in 1..Len(ss[i]) : b[k + x] = ss[i][x]
  <2>1. Len(b) \in Nat
    BY <1>1, FlattenType, LenProperties
  <2> QED
    BY <1>1, <2>1, PieceAt
<1> HIDE DEF b, k
<1>6. ASSUME NEW x \in 1..Len(ss[i]) PROVE t[p + x] = ss[i][x]
  <2>1. k + x \in 1..Len(b) /\ p + x = e + (k + x)
    BY <1>2, <1>3, <1>4, <1>5
  <2> QED
    BY <1>3, <1>5, <2>1
<1>7. t[p + 1] = Mark(i)
  <2>1. 1 \in 1..Len(ss[i])
    BY <1>2
  <2> QED
    BY <1>2, <1>6, <2>1
<1>8. ASSUME NEW x \in 1..Len(name) PROVE t[p + 1 + x] = name[x]
  <2>1. 1 + x \in 1..Len(ss[i]) /\ p + (1 + x) = p + 1 + x
    BY <1>2, <1>3, <1>4, <1>5
  <2>2. t[p + (1 + x)] = ss[i][1 + x]
    BY <1>6, <2>1
  <2> QED
    BY <1>2, <2>1, <2>2
<1>9. t[p + 2 + Len(name)] = Equals
  <2>1. 2 + Len(name) \in 1..Len(ss[i]) /\ p + (2 + Len(name)) = p + 2 + Len(name)
    BY <1>2, <1>3, <1>4, <1>5
  <2>2. t[p + (2 + Len(name))] = ss[i][2 + Len(name)]
    BY <1>6, <2>1
  <2> QED
    BY <1>2, <2>1, <2>2
<1>10. ASSUME NEW x \in 1..Len(text) PROVE t[p + 2 + Len(name) + x] = text[x]
  <2>1. /\ 2 + Len(name) + x \in 1..Len(ss[i])
        /\ p + (2 + Len(name) + x) = p + 2 + Len(name) + x
    <3>1. /\ Len(name) \in Nat /\ Len(text) \in Nat /\ p \in Int
          /\ Len(ss[i]) = 2 + Len(name) + Len(text)
      BY <1>2, <1>3, <1>4, <1>5
    <3> QED
      BY ONLY <3>1
  <2>2. t[p + (2 + Len(name) + x)] = ss[i][2 + Len(name) + x]
    BY <1>6, <2>1
  <2> QED
    BY <1>2, <2>1, <2>2
<1>11. p \in Nat /\ n = p + 2 + Len(name) + Len(text) /\ n <= ParamsEnd(f) /\ n <= Len(t)
  BY <1>2, <1>3, <1>4, <1>5
<1> QED
  BY <1>2, <1>7, <1>8, <1>9, <1>10, <1>11 DEF p, n, e, name, text, t

(* What a form begins with, and what follows its path and its parameters. *)
LEMMA TextEnds ==
  ASSUME NEW f \in Forms
  PROVE  LET t == Text(f)
         IN  /\ PathSize(f, 0) = 0 /\ ParamSize(f, 0) = 0
             /\ PathEnd(f) = PathSize(f, Len(f.path))
             /\ ParamsEnd(f) = PathEnd(f) + ParamSize(f, Len(f.params))
             /\ PathEnd(f) \in Nat /\ ParamsEnd(f) \in Nat /\ Len(t) \in Nat
             /\ Len(f.fragment) \in Nat
             /\ f.fragment = <<>> => Len(t) = ParamsEnd(f)
             /\ f.fragment # <<>> =>
                  /\ Len(t) = ParamsEnd(f) + 1 + Len(f.fragment)
                  /\ t[ParamsEnd(f) + 1] = Hash
                  /\ \A x \in 1..Len(f.fragment) : t[ParamsEnd(f) + 1 + x] = f.fragment[x]
<1> DEFINE t == Text(f)
           c == Ending(f)
           e == ParamsEnd(f)
<1>1. PathSize(f, 0) = 0 /\ ParamSize(f, 0) = 0
  BY UptoNone DEF PathSize, ParamSize, Size
<1>2. /\ t \in Seq(Char) /\ PathEnd(f) \in Nat /\ e \in Nat
      /\ Len(t) = e + Len(c)
      /\ \A x \in 1..Len(c) : t[e + x] = c[x]
  BY TextParts
<1>3. /\ Len(f.fragment) \in Nat
      /\ f.fragment = <<>> => Len(c) = 0
      /\ f.fragment # <<>> => /\ Len(c) = Len(f.fragment) + 1 /\ c[1] = Hash
                              /\ \A x \in 1..Len(f.fragment) : c[1 + x] = f.fragment[x]
  BY EndingType
<1>4. Len(t) \in Nat
  BY <1>2, LenProperties
<1>5. PathEnd(f) = PathSize(f, Len(f.path)) /\ e = PathEnd(f) + ParamSize(f, Len(f.params))
  BY DEF PathEnd, ParamsEnd
<1> HIDE DEF t, c, e
<1>6. ASSUME f.fragment # <<>>
      PROVE  /\ Len(t) = e + 1 + Len(f.fragment) /\ t[e + 1] = Hash
             /\ \A x \in 1..Len(f.fragment) : t[e + 1 + x] = f.fragment[x]
  <2>1. Len(t) = e + 1 + Len(f.fragment) /\ 1 \in 1..Len(c)
    <3> DEFINE l == Len(c)
               m == Len(f.fragment)
    <3>1. e \in Nat /\ m \in Nat /\ l = m + 1 /\ Len(t) = e + l
      BY <1>2, <1>3, <1>6
    <3> HIDE DEF l, m
    <3>2. Len(t) = e + 1 + m /\ 1 \in 1..l
      BY ONLY <3>1
    <3> QED
      BY <3>2 DEF l, m
  <2>2. t[e + 1] = Hash
    BY <1>2, <1>3, <1>6, <2>1
  <2>3. ASSUME NEW x \in 1..Len(f.fragment) PROVE t[e + 1 + x] = f.fragment[x]
    <3>1. 1 + x \in 1..Len(c) /\ e + (1 + x) = e + 1 + x
      BY <1>2, <1>3, <1>6
    <3>2. t[e + (1 + x)] = c[1 + x]
      BY <1>2, <3>1
    <3> QED
      BY <1>3, <1>6, <3>1, <3>2
  <2> QED
    BY <2>1, <2>2, <2>3
<1>7. f.fragment = <<>> => Len(t) = e
  BY <1>2, <1>3
<1> QED
  BY <1>1, <1>2, <1>3, <1>4, <1>5, <1>6, <1>7 DEF t, e
-----------------------------------------------------------------------------
(* The walks over a uri. *)
Octet == 0..255
Loops == {"path", "name", "value", "fragment"}

TextType ==
  /\ src \in Seq(Char)
  /\ res \in Seq(Octet)
  /\ point \in Nat \ {0}

(* The end of src is behind point, or the last escape is cut off by it.    *)
SrcWalk ==
  /\ phase = "uri" => point <= Len(src) + 1
  /\ phase = "outside" => \E i \in DOMAIN src : src[i] = Percent /\ i > Len(src) - 2

(* No terminator lies before point.  In a name, the character that began   *)
(* the parameter has no "=" behind it yet.                                 *)
Seen(n) == n <= Len(res) + 1 /\ \A j \in 1..(n - 1) : res[j] # 0
ResWalk ==
  /\ phase \in Loops => Seen(point)
  /\ phase = "name" =>
       \E i \in 1..(point - 1) : /\ res[i] \in {Question, Ampersand}
                                 /\ \A j \in (i + 1)..(point - 1) : res[j] # Equals

UriInv == TextType /\ SrcWalk /\ ResWalk /\ RefusedForCause
-----------------------------------------------------------------------------
LEMMA AtInside ==
  ASSUME NEW s \in Seq(Octet), NEW i \in Nat \ {0}
  PROVE  /\ At(s, i) \in Octet
         /\ At(s, i) # 0 => i \in 1..Len(s) /\ At(s, i) = s[i]
<1>1. CASE i <= Len(s)
  <2>1. i \in 1..Len(s) /\ s[i] \in Octet /\ At(s, i) = s[i]
    BY <1>1 DEF At
  <2> QED
    BY <2>1
<1>2. CASE ~(i <= Len(s))
  BY <1>2 DEF At, Octet
<1> QED
  BY <1>1, <1>2

LEMMA HexIsNotZero == \A c : IsHex(c) => c # 0
BY DEF IsHex

LEMMA ByteIsChar ==
  ASSUME NEW high, NEW low, IsHex(high), IsHex(low)
  PROVE  Nibble(high) \in 0..15 /\ Byte(high, low) \in Octet
BY DEF Octet, IsHex, Nibble, Byte

(* What is decoded so far can be extended by what sscanf made of an escape. *)
LEMMA ScannedType == Scanned \in Seq(Octet)
<1>1. CASE ~IsHex(At(src, point + 1))
  BY <1>1 DEF Scanned
<1>2. CASE IsHex(At(src, point + 1)) /\ ~IsHex(At(src, point + 2))
  <2>1. Nibble(At(src, point + 1)) \in Octet
    BY <1>2 DEF IsHex, Nibble, Octet
  <2> QED
    BY <1>2, <2>1 DEF Scanned
<1>3. CASE IsHex(At(src, point + 1)) /\ IsHex(At(src, point + 2))
  BY <1>3, ByteIsChar DEF Scanned
<1> QED
  BY <1>1, <1>2, <1>3

LEMMA InitUri == UriInit => UriInv
<1> SUFFICES ASSUME UriInit PROVE UriInv
  OBVIOUS
<1>1. src \in Seq(Char)
  <2>1. ASSUME form \in Forms PROVE Encode(form) \in Seq(Char)
    <3>1. Text(form) \in Seq(Char)
      BY <2>1, TextParts
    <3> QED
      BY <3>1, QuoteType DEF Encode
  <2> QED
    BY <2>1, InputAssumption DEF UriInit
<1> QED
  BY <1>1 DEF UriInit, UriInv, TextType, SrcWalk, ResWalk, RefusedForCause, Loops
-----------------------------------------------------------------------------
(* HttpDecodeUri. *)

LEMMA DecodeInv ==
  ASSUME UriInv, CopyChar \/ DecodeEscape \/ StartSplit
  PROVE  UriInv'
<1>1. src \in Seq(Octet)
  <2>1. Char \subseteq Octet
    BY DEF Char, Octet
  <2> QED
    BY <2>1 DEF UriInv, TextType
<1>2. src' = src /\ phase = "uri" /\ point \in 1..(Len(src) + 1)
  BY DEF UriInv, TextType, SrcWalk, CopyChar, DecodeEscape, EscapeTo, StartSplit, inputvars
<1>3. CASE CopyChar
  <2>1. src[point] \in Octet /\ point <= Len(src)
    BY <1>1, <1>2, <1>3, AtInside DEF CopyChar, UriInv, TextType
  <2>2. TextType'
    BY <1>1, <1>2, <1>3, <2>1 DEF CopyChar, UriInv, TextType
  <2> QED
    BY <1>1, <1>2, <1>3, <2>1, <2>2 DEF CopyChar, UriInv, SrcWalk, ResWalk, RefusedForCause, Loops
<1>4. CASE DecodeEscape
  <2>1. src[point] = Percent /\ point <= Len(src)
    BY <1>1, <1>2, <1>4, AtInside DEF DecodeEscape, EscapeTo, Percent
  <2>2. res' = res \o Scanned /\ point' = point + 3
    BY <1>4 DEF DecodeEscape, EscapeTo
  <2>3. TextType'
    BY <1>1, <1>2, <2>2, ScannedType DEF UriInv, TextType
  <2>4. CASE point + 3 > Len(src) + 1
    <3>1. phase' = "outside" /\ point \in DOMAIN src /\ point > Len(src) - 2
      BY <1>1, <1>2, <1>4, <2>1, <2>4 DEF DecodeEscape, EscapeTo
    <3> QED
      BY <1>1, <1>2, <2>1, <2>3, <3>1 DEF UriInv, SrcWalk, ResWalk, RefusedForCause, Loops
  <2>5. CASE point + 3 <= Len(src) + 1
    <3>1. phase' = "uri"
      BY <1>1, <1>2, <1>4, <2>5 DEF DecodeEscape, EscapeTo
    <3> QED
      BY <1>1, <1>2, <2>2, <2>3, <2>5, <3>1 DEF UriInv, SrcWalk, ResWalk, RefusedForCause, Loops
  <2> QED
    BY <1>1, <1>2, <2>4, <2>5
<1>5. CASE StartSplit
  <2>1. res' = res /\ point' = 2 /\ phase' = IF At(res, 1) = Slash THEN "path" ELSE "refused"
    BY <1>5 DEF StartSplit
  <2>2. TextType'
    BY <1>1, <1>2, <2>1 DEF UriInv, TextType
  <2>3. CASE At(res, 1) = Slash
    <3>1. res[1] = Slash /\ 1 <= Len(res)
      BY <2>3, AtInside DEF UriInv, TextType, Slash
    <3>2. Seen(2)'
      BY <2>1, <3>1 DEF Seen, Slash, UriInv, TextType
    <3> QED
      BY <2>1, <2>2, <2>3, <3>2 DEF UriInv, SrcWalk, ResWalk, RefusedForCause, Loops
  <2>4. CASE At(res, 1) # Slash
    <3>1. RefusedForCause'
      BY <2>1, <2>4 DEF RefusedForCause
    <3> QED
      BY <2>1, <2>2, <2>4, <3>1 DEF UriInv, SrcWalk, ResWalk, Loops
  <2> QED
    BY <2>3, <2>4
<1> QED
  BY <1>3, <1>4, <1>5
-----------------------------------------------------------------------------
(* Decode. *)

(* A loop reads a character that is not the terminator.                    *)
LEMMA OneOn ==
  ASSUME UriInv, phase \in Loops, At(res, point) # 0
  PROVE  point \in 1..Len(res) /\ res[point] = At(res, point) /\ Seen(point + 1)
<1>1. point \in 1..Len(res) /\ res[point] = At(res, point)
  BY AtInside DEF UriInv, TextType
<1>2. ASSUME NEW j \in 1..point PROVE res[j] # 0
  BY <1>1, <1>2 DEF UriInv, ResWalk, Seen
<1> QED
  BY <1>1, <1>2 DEF Seen, UriInv, TextType

LEMMA CharIsNotZero == \A chars : 0 \notin (1..255) \ chars
OBVIOUS

LEMMA NotInMeans ==
  ASSUME NEW loop, NEW chars, NotIn(loop, chars)
  PROVE  /\ phase = loop /\ point' = point + 1 /\ UNCHANGED <<inputvars, res>>
         /\ At(res, point) # 0 /\ At(res, point) \notin chars
BY CharIsNotZero DEF NotIn, In

LEMMA AtEnd ==
  ASSUME UriInv, phase \in Loops, At(res, point) = 0
  PROVE  \A i \in DOMAIN res : (\A j \in 1..i : res[j] # 0) => i < point
<1> SUFFICES ASSUME NEW i \in DOMAIN res, \A j \in 1..i : res[j] # 0, i >= point
             PROVE  FALSE
  BY DEF UriInv, TextType
<1>1. point \in 1..i /\ point <= Len(res)
  BY DEF UriInv, TextType
<1>2. res[point] = 0
  BY <1>1 DEF At
<1> QED
  BY <1>1, <1>2

(* Steps that go on in one of the loops other than a name. *)
LEMMA GoesOn ==
  ASSUME UriInv, UNCHANGED <<inputvars, res>>, phase' \in {"path", "value", "fragment"},
         point' \in Nat \ {0}, Seen(point')
  PROVE  UriInv'
BY DEF UriInv, TextType, SrcWalk, ResWalk, RefusedForCause, Seen, inputvars

LEMMA Stops ==
  ASSUME UriInv, UNCHANGED <<inputvars, res>>, phase' = "accepted", point' \in Nat \ {0}
  PROVE  UriInv'
BY DEF UriInv, TextType, SrcWalk, ResWalk, RefusedForCause, Loops, inputvars

(* Behind the "?" or "&" at point a name begins. *)
LEMMA NameBegins ==
  ASSUME UriInv, UNCHANGED <<inputvars, res>>, phase \in Loops, phase' = "name",
         point' = point + 1, At(res, point) \in {Question, Ampersand}
  PROVE  UriInv'
<1>1. /\ point \in 1..Len(res) /\ res[point] \in {Question, Ampersand} /\ Seen(point + 1)
  BY OneOn DEF Question, Ampersand
<1>2. ResWalk'
  BY <1>1 DEF ResWalk, Seen
<1> QED
  BY <1>1, <1>2 DEF UriInv, TextType, SrcWalk, RefusedForCause, inputvars

LEMMA NameInv ==
  ASSUME UriInv, NameChar \/ EndName
  PROVE  UriInv'
<1>1. /\ phase = "name" /\ phase \in Loops /\ UNCHANGED <<inputvars, res>>
      /\ point' = point + 1 /\ point \in Nat \ {0}
  BY DEF NameChar, EndName, NotIn, In, Loops, UriInv, TextType
<1>2. PICK q \in 1..(point - 1) :
        /\ res[q] \in {Question, Ampersand}
        /\ \A j \in (q + 1)..(point - 1) : res[j] # Equals
  BY <1>1 DEF UriInv, ResWalk
<1>3. CASE NameChar
  <2>1. At(res, point) # 0 /\ At(res, point) # Equals /\ phase' = "name"
    BY <1>1, <1>3, NotInMeans DEF NameChar
  <2>2. point \in 1..Len(res) /\ res[point] # Equals /\ Seen(point + 1)
    BY <1>1, <2>1, OneOn
  <2>3. ResWalk'
    BY <1>1, <1>2, <2>1, <2>2 DEF ResWalk, Seen
  <2> QED
    BY <1>1, <2>1, <2>3 DEF UriInv, TextType, SrcWalk, RefusedForCause, inputvars
<1>4. CASE EndName /\ At(res, point) = 0
  <2>1. phase' = "refused"
    BY <1>4 DEF EndName
  <2>2. Seen(point) /\ q \in DOMAIN res /\ \A j \in 1..q : res[j] # 0
    BY <1>1, <1>2 DEF UriInv, TextType, ResWalk, Seen
  <2>3. ASSUME NEW j \in DOMAIN res, \A k \in 1..j : res[k] # 0, j > q
        PROVE  res[j] # Equals
    <3>1. j < point /\ j \in Nat
      BY <1>1, <1>4, <2>3, AtEnd DEF UriInv, TextType
    <3> QED
      BY <1>1, <1>2, <2>3, <3>1
  <2>4. RefusedForCause'
    BY <1>1, <1>2, <2>2, <2>3 DEF RefusedForCause
  <2> QED
    BY <1>1, <2>1, <2>4 DEF UriInv, TextType, SrcWalk, ResWalk, Loops, inputvars
<1>5. CASE EndName /\ At(res, point) # 0
  <2>1. phase' = "value" /\ Seen(point + 1)
    BY <1>1, <1>5, OneOn DEF EndName
  <2> QED
    BY <1>1, <2>1, GoesOn
<1> QED
  BY <1>3, <1>4, <1>5

LEMMA PathInv ==
  ASSUME UriInv, PathChar \/ EndSegment
  PROVE  UriInv'
<1>1. /\ phase = "path" /\ phase \in Loops /\ UNCHANGED <<inputvars, res>>
      /\ point' = point + 1 /\ point' \in Nat \ {0}
  BY DEF PathChar, EndSegment, NotIn, In, Loops, UriInv, TextType
<1>2. CASE PathChar
  <2>1. At(res, point) # 0 /\ phase' = "path"
    BY <1>1, <1>2, NotInMeans DEF PathChar
  <2> QED
    BY <1>1, <2>1, OneOn, GoesOn
<1>3. CASE EndSegment
  <2>1. CASE At(res, point) = 0
    BY <1>1, <1>3, <2>1, Stops DEF EndSegment, Question
  <2>2. CASE At(res, point) = Question
    BY <1>1, <1>3, <2>2, NameBegins DEF EndSegment, Question
  <2>3. CASE At(res, point) = Slash
    <3>1. phase' = "path" /\ At(res, point) # 0
      BY <1>3, <2>3 DEF EndSegment, Slash, Question
    <3> QED
      BY <1>1, <3>1, OneOn, GoesOn
  <2> QED
    BY <1>3, <2>1, <2>2, <2>3 DEF EndSegment, In
<1> QED
  BY <1>2, <1>3

LEMMA ValueInv ==
  ASSUME UriInv, ValueChar \/ ValueEscape \/ EndParam
  PROVE  UriInv'
<1>1. /\ phase = "value" /\ phase \in Loops /\ UNCHANGED <<inputvars, res>>
      /\ point \in Nat \ {0} /\ point' \in Nat \ {0}
  BY DEF ValueChar, ValueEscape, EndParam, StoreParam, NotIn, In, Loops, UriInv, TextType
<1>2. CASE ValueChar
  <2>1. At(res, point) # 0 /\ phase' = "value" /\ point' = point + 1
    BY <1>1, <1>2, NotInMeans DEF ValueChar
  <2> QED
    BY <1>1, <2>1, OneOn, GoesOn
<1>3. CASE EndParam
  <2>1. point' = point + 1 /\ At(res, point) \in {0, Ampersand, Hash}
    BY <1>3 DEF EndParam, StoreParam, In
  <2>2. CASE At(res, point) = 0
    BY <1>1, <1>3, <2>2, Stops DEF EndParam, StoreParam, Hash
  <2>3. CASE At(res, point) = Ampersand
    <3>1. phase' = "name"
      BY <1>3, <2>3 DEF EndParam, StoreParam, Ampersand, Hash
    <3> QED
      BY <1>1, <2>1, <2>3, <3>1, NameBegins
  <2>4. CASE At(res, point) = Hash
    <3>1. phase' = "fragment" /\ At(res, point) # 0
      BY <1>3, <2>4 DEF EndParam, StoreParam, Hash
    <3> QED
      BY <1>1, <2>1, <3>1, OneOn, GoesOn
  <2> QED
    BY <2>1, <2>2, <2>3, <2>4
<1>4. CASE ValueEscape
  <2> DEFINE high == At(res, point + 1)
             low == At(res, point + 2)
  <2>1. /\ point' = point + 3 /\ At(res, point) = Percent
        /\ phase' = IF IsHex(high) /\ IsHex(low) THEN phase ELSE "refused"
    BY <1>4 DEF ValueEscape
  <2>2. point \in 1..Len(res) /\ res[point] = Percent /\ Seen(point + 1)
    BY <1>1, <2>1, OneOn DEF Percent
  <2>3. CASE IsHex(high) /\ IsHex(low)
    <3>1. high # 0 /\ low # 0
      BY <2>3, HexIsNotZero
    <3>2. /\ point + 1 \in 1..Len(res) /\ res[point + 1] # 0
          /\ point + 2 \in 1..Len(res) /\ res[point + 2] # 0
      BY <1>1, <3>1, AtInside DEF UriInv, TextType
    <3>3. Seen(point + 3)
      BY <1>1, <2>2, <3>2 DEF Seen, UriInv, TextType
    <3> QED
      BY <1>1, <2>1, <2>3, <3>3, GoesOn
  <2>4. CASE ~(IsHex(high) /\ IsHex(low))
    <3>1. phase' = "refused" /\ point \in DOMAIN res
      BY <1>1, <2>1, <2>2, <2>4 DEF UriInv, TextType
    <3>2. \A j \in 1..point : res[j] # 0
      BY <1>1, <2>2 DEF Seen
    <3>3. RefusedForCause'
      BY <1>1, <2>2, <2>4, <3>1, <3>2 DEF RefusedForCause
    <3> QED
      BY <1>1, <3>1, <3>3 DEF UriInv, TextType, SrcWalk, ResWalk, Loops, inputvars
  <2> QED
    BY <2>3, <2>4
<1> QED
  BY <1>2, <1>3, <1>4

LEMMA FragmentInv ==
  ASSUME UriInv, FragmentChar \/ EndFragment
  PROVE  UriInv'
<1>1. /\ phase = "fragment" /\ phase \in Loops /\ UNCHANGED <<inputvars, res>>
      /\ point' = point + 1 /\ point' \in Nat \ {0}
  BY DEF FragmentChar, EndFragment, NotIn, In, Loops, UriInv, TextType
<1>2. CASE FragmentChar
  <2>1. At(res, point) # 0 /\ phase' = "fragment"
    BY <1>1, <1>2, NotInMeans DEF FragmentChar
  <2> QED
    BY <1>1, <2>1, OneOn, GoesOn
<1>3. CASE EndFragment
  BY <1>1, <1>3, Stops DEF EndFragment
<1> QED
  BY <1>2, <1>3

LEMMA UriStep == UriInv /\ [UriNext]_urivars => UriInv'
<1> SUFFICES ASSUME UriInv, [UriNext]_urivars PROVE UriInv'
  OBVIOUS
<1>1. CASE UNCHANGED urivars
  BY <1>1 DEF urivars, splitvars, inputvars, UriInv, TextType, SrcWalk, ResWalk, Seen,
              RefusedForCause
<1> QED
  BY <1>1, DecodeInv, PathInv, NameInv, ValueInv, FragmentInv DEF UriNext

LEMMA UriInvariant == UriSpec => []UriInv
BY InitUri, UriStep, PTL DEF UriSpec

(* The walk of HttpDecodeUri ends at the terminator unless an escape is    *)
(* cut off by it.                                                          *)
THEOREM WalkEndsInside == UriSpec => []EndsInside
<1>1. UriInv => EndsInside
  BY DEF UriInv, SrcWalk, EndsInside
<1> QED
  BY <1>1, UriInvariant, PTL

(* Decode refuses a uri only where it has no leading slash, a parameter    *)
(* without "=" or a value with something else than two digits behind "%".  *)
THEOREM RefusedOnlyForCause == UriSpec => []RefusedForCause
<1>1. UriInv => RefusedForCause
  BY DEF UriInv
<1> QED
  BY <1>1, UriInvariant, PTL
-----------------------------------------------------------------------------
(* The values given by the first parameters of a form.                     *)
Key(f, i) == NoCase(f.params[i].name)
GivenTo(f, m) ==
  [k \in {Key(f, i) : i \in 1..m} |-> f.params[Max({i \in 1..m : Key(f, i) = k})].value]

LEMMA NoneGiven == \A f : GivenTo(f, 0) = <<>>
BY DEF GivenTo

LEMMA AllGiven == ASSUME NEW f \in Forms PROVE GivenTo(f, Len(f.params)) = Given(f)
BY FormParts DEF GivenTo, Given, Key

LEMMA NextGiven ==
  ASSUME NEW f \in Forms, NEW i \in 1..Len(f.params)
  PROVE  GivenTo(f, i) =
           [k \in DOMAIN GivenTo(f, i - 1) \cup {Key(f, i)} |->
              IF k = Key(f, i) THEN f.params[i].value ELSE GivenTo(f, i - 1)[k]]
<1> DEFINE new == Key(f, i)
           of(m, k) == {x \in 1..m : Key(f, x) = k}
           keys(m) == {Key(f, x) : x \in 1..m}
<1>1. Len(f.params) \in Nat /\ i \in Nat /\ i >= 1 /\ i - 1 \in Nat
  BY FormParts
<1>2. keys(i) = keys(i - 1) \cup {new}
  <2>1. 1..i = (1..(i - 1)) \cup {i}
    BY <1>1
  <2> QED
    BY <2>1
<1>3. Max(of(i, new)) = i
  <2>1. i \in of(i, new) /\ \A y \in of(i, new) : y \in Int /\ i >= y
    BY <1>1
  <2>2. \A x \in of(i, new) : (\A y \in of(i, new) : x >= y) => x = i
    BY <1>1, <2>1
  <2> HIDE DEF of
  <2> QED
    BY <2>1, <2>2 DEF Max
<1>4. ASSUME NEW k, k # new PROVE of(i, k) = of(i - 1, k)
  BY <1>1, <1>4
<1>5. DOMAIN GivenTo(f, i - 1) = keys(i - 1)
  BY DEF GivenTo
<1>6. ASSUME NEW k \in keys(i - 1) PROVE GivenTo(f, i - 1)[k] = f.params[Max(of(i - 1, k))].value
  BY <1>6 DEF GivenTo
<1>7. GivenTo(f, i) = [k \in keys(i) |-> f.params[Max(of(i, k))].value]
  BY DEF GivenTo
<1> HIDE DEF keys, of, new
<1>8. ASSUME NEW k \in keys(i)
      PROVE  f.params[Max(of(i, k))].value
               = IF k = new THEN f.params[i].value ELSE GivenTo(f, i - 1)[k]
  <2>1. CASE k = new
    BY <1>3, <2>1
  <2>2. CASE k # new
    <3>1. k \in keys(i - 1) /\ of(i, k) = of(i - 1, k)
      BY <1>2, <1>4, <2>2
    <3> QED
      BY <1>6, <2>2, <3>1
  <2> QED
    BY <2>1, <2>2
<1>9. GivenTo(f, i) = [k \in keys(i - 1) \cup {new} |->
                         IF k = new THEN f.params[i].value ELSE GivenTo(f, i - 1)[k]]
  BY <1>2, <1>7, <1>8
<1> QED
  BY <1>5, <1>9 DEF new
-----------------------------------------------------------------------------
LEMMA NoTerminator == \A c \in Char : c # 0
BY DEF Char

(* What each loop reads. *)
LEMMA ReadInUri ==
  ASSUME NEW f \in Forms, NEW k \in 0..Len(Text(f))
  PROVE  LET t == Text(f)
             p == QuoteSize(t, {Percent}, k) + 1
             n == QuoteSize(t, {Percent}, k + 1) + 1
             s == Encode(f)
         IN  /\ k < Len(t) /\ t[k + 1] = Percent =>
                  /\ At(s, p) = Percent /\ n = p + 3 /\ n <= Len(s) + 1
                  /\ IsHex(At(s, p + 1)) /\ IsHex(At(s, p + 2))
                  /\ Byte(At(s, p + 1), At(s, p + 2)) = t[k + 1]
             /\ k < Len(t) /\ t[k + 1] # Percent =>
                  /\ At(s, p) = t[k + 1] /\ s[p] = t[k + 1]
                  /\ At(s, p) \notin {0, Percent} /\ n = p + 1
             /\ k = Len(t) => At(s, p) = 0
<1> DEFINE t == Text(f)
           q == QuoteSize(t, {Percent}, k)
           m == QuoteSize(t, {Percent}, k + 1)
           s == Encode(f)
<1>1. t \in Seq(Char)
  BY TextParts
<1>2. Len(t) \in Nat /\ k \in Nat /\ k <= Len(t)
  BY <1>1, LenProperties
<1>3. s = Quote(t, {Percent})
  BY DEF Encode
<1>4. Len(s) \in Nat /\ QuoteSize(t, {Percent}, Len(t)) = Len(s)
  <2> HIDE DEF t
  <2> QED
    BY <1>1, <1>3, QuoteType
<1>5. CASE k = Len(t)
  <2>1. q + 1 > Len(s) /\ At(s, q + 1) = 0
    BY <1>4, <1>5 DEF At
  <2> QED
    BY <1>2, <1>5, <2>1
<1>6. CASE k < Len(t)
  <2>1. k + 1 \in 1..Len(t) /\ (k + 1) - 1 = k
    BY <1>2, <1>6
  <2>2. /\ q \in Nat /\ m <= Len(s) /\ t[k + 1] \in Char
        /\ t[k + 1] \in {Percent} =>
             /\ m = q + 3 /\ s[q + 1] = Percent
             /\ s[q + 2] = Digit(t[k + 1] \div 16) /\ s[q + 3] = Digit(t[k + 1] % 16)
        /\ t[k + 1] \notin {Percent} => m = q + 1 /\ s[q + 1] = t[k + 1]
    <3> DEFINE i == k + 1
    <3>1. i \in 1..Len(t) /\ i - 1 = k /\ q = QuoteSize(t, {Percent}, i - 1)
      BY <2>1
    <3>2. m = QuoteSize(t, {Percent}, i)
      OBVIOUS
    <3> HIDE DEF t, i, q, m, s
    <3>3. /\ q \in Nat /\ m <= Len(s) /\ t[i] \in Char
          /\ t[i] \in {Percent} =>
               /\ m = q + 3 /\ s[q + 1] = Percent
               /\ s[q + 2] = Digit(t[i] \div 16) /\ s[q + 3] = Digit(t[i] % 16)
          /\ t[i] \notin {Percent} => m = q + 1 /\ s[q + 1] = t[i]
      BY <1>1, <1>3, <3>1, <3>2, QuoteAt
    <3> QED
      BY <3>3 DEF i
  <2> HIDE DEF t, q, m, s
  <2>3. CASE t[k + 1] = Percent
    <3>1. /\ IsHex(Digit(t[k + 1] \div 16)) /\ IsHex(Digit(t[k + 1] % 16))
          /\ Byte(Digit(t[k + 1] \div 16), Digit(t[k + 1] % 16)) = t[k + 1]
      BY <2>2, DigitsRead
    <3>2. /\ m = q + 3 /\ m + 1 <= Len(s) + 1 /\ m + 1 = (q + 1) + 3
          /\ q + 1 <= Len(s) /\ (q + 1) + 1 <= Len(s) /\ (q + 1) + 2 <= Len(s)
          /\ (q + 1) + 1 = q + 2 /\ (q + 1) + 2 = q + 3
      BY <1>4, <2>2, <2>3
    <3>3. At(s, q + 1) = Percent /\ At(s, (q + 1) + 1) = Digit(t[k + 1] \div 16)
          /\ At(s, (q + 1) + 2) = Digit(t[k + 1] % 16)
      BY <2>2, <2>3, <3>2 DEF At
    <3> QED
      BY <2>3, <3>1, <3>2, <3>3, <1>6 DEF t, q, m, s
  <2>4. CASE t[k + 1] # Percent
    <3>1. m = q + 1 /\ s[q + 1] = t[k + 1] /\ m + 1 = (q + 1) + 1 /\ q + 1 <= Len(s)
      BY <1>4, <2>2, <2>4
    <3>2. At(s, q + 1) = t[k + 1]
      BY <3>1 DEF At
    <3>3. t[k + 1] \in Char
      BY <2>2
    <3>4. t[k + 1] # 0
      BY <3>3, NoTerminator
    <3> QED
      BY <2>4, <3>1, <3>2, <3>4, <1>6 DEF t, q, m, s
  <2> QED
    BY <2>3, <2>4
<1> QED
  BY <1>2, <1>5, <1>6

(* Where the loops of Decode stand in the text of a form: behind the first *)
(* characters of a segment, a name, a value or the fragment.               *)
Name(f, i) == f.params[i].name
Value(f, i) == f.params[i].value
PathAt(f, i, j) == PathSize(f, i - 1) + 2 + j
NameAt(f, i, j) == PathEnd(f) + ParamSize(f, i - 1) + 2 + j
ValueAt(f, i, k) == NameAt(f, i, Len(Name(f, i))) + QuoteSize(Value(f, i), Marks, k) + 1
FragmentAt(f, j) == ParamsEnd(f) + 2 + j

LEMMA ReadInPath ==
  ASSUME NEW f \in Forms, NEW i \in 1..Len(f.path), NEW j \in 0..Len(f.path[i])
  PROVE  LET t == Text(f)
             s == f.path[i]
             p == PathAt(f, i, j)
         IN  /\ Len(s) \in Nat
             /\ j < Len(s) =>
                  /\ At(t, p) = s[j + 1] /\ At(t, p) \in Char \ {Slash, Question}
                  /\ t[p] = s[j + 1] /\ p + 1 = PathAt(f, i, j + 1)
             /\ j = Len(s) /\ i < Len(f.path) =>
                  At(t, p) = Slash /\ p + 1 = PathAt(f, i + 1, 0)
             /\ j = Len(s) /\ i = Len(f.path) /\ Len(f.params) # 0 =>
                  At(t, p) = Question /\ p + 1 = NameAt(f, 1, 0)
             /\ j = Len(s) /\ i = Len(f.path) /\ Len(f.params) = 0 => At(t, p) = 0
<1> DEFINE t == Text(f)
           s == f.path[i]
           o == PathSize(f, i - 1)
           n == PathSize(f, i)
           p == PathAt(f, i, j)
<1>0. p = o + 2 + j
  BY DEF PathAt
<1> HIDE DEF p
<1>1. /\ o \in Nat /\ Len(s) \in Nat /\ n = o + 1 + Len(s)
      /\ n <= PathEnd(f) /\ n <= Len(t)
      /\ \A x \in 1..Len(s) : t[o + 1 + x] = s[x]
  BY SegmentAt
<1>2. /\ PathSize(f, 0) = 0 /\ ParamSize(f, 0) = 0 /\ PathEnd(f) = PathSize(f, Len(f.path))
      /\ ParamsEnd(f) = PathEnd(f) + ParamSize(f, Len(f.params))
      /\ PathEnd(f) \in Nat /\ ParamsEnd(f) \in Nat /\ Len(t) \in Nat
      /\ f.fragment = <<>> => Len(t) = ParamsEnd(f)
  BY TextEnds
<1>3. /\ Len(f.path) \in Nat /\ Len(f.params) \in Nat /\ s \in Seq(Char \ {Slash, Question})
      /\ Len(f.params) = 0 => f.fragment = <<>>
  BY FormParts
<1>4. CASE j < Len(s)
  <2> HIDE DEF t, s, o, n
  <2>1. j + 1 \in 1..Len(s) /\ o + 1 + (j + 1) = p /\ p <= Len(t)
    BY <1>0, <1>1, <1>2, <1>4
  <2>2. s[j + 1] \in Char \ {Slash, Question}
    BY <1>3, <2>1, ElementOfSeq
  <2>3. t[p] = s[j + 1]
    BY <1>1, <2>1
  <2>4. At(t, p) = s[j + 1]
    BY <2>1, <2>3 DEF At
  <2>5. p + 1 = PathAt(f, i, j + 1)
    BY <1>0, <1>1 DEF PathAt, o
  <2> QED
    BY <1>1, <1>4, <2>2, <2>3, <2>4, <2>5 DEF t, s, p
<1>5. CASE j = Len(s)
  <2>1. p = n + 1
    <3> HIDE DEF o, n, s
    <3> QED
      BY <1>0, <1>1, <1>5
  <2>2. CASE i < Len(f.path)
    <3> DEFINE g == i + 1
    <3>1. g \in 1..Len(f.path) /\ g - 1 = i
      BY <1>3, <2>2
    <3> HIDE DEF g
    <3>2. /\ PathSize(f, g - 1) \in Nat /\ Len(f.path[g]) \in Nat
          /\ PathSize(f, g) = PathSize(f, g - 1) + 1 + Len(f.path[g])
          /\ PathSize(f, g) <= Len(t)
          /\ t[PathSize(f, g - 1) + 1] = Slash
      BY <3>1, SegmentAt
    <3>3. n = PathSize(f, g - 1)
      BY <3>1
    <3> HIDE DEF n, t, s, o
    <3>4. n + 1 <= Len(t) /\ t[n + 1] = Slash
      BY <1>2, <3>2, <3>3
    <3>5. At(t, n + 1) = Slash
      BY <3>4 DEF At
    <3>6. p + 1 = PathAt(f, g, 0)
      BY <2>1, <3>2, <3>3 DEF PathAt
    <3>7. At(t, p) = Slash
      BY <2>1, <3>5
    <3> QED
      BY <1>1, <1>5, <2>2, <3>6, <3>7 DEF g, t, s, p
  <2>3. CASE i = Len(f.path)
    <3>1. n = PathEnd(f)
      BY <1>2, <2>3
    <3>2. CASE Len(f.params) # 0
      <4> DEFINE g == 1
      <4>1. g \in 1..Len(f.params) /\ g - 1 = 0
        BY <1>3, <3>2
      <4> HIDE DEF g
      <4> DEFINE b == PathEnd(f) + ParamSize(f, g - 1)
                 m == PathEnd(f) + ParamSize(f, g)
                 ln == Len(f.params[g].name)
                 lt == Len(Quote(f.params[g].value, Marks))
      <4>2. /\ b \in Nat /\ m = b + 2 + ln + lt /\ ln \in Nat /\ lt \in Nat
            /\ m <= Len(t) /\ t[b + 1] = Mark(g)
        BY <4>1, ParamAt
      <4>3. ParamSize(f, g - 1) = 0
        BY <1>2, <4>1
      <4>4. b = n
        BY <1>2, <3>1, <4>3
      <4> HIDE DEF b, m, ln, lt, t, n, s, o
      <4>5. n + 1 <= Len(t) /\ n + 2 = (n + 1) + 1
        BY <1>2, <4>2, <4>4
      <4>6. Mark(g) = Question
        BY DEF Mark, g
      <4>7. At(t, n + 1) = Question
        BY <4>2, <4>4, <4>5, <4>6 DEF At
      <4>8. p + 1 = NameAt(f, 1, 0)
        <5>1. NameAt(f, 1, 0) = n + 2
          BY <1>2, <3>1 DEF NameAt
        <5> QED
          BY <2>1, <4>5, <5>1
      <4>9. At(t, p) = Question
        BY <2>1, <4>7
      <4> QED
        BY <1>1, <1>5, <2>3, <3>2, <4>8, <4>9 DEF t, s, p
    <3>3. CASE Len(f.params) = 0
      <4>1. Len(t) = n
        BY <1>2, <1>3, <3>1, <3>3
      <4> HIDE DEF t, n, s, o
      <4>2. ~(n + 1 <= Len(t))
        BY <1>2, <4>1
      <4>3. At(t, n + 1) = 0
        BY <4>2 DEF At
      <4> QED
        <5>1. At(t, p) = 0
          BY <2>1, <4>3
        <5> QED
          BY <1>1, <1>5, <2>3, <3>3, <5>1 DEF t, s, p
    <3> QED
      BY <3>2, <3>3
  <2> QED
    BY <1>3, <2>2, <2>3
<1> HIDE DEF t, s, o, n
<1>6. j < Len(s) \/ j = Len(s)
  BY <1>1 DEF s
<1> QED
  BY <1>4, <1>5, <1>6 DEF t, s, p

LEMMA ReadInName ==
  ASSUME NEW f \in Forms, NEW i \in 1..Len(f.params), NEW j \in 0..Len(Name(f, i))
  PROVE  LET t == Text(f)
             s == Name(f, i)
             p == NameAt(f, i, j)
         IN  /\ Len(s) \in Nat
             /\ j < Len(s) =>
                  /\ At(t, p) = s[j + 1] /\ At(t, p) \in Char \ {Equals}
                  /\ t[p] = s[j + 1] /\ p + 1 = NameAt(f, i, j + 1)
             /\ j = Len(s) => At(t, p) = Equals /\ p + 1 = ValueAt(f, i, 0)
<1> DEFINE t == Text(f)
           s == Name(f, i)
           v == f.params[i].value
           text == Quote(v, Marks)
           o == PathEnd(f) + ParamSize(f, i - 1)
           n == PathEnd(f) + ParamSize(f, i)
           p == NameAt(f, i, j)
           ls == Len(s)
           lt == Len(text)
           ll == Len(t)
<1>1. p = o + 2 + j
  BY DEF NameAt
<1>2. /\ o \in Nat /\ n = o + 2 + ls + lt /\ ls \in Nat /\ lt \in Nat
      /\ n <= ll
      /\ \A x \in 1..ls : t[o + 1 + x] = s[x]
      /\ t[o + 2 + ls] = Equals
  BY ParamAt DEF Name
<1>3. ll \in Nat
  BY TextEnds
<1>4. s \in Seq(Char \ {Equals}) /\ v \in Seq(Char)
  BY FormParts DEF Name
<1>5. QuoteSize(v, Marks, 0) = 0
  <2> HIDE DEF v
  <2> QED
    BY <1>4, QuoteType
<1>6. j \in 0..ls
  OBVIOUS
<1>7. /\ p + 1 = NameAt(f, i, j + 1)
      /\ j = ls => p + 1 = ValueAt(f, i, 0)
  <2>1. NameAt(f, i, j + 1) = o + 2 + (j + 1)
    BY DEF NameAt
  <2>2. ValueAt(f, i, 0) = o + 2 + ls + QuoteSize(v, Marks, 0) + 1
    BY DEF NameAt, ValueAt, Value
  <2> HIDE DEF o, p, ls, v
  <2>3. o \in Nat /\ ls \in Nat /\ j \in Nat
    BY <1>2, <1>6
  <2>4. p + 1 = NameAt(f, i, j + 1)
    BY ONLY <1>1, <2>1, <2>3
  <2>5. ASSUME j = ls PROVE p + 1 = ValueAt(f, i, 0)
    BY <1>1, <1>5, <2>2, <2>3, <2>5
  <2> QED
    BY <2>4, <2>5
<1> HIDE DEF t, s, v, text, o, n, p, ls, lt, ll
<1>8. ASSUME j < ls
      PROVE  At(t, p) = s[j + 1] /\ At(t, p) \in Char \ {Equals} /\ t[p] = s[j + 1]
  <2>1. j + 1 \in 1..ls /\ o + 1 + (j + 1) = p /\ p <= ll
    BY <1>1, <1>2, <1>3, <1>6, <1>8
  <2>2. s[j + 1] \in Char \ {Equals}
    BY <1>4, <2>1, ElementOfSeq DEF ls
  <2>3. t[p] = s[j + 1]
    BY <1>2, <2>1
  <2>4. At(t, p) = s[j + 1]
    BY <2>1, <2>3 DEF At, ll
  <2> QED
    BY <2>2, <2>3, <2>4
<1>9. ASSUME j = ls PROVE At(t, p) = Equals
  <2>1. p = o + 2 + ls /\ p <= ll
    BY <1>1, <1>2, <1>3, <1>9
  <2> QED
    BY <1>2, <2>1 DEF At, ll
<1> QED
  BY <1>2, <1>7, <1>8, <1>9 DEF t, s, p, ls

LEMMA ReadInValue ==
  ASSUME NEW f \in Forms, NEW i \in 1..Len(f.params), NEW k \in 0..Len(Value(f, i))
  PROVE  LET t == Text(f)
             v == Value(f, i)
             p == ValueAt(f, i, k)
             n == ValueAt(f, i, k + 1)
         IN  /\ Len(v) \in Nat
             /\ k < Len(v) /\ v[k + 1] \in Marks =>
                  /\ At(t, p) = Percent /\ n = p + 3
                  /\ IsHex(At(t, p + 1)) /\ IsHex(At(t, p + 2))
                  /\ Byte(At(t, p + 1), At(t, p + 2)) = v[k + 1]
             /\ k < Len(v) /\ v[k + 1] \notin Marks =>
                  /\ At(t, p) = v[k + 1] /\ t[p] = v[k + 1]
                  /\ At(t, p) \in Char \ Marks /\ n = p + 1
             /\ k = Len(v) /\ i < Len(f.params) =>
                  At(t, p) = Ampersand /\ p + 1 = NameAt(f, i + 1, 0)
             /\ k = Len(v) /\ i = Len(f.params) /\ f.fragment # <<>> =>
                  At(t, p) = Hash /\ p + 1 = FragmentAt(f, 0)
             /\ k = Len(v) /\ i = Len(f.params) /\ f.fragment = <<>> => At(t, p) = 0
<1> DEFINE t == Text(f)
           v == Value(f, i)
           text == Quote(v, Marks)
           o == PathEnd(f) + ParamSize(f, i - 1)
           b == o + 2 + Len(f.params[i].name)
           e == PathEnd(f) + ParamSize(f, i)
           q == QuoteSize(v, Marks, k)
           p == ValueAt(f, i, k)
           n == ValueAt(f, i, k + 1)
<1>0. p = b + q + 1 /\ n = b + QuoteSize(v, Marks, k + 1) + 1
  BY DEF ValueAt, NameAt, Name
<1> HIDE DEF p, n
<1>1. /\ b \in Nat /\ e = b + Len(text) /\ Len(text) \in Nat /\ e \in Nat
      /\ e <= Len(t)
      /\ \A x \in 1..Len(text) : t[b + x] = text[x]
  <2> DEFINE ln == Len(f.params[i].name)
  <2>1. /\ o \in Nat /\ e = o + 2 + ln + Len(text) /\ ln \in Nat /\ Len(text) \in Nat
        /\ e <= Len(t)
        /\ \A x \in 1..Len(text) : t[o + 2 + ln + x] = text[x]
    BY ParamAt DEF Value
  <2> HIDE DEF t, text, o, e, ln
  <2>2. b = o + 2 + ln
    BY DEF ln
  <2> HIDE DEF b
  <2> QED
    BY <2>1, <2>2
<1>2. Len(t) \in Nat /\ v \in Seq(Char) /\ Len(v) \in Nat
  BY TextEnds, FormParts, LenProperties DEF Value
<1>3. QuoteSize(v, Marks, Len(v)) = Len(text)
  BY <1>2, QuoteType
<1>4. CASE k < Len(v)
  <2> DEFINE g == k + 1
  <2>1. g \in 1..Len(v) /\ g - 1 = k
    BY <1>2, <1>4
  <2>2. q = QuoteSize(v, Marks, g - 1) /\ n = b + QuoteSize(v, Marks, g) + 1
    BY <1>0, <2>1
  <2> HIDE DEF g, t, v, text, b, q
  <2> DEFINE m == QuoteSize(v, Marks, g)
  <2>3. /\ q \in Nat /\ m <= Len(text) /\ v[g] \in Char
        /\ v[g] \in Marks =>
             /\ m = q + 3 /\ text[q + 1] = Percent
             /\ text[q + 2] = Digit(v[g] \div 16) /\ text[q + 3] = Digit(v[g] % 16)
        /\ v[g] \notin Marks => m = q + 1 /\ text[q + 1] = v[g]
    BY <1>2, <2>1, <2>2, QuoteAt DEF text
  <2> HIDE DEF m
  <2>4. CASE v[g] \in Marks
    <3>1. /\ IsHex(Digit(v[g] \div 16)) /\ IsHex(Digit(v[g] % 16))
          /\ Byte(Digit(v[g] \div 16), Digit(v[g] % 16)) = v[g]
      BY <2>3, DigitsRead
    <3>2. /\ q + 1 \in 1..Len(text) /\ q + 2 \in 1..Len(text) /\ q + 3 \in 1..Len(text)
          /\ p = b + (q + 1) /\ p + 1 = b + (q + 2) /\ p + 2 = b + (q + 3)
          /\ p + 3 = b + m + 1
          /\ p <= Len(t) /\ p + 1 <= Len(t) /\ p + 2 <= Len(t)
      <4> DEFINE lt == Len(text)
                 ll == Len(t)
      <4>1. /\ b \in Nat /\ e = b + lt /\ lt \in Nat /\ e <= ll /\ ll \in Nat
            /\ q \in Nat /\ m = q + 3 /\ m <= lt
            /\ p = b + q + 1
        BY <1>0, <1>1, <1>2, <2>3, <2>4
      <4> HIDE DEF lt, ll, e
      <4>2. /\ q + 1 \in 1..lt /\ q + 2 \in 1..lt /\ q + 3 \in 1..lt
            /\ p = b + (q + 1) /\ p + 1 = b + (q + 2) /\ p + 2 = b + (q + 3)
            /\ p + 3 = b + m + 1
            /\ p <= ll /\ p + 1 <= ll /\ p + 2 <= ll
        BY <4>1
      <4> QED
        BY <4>2 DEF lt, ll
    <3>3. /\ t[p] = Percent /\ t[p + 1] = Digit(v[g] \div 16) /\ t[p + 2] = Digit(v[g] % 16)
      BY <1>1, <2>3, <2>4, <3>2
    <3>4. /\ At(t, p) = Percent /\ At(t, p + 1) = Digit(v[g] \div 16)
          /\ At(t, p + 2) = Digit(v[g] % 16)
      BY <3>2, <3>3 DEF At
    <3>5. n = p + 3
      BY <2>2, <3>2 DEF m
    <3>6. v[k + 1] = v[g]
      BY DEF g
    <3> QED
      BY <1>2, <1>4, <2>4, <3>1, <3>4, <3>5, <3>6 DEF t, v, n, p
  <2>5. CASE v[g] \notin Marks
    <3>1. q + 1 \in 1..Len(text) /\ p = b + (q + 1) /\ p + 1 = b + m + 1 /\ p <= Len(t)
      <4> DEFINE lt == Len(text)
                 ll == Len(t)
      <4>1. /\ b \in Nat /\ e = b + lt /\ lt \in Nat /\ e <= ll /\ ll \in Nat
            /\ q \in Nat /\ m = q + 1 /\ m <= lt
            /\ p = b + q + 1
        BY <1>0, <1>1, <1>2, <2>3, <2>5
      <4> HIDE DEF lt, ll, e
      <4>2. q + 1 \in 1..lt /\ p = b + (q + 1) /\ p + 1 = b + m + 1 /\ p <= ll
        BY <4>1
      <4> QED
        BY <4>2 DEF lt, ll
    <3>2. t[p] = v[g]
      BY <1>1, <2>3, <2>5, <3>1
    <3>3. At(t, p) = v[g]
      BY <3>1, <3>2 DEF At
    <3>4. n = p + 1
      BY <2>2, <3>1 DEF m
    <3>5. v[k + 1] = v[g] /\ v[g] \in Char \ Marks
      BY <2>3, <2>5 DEF g
    <3> QED
      BY <1>2, <1>4, <2>5, <3>2, <3>3, <3>4, <3>5 DEF t, v, n, p
  <2> QED
    BY <2>4, <2>5
<1>5. CASE k = Len(v)
  <2>1. p = e + 1
    <3>1. q = Len(text)
      BY <1>3, <1>5
    <3> HIDE DEF q, b, e, text
    <3> QED
      BY <1>0, <1>1, <3>1
  <2>2. CASE i < Len(f.params)
    <3> DEFINE g == i + 1
    <3>1. g \in 1..Len(f.params) /\ g - 1 = i /\ g # 1
      BY <2>2, FormParts
    <3> HIDE DEF g
    <3> DEFINE b2 == PathEnd(f) + ParamSize(f, g - 1)
               m2 == PathEnd(f) + ParamSize(f, g)
               ln == Len(f.params[g].name)
               lt == Len(Quote(f.params[g].value, Marks))
    <3>2. /\ b2 \in Nat /\ m2 = b2 + 2 + ln + lt /\ ln \in Nat /\ lt \in Nat
          /\ m2 <= Len(t) /\ t[b2 + 1] = Mark(g)
      BY <3>1, ParamAt
    <3>3. b2 = e
      BY <3>1
    <3> HIDE DEF b2, m2, ln, lt, e, t, v, b, q
    <3>4. e + 1 <= Len(t) /\ (e + 1) + 1 = e + 2
      BY <1>1, <1>2, <3>2, <3>3
    <3>5. Mark(g) = Ampersand
      BY <3>1 DEF Mark
    <3>6. At(t, e + 1) = Ampersand
      BY <3>2, <3>3, <3>4, <3>5 DEF At
    <3>7. At(t, p) = Ampersand
      BY <2>1, <3>6
    <3>8. p + 1 = NameAt(f, i + 1, 0)
      <4>1. NameAt(f, g, 0) = e + 2
        BY <1>1, <3>3 DEF NameAt, b2
      <4> QED
        BY <2>1, <3>4, <4>1 DEF g
    <3> QED
      BY <1>2, <1>5, <2>2, <3>7, <3>8 DEF t, v, p
  <2>3. CASE i = Len(f.params)
    <3>1. e = ParamsEnd(f)
      BY <2>3, TextEnds
    <3>2. CASE f.fragment # <<>>
      <4>1. /\ Len(t) = e + 1 + Len(f.fragment) /\ t[e + 1] = Hash /\ Len(f.fragment) \in Nat
        BY <3>1, <3>2, TextEnds
      <4> HIDE DEF e, t, v, b, q
      <4>2. e + 1 <= Len(t) /\ (e + 1) + 1 = e + 2
        <5> DEFINE ls == Len(f.fragment)
                   ll == Len(t)
        <5>1. e \in Nat /\ ls \in Nat /\ ll = e + 1 + ls
          BY <1>1, <4>1
        <5> HIDE DEF ls, ll
        <5>2. e + 1 <= ll /\ (e + 1) + 1 = e + 2
          BY <5>1
        <5> QED
          BY <5>2 DEF ll
      <4>3. At(t, e + 1) = Hash
        BY <4>1, <4>2 DEF At
      <4>4. At(t, p) = Hash
        BY <2>1, <4>3
      <4>5. p + 1 = FragmentAt(f, 0)
        <5>1. FragmentAt(f, 0) = e + 2
          BY <1>1, <3>1 DEF FragmentAt
        <5> QED
          BY <2>1, <4>2, <5>1
      <4> QED
        BY <1>2, <1>5, <2>3, <3>2, <4>4, <4>5 DEF t, v, p
    <3>3. CASE f.fragment = <<>>
      <4>1. Len(t) = e
        BY <3>1, <3>3, TextEnds
      <4> HIDE DEF e, t, v, b, q
      <4>2. ~(e + 1 <= Len(t))
        BY <1>1, <4>1
      <4>3. At(t, e + 1) = 0
        BY <4>2 DEF At
      <4>4. At(t, p) = 0
        BY <2>1, <4>3
      <4> QED
        BY <1>2, <1>5, <2>3, <3>3, <4>4 DEF t, v, p
    <3> QED
      BY <3>2, <3>3
  <2>4. i < Len(f.params) \/ i = Len(f.params)
    BY FormParts
  <2> QED
    BY <2>2, <2>3, <2>4
<1> HIDE DEF t, v
<1>6. k < Len(v) \/ k = Len(v)
  BY <1>2 DEF v
<1> QED
  BY <1>4, <1>5, <1>6

LEMMA ReadInFragment ==
  ASSUME NEW f \in Forms, NEW j \in 0..Len(f.fragment), f.fragment # <<>>
  PROVE  LET t == Text(f)
             p == FragmentAt(f, j)
         IN  /\ Len(f.fragment) \in Nat
             /\ j < Len(f.fragment) =>
                  /\ At(t, p) = f.fragment[j + 1] /\ At(t, p) \in Char
                  /\ t[p] = f.fragment[j + 1] /\ p + 1 = FragmentAt(f, j + 1)
             /\ j = Len(f.fragment) => At(t, p) = 0
<1> DEFINE t == Text(f)
           s == f.fragment
           e == ParamsEnd(f)
           p == FragmentAt(f, j)
<1>0. p = e + 2 + j
  BY DEF FragmentAt
<1>1. /\ e \in Nat /\ Len(s) \in Nat /\ Len(t) = e + 1 + Len(s)
      /\ \A x \in 1..Len(s) : t[e + 1 + x] = s[x]
  BY TextEnds
<1>2. s \in Seq(Char)
  BY FormParts
<1>6. p + 1 = FragmentAt(f, j + 1)
  BY <1>0, <1>1 DEF FragmentAt
<1> HIDE DEF t, s, p, p
<1>3. CASE j < Len(s)
  <2>1. j + 1 \in 1..Len(s) /\ e + 1 + (j + 1) = p /\ p <= Len(t)
    BY <1>0, <1>1, <1>3
  <2>2. s[j + 1] \in Char
    BY <1>2, <2>1, ElementOfSeq
  <2>3. t[p] = s[j + 1]
    BY <1>1, <2>1
  <2>4. At(t, p) = s[j + 1]
    BY <2>1, <2>3 DEF At
  <2> QED
    BY <1>1, <1>3, <1>6, <2>2, <2>3, <2>4 DEF t, s, p
<1>4. CASE j = Len(s)
  <2>1. ~(p <= Len(t))
    BY <1>0, <1>1, <1>4
  <2>2. At(t, p) = 0
    BY <2>1 DEF At
  <2> QED
    BY <1>1, <1>4, <2>2 DEF t, s, p
<1>5. j < Len(s) \/ j = Len(s)
  BY <1>1 DEF s
<1> QED
  BY <1>3, <1>4, <1>5 DEF t, s, p
-----------------------------------------------------------------------------
(* How far the form is read.  Each loop stands behind what it has of the   *)
(* part it reads, and everything before is stored as the form means it.    *)
InUri(f) ==
  \E k \in 0..Len(Text(f)) :
    /\ res = SubSeq(Text(f), 1, k)
    /\ point = QuoteSize(Text(f), {Percent}, k) + 1
    /\ temp = <<>> /\ value = <<>> /\ path = <<>> /\ params = <<>> /\ fragment = <<>>

InPath(f) ==
  \E i \in 1..Len(f.path) : \E j \in 0..Len(f.path[i]) :
    /\ res = Text(f)
    /\ point = PathAt(f, i, j)
    /\ temp = SubSeq(f.path[i], 1, j)
    /\ path = SubSeq(f.path, 1, i - 1)
    /\ value = <<>> /\ params = <<>> /\ fragment = <<>>

InName(f) ==
  \E i \in 1..Len(f.params) : \E j \in 0..Len(Name(f, i)) :
    /\ res = Text(f)
    /\ point = NameAt(f, i, j)
    /\ temp = SubSeq(Name(f, i), 1, j)
    /\ path = f.path /\ params = GivenTo(f, i - 1)
    /\ value = <<>> /\ fragment = <<>>

InValue(f) ==
  \E i \in 1..Len(f.params) : \E k \in 0..Len(Value(f, i)) :
    /\ res = Text(f)
    /\ point = ValueAt(f, i, k)
    /\ temp = Name(f, i)
    /\ value = SubSeq(Value(f, i), 1, k)
    /\ path = f.path /\ params = GivenTo(f, i - 1)
    /\ fragment = <<>>

InFragment(f) ==
  \E j \in 0..Len(f.fragment) :
    /\ res = Text(f) /\ f.fragment # <<>>
    /\ point = FragmentAt(f, j)
    /\ path = f.path /\ params = Given(f)
    /\ fragment = SubSeq(f.fragment, 1, j)

FormRest(f) == path = f.path /\ params = Given(f) /\ fragment = f.fragment

FormInv ==
  form # NoForm =>
    /\ form \in Forms /\ src = Encode(form)
    /\ \/ phase = "uri" /\ InUri(form)
       \/ phase = "path" /\ InPath(form)
       \/ phase = "name" /\ InName(form)
       \/ phase = "value" /\ InValue(form)
       \/ phase = "fragment" /\ InFragment(form)
       \/ phase = "accepted" /\ FormRest(form)

LEMMA InitForm == UriInit => FormInv
<1> SUFFICES ASSUME UriInit, form # NoForm PROVE FormInv
  BY DEF FormInv
<1>1. form \in Forms /\ src = Encode(form) /\ phase = "uri" /\ res = <<>> /\ point = 1
  BY DEF UriInit
<1>2. Text(form) \in Seq(Char)
  BY <1>1, TextParts
<1>3. Len(Text(form)) \in Nat /\ SubSeq(Text(form), 1, 0) = <<>>
  BY <1>2, FirstOnes
<1>4. QuoteSize(Text(form), {Percent}, 0) = 0
  BY <1>2, QuoteType
<1>5. /\ 0 \in 0..Len(Text(form)) /\ res = SubSeq(Text(form), 1, 0)
      /\ point = QuoteSize(Text(form), {Percent}, 0) + 1
  BY <1>1, <1>3, <1>4
<1>6. temp = <<>> /\ value = <<>> /\ path = <<>> /\ params = <<>> /\ fragment = <<>>
  BY DEF UriInit
<1>7. InUri(form)
  BY <1>5, <1>6 DEF InUri
<1> QED
  BY <1>1, <1>7 DEF FormInv

(* HttpDecodeUri gives the text of the form. *)
LEMMA UriForm ==
  ASSUME FormInv, form # NoForm, CopyChar \/ DecodeEscape \/ StartSplit
  PROVE  FormInv'
<1> DEFINE f == form
           t == Text(f)
           q(x) == QuoteSize(t, {Percent}, x) + 1
<1>1. phase = "uri" /\ form' = form /\ src' = src
  BY DEF CopyChar, DecodeEscape, EscapeTo, StartSplit, inputvars
<1>2. f \in Forms /\ src = Encode(f)
  BY DEF FormInv
<1>3. InUri(f)
  BY <1>1 DEF FormInv
<1>4. PICK k \in 0..Len(t) :
        /\ res = SubSeq(t, 1, k) /\ point = q(k)
        /\ temp = <<>> /\ value = <<>> /\ path = <<>> /\ params = <<>> /\ fragment = <<>>
  BY <1>3 DEF InUri
<1>5. t \in Seq(Char)
  BY <1>2, TextParts
<1>6. /\ Len(t) \in Nat /\ SubSeq(t, 1, Len(t)) = t
      /\ \A x \in 0..(Len(t) - 1) :
           t[x + 1] \in Char /\ Append(SubSeq(t, 1, x), t[x + 1]) = SubSeq(t, 1, x + 1)
  <2> HIDE DEF t
  <2> QED
    BY <1>5, FirstOnes
<1>7. /\ k < Len(t) /\ t[k + 1] = Percent =>
           /\ At(src, point) = Percent /\ q(k + 1) = point + 3 /\ q(k + 1) <= Len(src) + 1
           /\ IsHex(At(src, point + 1)) /\ IsHex(At(src, point + 2))
           /\ Byte(At(src, point + 1), At(src, point + 2)) = t[k + 1]
      /\ k < Len(t) /\ t[k + 1] # Percent =>
           /\ At(src, point) = t[k + 1] /\ src[point] = t[k + 1]
           /\ At(src, point) \notin {0, Percent} /\ q(k + 1) = point + 1
      /\ k = Len(t) => At(src, point) = 0
  BY <1>2, <1>4, ReadInUri
<1>8. ASSUME k < Len(t), res' = Append(res, t[k + 1]), point' = q(k + 1),
             UNCHANGED splitvars, phase' = "uri"
      PROVE  FormInv'
  <2>1. k + 1 \in 0..Len(t) /\ k \in 0..(Len(t) - 1)
    BY <1>6, <1>8
  <2>2. res' = SubSeq(t, 1, k + 1)
    BY <1>4, <1>6, <1>8, <2>1
  <2>3. temp' = <<>> /\ value' = <<>> /\ path' = <<>> /\ params' = <<>> /\ fragment' = <<>>
    BY <1>4, <1>8 DEF splitvars
  <2>4. InUri(f)'
    BY <1>1, <1>8, <2>1, <2>2, <2>3 DEF InUri
  <2> QED
    BY <1>1, <1>2, <1>8, <2>4 DEF FormInv
<1>9. Percent # 0
  BY DEF Percent
<1>14. k \in Nat /\ k <= Len(t) /\ (k < Len(t) \/ k = Len(t))
       /\ (k < Len(t) => k \in 0..(Len(t) - 1))
  <2> DEFINE n == Len(t)
  <2>1. k \in 0..n /\ n \in Nat
    BY <1>6
  <2> HIDE DEF n
  <2>2. k \in Nat /\ k <= n /\ (k < n \/ k = n)
       /\ (k < n => k \in 0..(n - 1))
    BY ONLY <2>1
  <2> QED
    BY <2>2 DEF n
<1> HIDE DEF q, t, f
<1>13. k = Len(t) \/ (k < Len(t) /\ t[k + 1] # 0)
  <2>1. CASE k < Len(t)
    <3>1. k \in 0..(Len(t) - 1)
      BY <1>14, <2>1
    <3>2. t[k + 1] \in Char
      BY <1>6, <3>1
    <3> QED
      BY <2>1, <3>2, NoTerminator
  <2> QED
    BY <1>14, <2>1
<1>10. CASE CopyChar
  <2>1. /\ At(src, point) \notin {0, Percent} /\ res' = Append(res, src[point])
        /\ point' = point + 1 /\ phase' = "uri" /\ UNCHANGED splitvars
    BY <1>1, <1>10 DEF CopyChar
  <2>2. k < Len(t) /\ t[k + 1] # Percent
    BY <1>7, <1>13, <2>1
  <2> QED
    BY <1>7, <1>8, <2>1, <2>2
<1>11. CASE DecodeEscape
  <2>1. /\ At(src, point) = Percent /\ res' = res \o Scanned /\ point' = point + 3
        /\ phase' = (IF point + 3 > Len(src) + 1 THEN "outside" ELSE phase)
        /\ UNCHANGED splitvars
    BY <1>11 DEF DecodeEscape, EscapeTo
  <2>2. k < Len(t) /\ t[k + 1] = Percent
    BY <1>7, <1>9, <1>13, <2>1
  <2>3. Scanned = <<t[k + 1]>>
    BY <1>7, <2>2 DEF Scanned
  <2>4. res \o <<t[k + 1]>> = Append(res, t[k + 1])
    <3>1. res \in Seq(Char) /\ t[k + 1] \in Char
      <4>1. k \in 0..(Len(t) - 1)
        BY <1>14, <2>2
      <4>2. SubSeq(t, 1, k) \in Seq(Char)
        BY <1>5, FirstOnes
      <4> QED
        BY <1>4, <1>6, <4>1, <4>2
    <3> QED
      BY <3>1, AppendIsConcat
  <2>5. ~(point + 3 > Len(src) + 1)
    <3>1. q(k + 1) = point + 3 /\ q(k + 1) <= Len(src) + 1
      BY <1>7, <2>2
    <3>2. src \in Seq(Char)
      BY <1>2, <1>5, QuoteType DEF Encode, t, f
    <3>3. Len(src) \in Nat /\ point \in Int
      <4>1. Len(src) \in Nat
        BY <3>2, LenProperties
      <4> QED
        BY <1>4, <4>1 DEF q
    <3> QED
      BY <3>1, <3>3
  <2> QED
    BY <1>1, <1>7, <1>8, <2>1, <2>2, <2>3, <2>4, <2>5
<1>12. CASE StartSplit
  <2>1. /\ At(src, point) = 0 /\ point' = 2 /\ res' = res /\ UNCHANGED splitvars
        /\ phase' = IF At(res, 1) = Slash THEN "path" ELSE "refused"
    BY <1>12 DEF StartSplit
  <2>2. k = Len(t)
    BY <1>7, <1>9, <1>13, <2>1
  <2>3. res = t
    BY <1>4, <1>6, <2>2
  <2>4. 1 \in 1..Len(f.path) /\ f.path[1] \in Seq(Char) /\ Len(f.path) \in Nat
    BY <1>2, FormParts
  <2>5. At(t, 1) = Slash /\ PathSize(f, 0) = 0
    <3>1. PathSize(f, 0) = 0
      BY <1>2, TextEnds
    <3> DEFINE g == 1
    <3>2. g \in 1..Len(f.path) /\ g - 1 = 0
      BY <2>4
    <3> HIDE DEF g
    <3> DEFINE b == PathSize(f, g - 1)
    <3>3. /\ b \in Nat /\ Len(f.path[g]) \in Nat /\ PathSize(f, g) = b + 1 + Len(f.path[g])
          /\ PathSize(f, g) <= Len(t) /\ t[b + 1] = Slash
      BY <1>2, <3>2, SegmentAt DEF t
    <3>4. b = 0
      BY <3>1, <3>2
    <3>5. 1 <= Len(t) /\ b + 1 = 1
      BY <1>6, <3>3, <3>4
    <3> QED
      BY <3>1, <3>3, <3>5 DEF At
  <2>6. phase' = "path"
    BY <2>1, <2>3, <2>5
  <2>7. /\ SubSeq(f.path[1], 1, 0) = <<>> /\ SubSeq(f.path, 1, 0) = <<>>
        /\ 0 \in 0..Len(f.path[1])
    BY <2>4, FirstOnes, SubSeqProperties
  <2>8. /\ temp' = SubSeq(f.path[1], 1, 0) /\ path' = SubSeq(f.path, 1, 1 - 1)
        /\ value' = <<>> /\ params' = <<>> /\ fragment' = <<>>
    BY <1>4, <2>1, <2>7 DEF splitvars
  <2>9. point' = PathAt(f, 1, 0) /\ res' = Text(f)
    BY <2>1, <2>3, <2>5 DEF t, PathAt
  <2>10. InPath(f)'
    BY <1>1, <2>4, <2>7, <2>8, <2>9 DEF InPath, f
  <2> QED
    BY <1>1, <1>2, <2>6, <2>10 DEF FormInv, f
<1> QED
  BY <1>10, <1>11, <1>12

LEMMA PathForm ==
  ASSUME FormInv, form # NoForm, PathChar \/ EndSegment
  PROVE  FormInv'
<1> DEFINE f == form
           t == Text(f)
<1>1. /\ phase = "path" /\ form' = form /\ src' = src /\ res' = res /\ point' = point + 1
      /\ f \in Forms /\ src = Encode(f) /\ InPath(f)
      /\ value' = value /\ params' = params /\ fragment' = fragment
  BY DEF PathChar, EndSegment, NotIn, In, inputvars, FormInv
<1>2. PICK i \in 1..Len(f.path) : \E j \in 0..Len(f.path[i]) :
        /\ res = t /\ point = PathAt(f, i, j)
        /\ temp = SubSeq(f.path[i], 1, j) /\ path = SubSeq(f.path, 1, i - 1)
        /\ value = <<>> /\ params = <<>> /\ fragment = <<>>
  BY <1>1 DEF InPath
<1> DEFINE s == f.path[i]
<1>3. PICK j \in 0..Len(s) :
        /\ res = t /\ point = PathAt(f, i, j)
        /\ temp = SubSeq(s, 1, j) /\ path = SubSeq(f.path, 1, i - 1)
        /\ value = <<>> /\ params = <<>> /\ fragment = <<>>
  BY <1>2
<1>4. /\ f.path \in Seq(Seq(Char \ {Slash, Question})) /\ s \in Seq(Char)
      /\ Len(f.path) \in Nat /\ Len(f.params) \in Nat
      /\ Len(f.params) = 0 => f.params = <<>> /\ f.fragment = <<>>
  <2>1. f.path \in Seq(Seq(Char \ {Slash, Question}))
    BY <1>1, FormAssumption
  <2>2. f.params \in Seq([name : Seq(Char \ {Equals}), value : Seq(Char)])
    BY <1>1, FormAssumption
  <2>3. Len(f.params) = 0 => f.params = <<>>
    BY <2>2, EmptySeq
  <2> QED
    BY <1>1, <2>1, <2>3, FormParts
<1>5. /\ Len(s) \in Nat /\ SubSeq(s, 1, Len(s)) = s
      /\ \A x \in 0..(Len(s) - 1) : Append(SubSeq(s, 1, x), s[x + 1]) = SubSeq(s, 1, x + 1)
  <2> HIDE DEF s
  <2> QED
    BY <1>4, FirstOnes
<1>6. /\ SubSeq(f.path, 1, Len(f.path)) = f.path
      /\ \A x \in 0..(Len(f.path) - 1) :
           Append(SubSeq(f.path, 1, x), f.path[x + 1]) = SubSeq(f.path, 1, x + 1)
  BY <1>4, FirstOnes
<1>7. /\ j < Len(s) =>
           /\ At(t, point) = s[j + 1] /\ At(t, point) \in Char \ {Slash, Question}
           /\ t[point] = s[j + 1] /\ point + 1 = PathAt(f, i, j + 1)
      /\ j = Len(s) /\ i < Len(f.path) =>
           At(t, point) = Slash /\ point + 1 = PathAt(f, i + 1, 0)
      /\ j = Len(s) /\ i = Len(f.path) /\ Len(f.params) # 0 =>
           At(t, point) = Question /\ point + 1 = NameAt(f, 1, 0)
      /\ j = Len(s) /\ i = Len(f.path) /\ Len(f.params) = 0 => At(t, point) = 0
  BY <1>1, <1>3, ReadInPath
<1>8. /\ j < Len(s) \/ j = Len(s)
      /\ j \in Nat /\ (j < Len(s) => j \in 0..(Len(s) - 1) /\ j + 1 \in 0..Len(s))
  <2> DEFINE n == Len(s)
  <2>1. j \in 0..n /\ n \in Nat
    BY <1>5
  <2> HIDE DEF n
  <2>2. /\ j < n \/ j = n
        /\ j \in Nat /\ (j < n => j \in 0..(n - 1) /\ j + 1 \in 0..n)
    BY ONLY <2>1
  <2> QED
    BY <2>2 DEF n
<1>9. i < Len(f.path) \/ i = Len(f.path)
  BY <1>4
<1>11. Slash # 0 /\ Question # 0 /\ Slash # Question
  BY DEF Slash, Question
<1> HIDE DEF t, s, f
<1>12. CASE PathChar
  <2>1. /\ At(t, point) \notin {Question, Slash} /\ At(t, point) # 0
        /\ temp' = Append(temp, t[point]) /\ phase' = "path" /\ path' = path
    BY <1>1, <1>3, <1>12, NotInMeans DEF PathChar
  <2>2. j < Len(s)
    BY <1>7, <1>8, <1>9, <2>1
  <2>3. /\ j + 1 \in 0..Len(s) /\ temp' = SubSeq(s, 1, j + 1)
        /\ point' = PathAt(f, i, j + 1)
    <3>1. j + 1 \in 0..Len(s) /\ j \in 0..(Len(s) - 1) /\ t[point] = s[j + 1]
      BY <1>7, <1>8, <2>2
    <3>2. temp' = SubSeq(s, 1, j + 1)
      BY <1>3, <1>5, <2>1, <3>1
    <3>3. point' = PathAt(f, i, j + 1)
      BY <1>1, <1>7, <2>2
    <3> QED
      BY <3>1, <3>2, <3>3
  <2>4. InPath(f)'
    BY <1>1, <1>3, <2>1, <2>3 DEF InPath, s, t, f
  <2> QED
    BY <1>1, <2>1, <2>4 DEF FormInv, f
<1>13. CASE EndSegment
  <2>1. /\ At(t, point) \in {0, Question, Slash}
        /\ path' = Append(path, temp) /\ temp' = <<>>
        /\ phase' = CASE At(t, point) = 0 -> "accepted"
                      [] At(t, point) = Question -> "name"
                      [] OTHER -> "path"
    BY <1>3, <1>13 DEF EndSegment, In
  <2>2. j = Len(s)
    BY <1>7, <1>8, <2>1, NoTerminator
  <2>3. path' = SubSeq(f.path, 1, i)
    <3>1. i - 1 \in 0..(Len(f.path) - 1) /\ (i - 1) + 1 = i
      BY <1>4
    <3>2. temp = f.path[i]
      BY <1>3, <1>5, <2>2 DEF s
    <3> DEFINE h == i - 1
    <3>3. h \in 0..(Len(f.path) - 1) /\ h + 1 = i
      BY <3>1
    <3> HIDE DEF h
    <3>4. Append(SubSeq(f.path, 1, h), f.path[h + 1]) = SubSeq(f.path, 1, h + 1)
      BY <1>6, <3>3
    <3> QED
      BY <1>3, <2>1, <3>2, <3>3, <3>4 DEF h
  <2>4. CASE i < Len(f.path)
    <3>1. At(t, point) = Slash /\ point' = PathAt(f, i + 1, 0)
      BY <1>1, <1>7, <2>2, <2>4
    <3>2. phase' = "path"
      BY <1>11, <2>1, <3>1
    <3> DEFINE g == i + 1
    <3>3. g \in 1..Len(f.path) /\ g - 1 = i
      BY <1>4, <2>4
    <3> HIDE DEF g
    <3>4. f.path[g] \in Seq(Char)
      BY <1>1, <3>3, FormParts DEF f
    <3>5. 0 \in 0..Len(f.path[g]) /\ SubSeq(f.path[g], 1, 0) = <<>>
      BY <3>4, FirstOnes
    <3>6. point' = PathAt(f, g, 0) /\ path' = SubSeq(f.path, 1, g - 1)
          /\ temp' = SubSeq(f.path[g], 1, 0)
      BY <2>1, <2>3, <3>1, <3>3, <3>5 DEF g
    <3>7. InPath(f)'
      BY <1>1, <1>3, <3>3, <3>5, <3>6 DEF InPath, t, f
    <3> QED
      BY <1>1, <3>2, <3>7 DEF FormInv, f
  <2>5. CASE i = Len(f.path)
    <3>1. path' = f.path
      BY <1>6, <2>3, <2>5
    <3>2. CASE Len(f.params) # 0
      <4>1. At(t, point) = Question /\ point' = NameAt(f, 1, 0)
        BY <1>1, <1>7, <2>2, <2>5, <3>2
      <4>2. phase' = "name"
        BY <1>11, <2>1, <4>1
      <4>3. 1 \in 1..Len(f.params) /\ Name(f, 1) \in Seq(Char)
        <5>1. 1 \in 1..Len(f.params)
          BY <1>4, <3>2
        <5> QED
          BY <1>1, <5>1, FormParts DEF f, Name
      <4>4. 0 \in 0..Len(Name(f, 1)) /\ SubSeq(Name(f, 1), 1, 0) = <<>>
        BY <4>3, FirstOnes
      <4>6. params' = GivenTo(f, 1 - 1)
        <5>1. params' = GivenTo(f, 0)
          BY <1>1, <1>3, NoneGiven
        <5> QED
          BY <5>1
      <4>7. temp' = SubSeq(Name(f, 1), 1, 0) /\ value' = <<>> /\ fragment' = <<>>
        BY <1>1, <1>3, <2>1, <4>4
      <4>8. InName(f)'
        BY <1>1, <1>3, <3>1, <4>1, <4>3, <4>4, <4>6, <4>7 DEF InName, t, f
      <4> QED
        BY <1>1, <4>2, <4>8 DEF FormInv, f
    <3>3. CASE Len(f.params) = 0
      <4>1. phase' = "accepted"
        <5>1. At(t, point) = 0
          BY <1>7, <2>2, <2>5, <3>3
        <5> QED
          BY <1>11, <2>1, <5>1
      <4>2. params' = Given(f)
        <5>1. GivenTo(f, 0) = Given(f)
          BY <1>1, <3>3, AllGiven DEF f
        <5> QED
          BY <1>1, <1>3, <5>1, NoneGiven
      <4>3. FormRest(f)'
        BY <1>1, <1>3, <1>4, <3>1, <3>3, <4>2 DEF FormRest, f
      <4> QED
        BY <1>1, <4>1, <4>3 DEF FormInv, f
    <3> QED
      BY <3>2, <3>3
  <2> QED
    BY <1>9, <2>4, <2>5
<1> QED
  BY <1>12, <1>13

LEMMA NameForm ==
  ASSUME FormInv, form # NoForm, NameChar \/ EndName
  PROVE  FormInv'
<1> DEFINE f == form
           t == Text(f)
<1>1. /\ phase = "name" /\ form' = form /\ src' = src /\ res' = res /\ point' = point + 1
      /\ f \in Forms /\ src = Encode(f) /\ InName(f)
      /\ value' = value /\ path' = path /\ params' = params /\ fragment' = fragment
  BY DEF NameChar, EndName, NotIn, In, inputvars, splitvars, FormInv
<1>2. PICK i \in 1..Len(f.params) : \E j \in 0..Len(Name(f, i)) :
        /\ res = t /\ point = NameAt(f, i, j)
        /\ temp = SubSeq(Name(f, i), 1, j)
        /\ path = f.path /\ params = GivenTo(f, i - 1)
        /\ value = <<>> /\ fragment = <<>>
  BY <1>1 DEF InName
<1> DEFINE s == Name(f, i)
           v == Value(f, i)
<1>3. PICK j \in 0..Len(s) :
        /\ res = t /\ point = NameAt(f, i, j)
        /\ temp = SubSeq(s, 1, j)
        /\ path = f.path /\ params = GivenTo(f, i - 1)
        /\ value = <<>> /\ fragment = <<>>
  BY <1>2
<1>4. s \in Seq(Char) /\ v \in Seq(Char)
  BY <1>1, FormParts DEF Name, Value
<1>5. /\ Len(s) \in Nat /\ SubSeq(s, 1, Len(s)) = s
      /\ \A x \in 0..(Len(s) - 1) : Append(SubSeq(s, 1, x), s[x + 1]) = SubSeq(s, 1, x + 1)
  <2> HIDE DEF s
  <2> QED
    BY <1>4, FirstOnes
<1>6. Len(v) \in Nat /\ SubSeq(v, 1, 0) = <<>>
  <2> HIDE DEF v
  <2> QED
    BY <1>4, FirstOnes
<1>7. /\ j < Len(s) =>
           /\ At(t, point) = s[j + 1] /\ At(t, point) \in Char \ {Equals}
           /\ t[point] = s[j + 1] /\ point + 1 = NameAt(f, i, j + 1)
      /\ j = Len(s) => At(t, point) = Equals /\ point + 1 = ValueAt(f, i, 0)
  BY <1>1, <1>3, ReadInName
<1>8. /\ j < Len(s) \/ j = Len(s)
      /\ j \in Nat /\ (j < Len(s) => j \in 0..(Len(s) - 1) /\ j + 1 \in 0..Len(s))
  <2> DEFINE n == Len(s)
  <2>1. j \in 0..n /\ n \in Nat
    BY <1>5
  <2> HIDE DEF n
  <2>2. /\ j < n \/ j = n
        /\ j \in Nat /\ (j < n => j \in 0..(n - 1) /\ j + 1 \in 0..n)
    BY ONLY <2>1
  <2> QED
    BY <2>2 DEF n
<1>10. Equals # 0
  BY DEF Equals
<1> HIDE DEF t, s, v, f
<1>11. CASE NameChar
  <2>1. /\ At(t, point) # Equals /\ At(t, point) # 0
        /\ temp' = Append(temp, t[point]) /\ phase' = "name"
    BY <1>1, <1>3, <1>11, NotInMeans DEF NameChar
  <2>2. j < Len(s)
    BY <1>7, <1>8, <2>1
  <2>3. /\ j + 1 \in 0..Len(s) /\ temp' = SubSeq(s, 1, j + 1)
        /\ point' = NameAt(f, i, j + 1)
    <3>1. j + 1 \in 0..Len(s) /\ j \in 0..(Len(s) - 1) /\ t[point] = s[j + 1]
      BY <1>7, <1>8, <2>2
    <3>2. temp' = SubSeq(s, 1, j + 1)
      BY <1>3, <1>5, <2>1, <3>1
    <3>3. point' = NameAt(f, i, j + 1)
      BY <1>1, <1>7, <2>2
    <3> QED
      BY <3>1, <3>2, <3>3
  <2>4. InName(f)'
    BY <1>1, <1>3, <2>3 DEF InName, s, t, f
  <2> QED
    BY <1>1, <2>1, <2>4 DEF FormInv, f
<1>12. CASE EndName
  <2>1. /\ At(t, point) \in {0, Equals} /\ temp' = temp
        /\ phase' = IF At(t, point) = 0 THEN "refused" ELSE "value"
    BY <1>3, <1>12 DEF EndName, In, splitvars
  <2>2. j = Len(s)
    BY <1>7, <1>8, <2>1, NoTerminator
  <2>3. phase' = "value" /\ point' = ValueAt(f, i, 0)
    BY <1>1, <1>7, <1>10, <2>1, <2>2
  <2>4. temp' = s /\ value' = SubSeq(v, 1, 0) /\ 0 \in 0..Len(v)
    BY <1>1, <1>3, <1>5, <1>6, <2>1, <2>2
  <2>5. InValue(f)'
    BY <1>1, <1>3, <2>3, <2>4 DEF InValue, s, v, t, f
  <2> QED
    BY <1>1, <2>3, <2>5 DEF FormInv, f
<1> QED
  BY <1>11, <1>12

LEMMA FragmentForm ==
  ASSUME FormInv, form # NoForm, FragmentChar \/ EndFragment
  PROVE  FormInv'
<1> DEFINE f == form
           t == Text(f)
           s == f.fragment
<1>1. /\ phase = "fragment" /\ form' = form /\ src' = src /\ res' = res /\ point' = point + 1
      /\ f \in Forms /\ src = Encode(f) /\ InFragment(f)
      /\ path' = path /\ params' = params
  BY DEF FragmentChar, EndFragment, NotIn, In, inputvars, splitvars, FormInv
<1>2. PICK j \in 0..Len(s) :
        /\ res = t /\ s # <<>> /\ point = FragmentAt(f, j)
        /\ path = f.path /\ params = Given(f)
        /\ fragment = SubSeq(s, 1, j)
  BY <1>1 DEF InFragment
<1>3. s \in Seq(Char)
  BY <1>1, FormParts
<1>4. /\ Len(s) \in Nat /\ SubSeq(s, 1, Len(s)) = s
      /\ \A x \in 0..(Len(s) - 1) : Append(SubSeq(s, 1, x), s[x + 1]) = SubSeq(s, 1, x + 1)
  <2> HIDE DEF s
  <2> QED
    BY <1>3, FirstOnes
<1>5. /\ j < Len(s) => /\ At(t, point) = s[j + 1] /\ At(t, point) \in Char
                       /\ t[point] = s[j + 1] /\ point + 1 = FragmentAt(f, j + 1)
      /\ j = Len(s) => At(t, point) = 0
  BY <1>1, <1>2, ReadInFragment
<1>6. /\ j < Len(s) \/ j = Len(s)
      /\ j \in Nat /\ (j < Len(s) => j \in 0..(Len(s) - 1) /\ j + 1 \in 0..Len(s))
  <2> DEFINE n == Len(s)
  <2>1. j \in 0..n /\ n \in Nat
    BY <1>4
  <2> HIDE DEF n
  <2>2. /\ j < n \/ j = n
        /\ j \in Nat /\ (j < n => j \in 0..(n - 1) /\ j + 1 \in 0..n)
    BY ONLY <2>1
  <2> QED
    BY <2>2 DEF n
<1> HIDE DEF t, s, f
<1>8. CASE FragmentChar
  <2>1. At(t, point) # 0 /\ fragment' = Append(fragment, t[point]) /\ phase' = "fragment"
    BY <1>1, <1>2, <1>8, NotInMeans DEF FragmentChar
  <2>2. j < Len(s)
    BY <1>5, <1>6, <2>1
  <2>3. /\ j + 1 \in 0..Len(s) /\ fragment' = SubSeq(s, 1, j + 1)
        /\ point' = FragmentAt(f, j + 1)
    <3>1. j + 1 \in 0..Len(s) /\ j \in 0..(Len(s) - 1) /\ t[point] = s[j + 1]
      BY <1>5, <1>6, <2>2
    <3>2. fragment' = SubSeq(s, 1, j + 1)
      BY <1>2, <1>4, <2>1, <3>1
    <3>3. point' = FragmentAt(f, j + 1)
      BY <1>1, <1>5, <2>2
    <3> QED
      BY <3>1, <3>2, <3>3
  <2>4. InFragment(f)'
    BY <1>1, <1>2, <2>3 DEF InFragment, s, t, f
  <2> QED
    BY <1>1, <2>1, <2>4 DEF FormInv, f
<1>9. CASE EndFragment
  <2>1. At(t, point) = 0 /\ phase' = "accepted" /\ fragment' = fragment
    BY <1>2, <1>9 DEF EndFragment, In, splitvars
  <2>2. j = Len(s)
    BY <1>5, <1>6, <2>1, NoTerminator
  <2>3. FormRest(f)'
    BY <1>1, <1>2, <1>4, <2>1, <2>2 DEF FormRest, s, f
  <2> QED
    BY <1>1, <2>1, <2>3 DEF FormInv, f
<1> QED
  BY <1>8, <1>9

LEMMA ValueForm ==
  ASSUME FormInv, form # NoForm, ValueChar \/ ValueEscape \/ EndParam
  PROVE  FormInv'
<1> DEFINE f == form
           t == Text(f)
<1>1. /\ phase = "value" /\ form' = form /\ src' = src /\ res' = res
      /\ f \in Forms /\ src = Encode(f) /\ InValue(f)
      /\ path' = path /\ fragment' = fragment
  BY DEF ValueChar, ValueEscape, EndParam, StoreParam, NotIn, In, inputvars, FormInv
<1>2. PICK i \in 1..Len(f.params) : \E k \in 0..Len(Value(f, i)) :
        /\ res = t /\ point = ValueAt(f, i, k)
        /\ temp = Name(f, i) /\ value = SubSeq(Value(f, i), 1, k)
        /\ path = f.path /\ params = GivenTo(f, i - 1)
        /\ fragment = <<>>
  BY <1>1 DEF InValue
<1> DEFINE v == Value(f, i)
<1>3. PICK k \in 0..Len(v) :
        /\ res = t /\ point = ValueAt(f, i, k)
        /\ temp = Name(f, i) /\ value = SubSeq(v, 1, k)
        /\ path = f.path /\ params = GivenTo(f, i - 1)
        /\ fragment = <<>>
  BY <1>2
<1>4. v \in Seq(Char) /\ Len(f.params) \in Nat /\ f.fragment \in Seq(Char)
  BY <1>1, FormParts DEF Value
<1>5. /\ Len(v) \in Nat /\ SubSeq(v, 1, Len(v)) = v
      /\ \A x \in 0..(Len(v) - 1) : Append(SubSeq(v, 1, x), v[x + 1]) = SubSeq(v, 1, x + 1)
  <2> HIDE DEF v
  <2> QED
    BY <1>4, FirstOnes
<1>6. /\ k < Len(v) /\ v[k + 1] \in Marks =>
           /\ At(t, point) = Percent /\ ValueAt(f, i, k + 1) = point + 3
           /\ IsHex(At(t, point + 1)) /\ IsHex(At(t, point + 2))
           /\ Byte(At(t, point + 1), At(t, point + 2)) = v[k + 1]
      /\ k < Len(v) /\ v[k + 1] \notin Marks =>
           /\ At(t, point) = v[k + 1] /\ t[point] = v[k + 1]
           /\ At(t, point) \in Char \ Marks /\ ValueAt(f, i, k + 1) = point + 1
      /\ k = Len(v) /\ i < Len(f.params) =>
           At(t, point) = Ampersand /\ point + 1 = NameAt(f, i + 1, 0)
      /\ k = Len(v) /\ i = Len(f.params) /\ f.fragment # <<>> =>
           At(t, point) = Hash /\ point + 1 = FragmentAt(f, 0)
      /\ k = Len(v) /\ i = Len(f.params) /\ f.fragment = <<>> => At(t, point) = 0
  BY <1>1, <1>3, ReadInValue
<1>7. /\ k < Len(v) \/ k = Len(v)
      /\ k \in Nat /\ (k < Len(v) => k \in 0..(Len(v) - 1) /\ k + 1 \in 0..Len(v))
  <2> DEFINE n == Len(v)
  <2>1. k \in 0..n /\ n \in Nat
    BY <1>5
  <2> HIDE DEF n
  <2>2. /\ k < n \/ k = n
        /\ k \in Nat /\ (k < n => k \in 0..(n - 1) /\ k + 1 \in 0..n)
    BY ONLY <2>1
  <2> QED
    BY <2>2 DEF n
<1>8. i < Len(f.params) \/ i = Len(f.params)
  BY <1>4
<1>9. GivenTo(f, i) = [x \in DOMAIN GivenTo(f, i - 1) \cup {Key(f, i)} |->
                         IF x = Key(f, i) THEN v ELSE GivenTo(f, i - 1)[x]]
  BY <1>1, NextGiven DEF Value
<1>10. /\ Percent # 0 /\ Ampersand # 0 /\ Hash # 0 /\ Percent # Ampersand /\ Percent # Hash
       /\ Ampersand # Hash /\ Marks = {Percent, Ampersand, Hash}
  BY DEF Percent, Ampersand, Hash, Marks
<1> HIDE DEF t, v, f
(* A character of the value is read. *)
<1>11. ASSUME k < Len(v), value' = Append(value, v[k + 1]), point' = ValueAt(f, i, k + 1),
              phase' = "value", temp' = temp, params' = params
       PROVE  FormInv'
  <2>1. k + 1 \in 0..Len(v) /\ value' = SubSeq(v, 1, k + 1)
    BY <1>3, <1>5, <1>7, <1>11
  <2>2. InValue(f)'
    BY <1>1, <1>3, <1>11, <2>1 DEF InValue, v, t, f
  <2> QED
    BY <1>1, <1>11, <2>2 DEF FormInv, f
<1>12. CASE ValueChar
  <2>1. /\ At(t, point) \notin Marks /\ At(t, point) # 0 /\ point' = point + 1
        /\ value' = Append(value, t[point]) /\ phase' = "value"
        /\ temp' = temp /\ params' = params
    BY <1>1, <1>3, <1>10, <1>12, NotInMeans DEF ValueChar
  <2>2. k < Len(v) /\ v[k + 1] \notin Marks
    BY <1>6, <1>7, <1>8, <1>10, <2>1
  <2> QED
    BY <1>6, <1>11, <2>1, <2>2
<1>13. CASE ValueEscape
  <2> DEFINE high == At(t, point + 1)
             low == At(t, point + 2)
  <2>1. /\ At(t, point) = Percent /\ point' = point + 3
        /\ temp' = temp /\ params' = params
        /\ IF IsHex(high) /\ IsHex(low)
           THEN value' = Append(value, Byte(high, low)) /\ phase' = phase
           ELSE phase' = "refused" /\ value' = value
    BY <1>3, <1>13 DEF ValueEscape
  <2>2. k < Len(v) /\ v[k + 1] \in Marks
    BY <1>6, <1>7, <1>8, <1>10, <2>1
  <2>3. value' = Append(value, v[k + 1]) /\ phase' = "value"
    BY <1>1, <1>6, <2>1, <2>2
  <2> QED
    BY <1>6, <1>11, <2>1, <2>2, <2>3
<1>14. CASE EndParam
  <2>1. /\ At(t, point) \in {0, Ampersand, Hash} /\ point' = point + 1
        /\ params' = [x \in DOMAIN params \cup {NoCase(temp)} |->
                       IF x = NoCase(temp) THEN value ELSE params[x]]
        /\ phase' = CASE At(t, point) = 0 -> "accepted"
                      [] At(t, point) = Hash -> "fragment"
                      [] OTHER -> "name"
        /\ temp' = IF At(t, point) = 0 THEN temp ELSE <<>>
        /\ value' = IF At(t, point) = 0 THEN value ELSE <<>>
    BY <1>3, <1>14 DEF EndParam, StoreParam, In
  <2>2. k = Len(v)
    BY <1>6, <1>7, <1>10, <2>1, NoTerminator
  <2>3. params' = GivenTo(f, i)
    <3>1. NoCase(temp) = Key(f, i) /\ value = v
      BY <1>3, <1>5, <2>2 DEF Key, Name
    <3> QED
      BY <1>3, <1>9, <2>1, <3>1
  <2>4. CASE i < Len(f.params)
    <3>1. At(t, point) = Ampersand /\ point' = NameAt(f, i + 1, 0)
      BY <1>6, <2>1, <2>2, <2>4
    <3>2. phase' = "name" /\ temp' = <<>> /\ value' = <<>>
      BY <1>10, <2>1, <3>1
    <3> DEFINE g == i + 1
    <3>3. g \in 1..Len(f.params) /\ g - 1 = i
      BY <1>4, <2>4
    <3> HIDE DEF g
    <3>4. Name(f, g) \in Seq(Char)
      BY <1>1, <3>3, FormParts DEF f, Name
    <3>5. 0 \in 0..Len(Name(f, g)) /\ SubSeq(Name(f, g), 1, 0) = <<>>
      BY <3>4, FirstOnes
    <3>6. point' = NameAt(f, g, 0) /\ params' = GivenTo(f, g - 1)
          /\ temp' = SubSeq(Name(f, g), 1, 0)
      BY <2>3, <3>1, <3>2, <3>3, <3>5 DEF g
    <3>7. InName(f)'
      BY <1>1, <1>3, <3>2, <3>3, <3>5, <3>6 DEF InName, t, f
    <3> QED
      BY <1>1, <3>2, <3>7 DEF FormInv, f
  <2>5. CASE i = Len(f.params)
    <3>1. params' = Given(f)
      BY <1>1, <2>3, <2>5, AllGiven DEF f
    <3>2. CASE f.fragment # <<>>
      <4>1. At(t, point) = Hash /\ point' = FragmentAt(f, 0)
        BY <1>6, <2>1, <2>2, <2>5, <3>2
      <4>2. phase' = "fragment"
        BY <1>10, <2>1, <4>1
      <4>3. 0 \in 0..Len(f.fragment) /\ fragment' = SubSeq(f.fragment, 1, 0)
        BY <1>1, <1>3, <1>4, FirstOnes
      <4>4. InFragment(f)'
        BY <1>1, <1>3, <3>1, <3>2, <4>1, <4>3 DEF InFragment, t, f
      <4> QED
        BY <1>1, <4>2, <4>4 DEF FormInv, f
    <3>3. CASE f.fragment = <<>>
      <4>1. At(t, point) = 0
        BY <1>6, <2>2, <2>5, <3>3
      <4>2. phase' = "accepted"
        BY <1>10, <2>1, <4>1
      <4>3. FormRest(f)'
        BY <1>1, <1>3, <3>1, <3>3 DEF FormRest, f
      <4> QED
        BY <1>1, <4>2, <4>3 DEF FormInv, f
    <3> QED
      BY <3>2, <3>3
  <2> QED
    BY <1>8, <2>4, <2>5
<1> QED
  BY <1>12, <1>13, <1>14

LEMMA FormStep == FormInv /\ [UriNext]_urivars => FormInv'
<1> SUFFICES ASSUME FormInv, [UriNext]_urivars PROVE FormInv'
  OBVIOUS
<1>1. CASE UNCHANGED urivars
  BY <1>1 DEF urivars, splitvars, inputvars, FormInv, InUri, InPath, InName, InValue,
              InFragment, FormRest
<1>2. CASE UriNext /\ form = NoForm
  <2>1. form' = form
    BY <1>2 DEF UriNext, CopyChar, DecodeEscape, EscapeTo, StartSplit, PathChar, EndSegment,
                NameChar, EndName, ValueChar, ValueEscape, EndParam, StoreParam,
                FragmentChar, EndFragment, NotIn, In, inputvars
  <2> QED
    BY <1>2, <2>1 DEF FormInv
<1>3. CASE UriNext /\ form # NoForm
  BY <1>3, UriForm, PathForm, NameForm, ValueForm, FragmentForm DEF UriNext
<1> QED
  BY <1>1, <1>2, <1>3

(* A form that a client writes as the two decoders expect it is read back  *)
(* as it was meant, whatever its values hold.                              *)
THEOREM FormsAreRead == UriSpec => []FormRead
<1>1. FormInv => FormRead
  BY DEF FormInv, FormRest, FormRead
<1> QED
  BY <1>1, InitForm, FormStep, PTL DEF UriSpec
=============================================================================
