-------------------------- MODULE SocketWriterProofs --------------------------
(***************************************************************************)
(* Proofs about SocketWriter, for every set of descriptors, every size of  *)
(* buffers and of the send buffer, and every number of bytes.              *)
(*                                                                         *)
(* Everything follows from StreamInv: the buffers of a queue adjoin, the   *)
(* first one at lastPos goes on where the last write ended, and the last   *)
(* one ends where the next AddWriteQueue will go on.                       *)
(***************************************************************************)
EXTENDS SocketWriter, SequenceTheorems, TLAPS

Adjoining(q) ==
  \A i, j \in 1..Len(q) : j = i + 1 => q[j].first = q[i].first + q[i].datalen
Within(q, n) == \A i \in 1..Len(q) : q[i].first + q[i].datalen <= n + 1

(* q, l, a, w stand for a queue, its lastPos, and its two histories. *)
QueueOK(q, l, a, w) ==
  /\ Adjoining(q)
  /\ Within(q, a)
  /\ q = <<>> => l = 0 /\ Len(w) = a
  /\ q # <<>> => /\ q[1].first + l = Len(w) + 1
                 /\ l <= q[1].datalen
                 /\ q[Len(q)].first + q[Len(q)].datalen = a + 1
  /\ \A i \in 1..Len(w) : w[i] = i

StreamOK(fd) ==
  /\ QueueOK(buffers[fd], lastPos[fd], accepted[fd], wire[fd])
  /\ fd \notin writequeuemap => buffers[fd] = <<>> /\ accepted[fd] = 0
StreamInv == \A fd \in Fd : StreamOK(fd)
-----------------------------------------------------------------------------
(* The variables of SocketWriter keep their types; no queue is left behind *)
(* marked closeAfterSendAll without an entry in writequeuemap.             *)
THEOREM TypeCorrect == SafeSpec => []TypeOK
<1>1. Init => TypeOK
  <2> SUFFICES ASSUME Init PROVE TypeOK
    OBVIOUS
  <2>1. running \in BOOLEAN /\ writequeuemap \subseteq Fd /\ todo \subseteq Fd
        /\ fddead \subseteq Fd /\ closeAfterSendAll \subseteq writequeuemap
    BY Zenon DEF Init
  <2>2. socketstates \in [Fd -> SocketState]
        /\ spc \in {"check", "wait", "scan", "close", "closequeue", "exited"}
    BY DEF Init, SocketState
  <2>3. /\ lastPos \in [Fd -> Nat]
        /\ space \in [Fd -> 0..SockBuf]
        /\ accepted \in [Fd -> Nat]
    BY SizeAssumption DEF Init
  <2>4. buffers \in [Fd -> Seq(Buffer)] /\ wire \in [Fd -> Seq(Nat)]
    BY DEF Init
  <2> QED
    BY <2>1, <2>2, <2>3, <2>4 DEF TypeOK
<1>2. TypeOK /\ [Next]_writevars => TypeOK'
  <2> SUFFICES ASSUME TypeOK, [Next]_writevars PROVE TypeOK'
    OBVIOUS
  <2> USE DEF TypeOK, mapvars, queuevars, threadvars
  <2>1. ASSUME NEW fd \in Fd, InsertState(fd) \/ SetWritable(fd) \/ EraseState(fd)
        PROVE TypeOK'
    <3>1. CASE InsertState(fd)
      <4>1. space' \in [Fd -> 0..SockBuf]
        BY <3>1, SizeAssumption DEF InsertState
      <4> QED
        BY <3>1, <4>1 DEF InsertState, SocketState
    <3>2. CASE SetWritable(fd)
      BY <3>2 DEF SetWritable, SocketState
    <3>3. CASE EraseState(fd)
      BY <3>3 DEF EraseState, RemoveState, SocketState
    <3> QED
      BY <2>1, <3>1, <3>2, <3>3
  <2>2. ASSUME NEW fd \in Fd, InsertQueue(fd) PROVE TypeOK'
    BY <2>2 DEF InsertQueue
  <2>3. ASSUME NEW fd \in Fd, AddWriteQueue(fd) PROVE TypeOK'
    <3>1. PICK n \in 1..BufLen : Push(fd, n)
      BY <2>3 DEF AddWriteQueue
    <3>2. [first |-> accepted[fd] + 1, datalen |-> n] \in Buffer
      BY SizeAssumption DEF Buffer
    <3> QED
      BY <3>1, <3>2, SizeAssumption DEF Push
  <2>4. ASSUME NEW fd \in Fd, SetCloseAfterSendAll(fd) PROVE TypeOK'
    BY <2>4 DEF SetCloseAfterSendAll
  <2>5. ASSUME NEW fd \in Fd, EraseQueue(fd) \/ CloseQueue(fd) PROVE TypeOK'
    <3>0. RemoveQueue(fd)
      BY <2>5 DEF EraseQueue, CloseQueue
    <3>1. buffers' \in [Fd -> Seq(Buffer)] /\ wire' \in [Fd -> Seq(Nat)]
      <4>1. <<>> \in Seq(Buffer) /\ <<>> \in Seq(Nat)
        OBVIOUS
      <4> QED
        BY <3>0, <4>1 DEF RemoveQueue
    <3>2. lastPos' \in [Fd -> Nat] /\ accepted' \in [Fd -> Nat]
      BY <3>0 DEF RemoveQueue
    <3>3. /\ writequeuemap' \subseteq Fd
          /\ closeAfterSendAll' \subseteq writequeuemap'
          /\ fddead' \subseteq Fd
      BY <2>5, <3>0 DEF EraseQueue, CloseQueue, RemoveQueue
    <3>4. /\ UNCHANGED <<running, todo, socketstates, space>>
          /\ spc' \in {spc, "close"}
      BY <2>5 DEF EraseQueue, CloseQueue
    <3> QED
      BY <3>1, <3>2, <3>3, <3>4
  <2>6. CASE CheckRunning \/ StartScan \/ EndScan \/ EndCloses
    BY <2>6 DEF CheckRunning, StartScan, EndScan, EndCloses
  <2>7. ASSUME NEW fd \in Fd,
               \/ SkipSocket(fd) \/ WriteBlocked(fd) \/ FinishSocket(fd)
               \/ WriteFails(fd) \/ CloseState(fd)
        PROVE TypeOK'
    BY <2>7 DEF SkipSocket, WriteBlocked, FinishSocket, WriteFails, CloseState,
                Pass, RemoveState, SocketState
  <2>8. ASSUME NEW fd \in Fd, PopBuffer(fd) PROVE TypeOK'
    BY <2>8 DEF PopBuffer
  <2>9. ASSUME NEW fd \in Fd, WriteSome(fd) PROVE TypeOK'
    <3>1. PICK res \in 1..Remaining(fd) :
            /\ res <= space[fd]
            /\ space' = [space EXCEPT ![fd] = @ - res]
            /\ lastPos' = [lastPos EXCEPT ![fd] = @ + res]
            /\ wire' = [wire EXCEPT ![fd] =
                 @ \o [i \in 1..res |-> NowBuf(fd).first + lastPos[fd] + i - 1]]
      BY <2>9 DEF WriteSome
    <3>2. NowBuf(fd) \in Buffer /\ res \in Nat
      BY <2>9 DEF WriteSome, Writing, NowBuf
    <3>3. [i \in 1..res |-> NowBuf(fd).first + lastPos[fd] + i - 1] \in Seq(Nat)
      BY <3>2 DEF Buffer
    <3>4. wire' \in [Fd -> Seq(Nat)]
      BY <3>1, <3>3
    <3>5. lastPos' \in [Fd -> Nat] /\ space' \in [Fd -> 0..SockBuf]
      BY <3>1, <3>2, SizeAssumption
    <3> QED
      BY <2>9, <3>4, <3>5 DEF WriteSome
  <2>10. ASSUME NEW fd \in Fd, Drain(fd) PROVE TypeOK'
    BY <2>10, SizeAssumption DEF Drain
  <2>11. CASE Stop \/ UNCHANGED writevars
    BY <2>11 DEF Stop, writevars
  <2> QED
    BY <2>1, <2>2, <2>3, <2>4, <2>5, <2>6, <2>7, <2>8, <2>9, <2>10, <2>11,
       FdAssumption DEF Next, WriterStep, Flush
<1> QED
  BY <1>1, <1>2, PTL DEF SafeSpec
-----------------------------------------------------------------------------
(* What the operations on a queue preserve. *)

LEMMA EmptyQueue == QueueOK(<<>>, 0, 0, <<>>)
  BY DEF QueueOK, Adjoining, Within

LEMMA BufferAt ==
  ASSUME NEW q \in Seq(Buffer), NEW i \in 1..Len(q)
  PROVE  q[i].first \in Nat /\ q[i].datalen \in Nat
<1>1. q[i] \in Buffer
  BY ElementOfSeq
<1> QED
  BY <1>1, SizeAssumption DEF Buffer

LEMMA QueuePush ==
  ASSUME NEW q \in Seq(Buffer), NEW l \in Nat, NEW a \in Nat, NEW w \in Seq(Nat),
         QueueOK(q, l, a, w), NEW n \in 1..BufLen
  PROVE  QueueOK(Append(q, [first |-> a + 1, datalen |-> n]), l, a + n, w)
<1> DEFINE new == [first |-> a + 1, datalen |-> n]
           r == Append(q, new)
<1>1. n \in Nat /\ new \in Buffer /\ new.first = a + 1 /\ new.datalen = n
  BY SizeAssumption DEF Buffer
<1> HIDE DEF new
<1>2. /\ Len(q) \in Nat /\ Len(w) \in Nat
      /\ q = <<>> <=> Len(q) = 0
  BY EmptySeq, LenProperties
<1>3. /\ r # <<>>
      /\ Len(r) = Len(q) + 1
      /\ \A i \in 1..Len(q) : r[i] = q[i]
      /\ r[Len(q) + 1] = new
  BY <1>1, AppendProperties
<1> HIDE DEF r
<1>4. Adjoining(r)
  <2> SUFFICES ASSUME NEW i \in 1..Len(r), NEW j \in 1..Len(r), j = i + 1
               PROVE r[j].first = r[i].first + r[i].datalen
    BY DEF Adjoining
  <2>1. CASE i < Len(q)
    <3>1. i \in 1..Len(q) /\ j \in 1..Len(q)
      BY <1>2, <1>3, <2>1
    <3>2. r[i] = q[i] /\ r[j] = q[j]
      BY <1>3, <3>1
    <3> QED
      BY <3>1, <3>2 DEF QueueOK, Adjoining
  <2>2. CASE i = Len(q)
    <3>1. i \in 1..Len(q) /\ q # <<>>
      BY <1>2, <2>2
    <3>2. r[i] = q[Len(q)] /\ r[j] = new
      BY <1>2, <1>3, <2>2, <3>1
    <3>3. q[Len(q)].first + q[Len(q)].datalen = a + 1
      BY <3>1 DEF QueueOK
    <3> QED
      BY <1>1, <3>2, <3>3
  <2> QED
    BY <1>2, <1>3, <2>1, <2>2
<1>5. Within(r, a + n)
  <2> SUFFICES ASSUME NEW i \in 1..Len(r)
               PROVE r[i].first + r[i].datalen <= (a + n) + 1
    BY DEF Within
  <2>1. CASE i <= Len(q)
    <3>1. i \in 1..Len(q)
      BY <1>2, <2>1
    <3>2. q[i].first + q[i].datalen <= a + 1
      BY <3>1 DEF QueueOK, Within
    <3> QED
      BY <1>1, <1>3, <3>1, <3>2, BufferAt
  <2>2. CASE i = Len(q) + 1
    BY <1>1, <1>3, <2>2
  <2> QED
    BY <1>2, <1>3, <2>1, <2>2
<1>6. r[1].first + l = Len(w) + 1 /\ l <= r[1].datalen
  <2>1. CASE q = <<>>
    BY <1>1, <1>2, <1>3, <2>1 DEF QueueOK
  <2>2. CASE q # <<>>
    BY <1>2, <1>3, <2>2 DEF QueueOK
  <2> QED
    BY <2>1, <2>2
<1>7. r[Len(r)].first + r[Len(r)].datalen = (a + n) + 1
  <2>1. r[Len(r)] = new
    BY <1>3
  <2> QED
    BY <1>1, <2>1
<1>8. QueueOK(r, l, a + n, w)
  BY <1>3, <1>4, <1>5, <1>6, <1>7 DEF QueueOK
<1> QED
  BY <1>8 DEF r, new

LEMMA QueuePop ==
  ASSUME NEW q \in Seq(Buffer), NEW l \in Nat, NEW a \in Nat, NEW w \in Seq(Nat),
         QueueOK(q, l, a, w), q # <<>>, l >= Head(q).datalen
  PROVE  QueueOK(Tail(q), 0, a, w)
<1> DEFINE r == Tail(q)
<1>1. /\ Len(q) \in Nat \ {0} /\ Len(w) \in Nat
      /\ r \in Seq(Buffer)
      /\ Len(r) = Len(q) - 1
      /\ \A i \in 1..Len(r) : r[i] = q[i + 1]
  BY EmptySeq, LenProperties, HeadTailProperties
<1>2. r = <<>> <=> Len(q) = 1
  <2>1. r = <<>> => Len(r) = 0
    BY EmptySeq
  <2>2. r # <<>> => Len(r) \in Nat \ {0}
    BY <1>1, EmptySeq
  <2> QED
    BY <1>1, <2>1, <2>2
<1>3. Head(q) = q[1]
  BY <1>1
<1> HIDE DEF r
<1>4. q[1].first + q[1].datalen = Len(w) + 1
  BY <1>1, <1>3, BufferAt DEF QueueOK
<1>5. Adjoining(r)
  <2> SUFFICES ASSUME NEW i \in 1..Len(r), NEW j \in 1..Len(r), j = i + 1
               PROVE r[j].first = r[i].first + r[i].datalen
    BY DEF Adjoining
  <2>1. i + 1 \in 1..Len(q) /\ j + 1 \in 1..Len(q) /\ j + 1 = (i + 1) + 1
    BY <1>1
  <2>2. q[j + 1].first = q[i + 1].first + q[i + 1].datalen
    BY <2>1 DEF QueueOK, Adjoining
  <2> QED
    BY <1>1, <2>2
<1>6. Within(r, a)
  <2> SUFFICES ASSUME NEW i \in 1..Len(r) PROVE r[i].first + r[i].datalen <= a + 1
    BY DEF Within
  <2>1. i + 1 \in 1..Len(q) /\ r[i] = q[i + 1]
    BY <1>1
  <2>2. q[i + 1].first + q[i + 1].datalen <= a + 1
    BY <2>1 DEF QueueOK, Within
  <2> QED
    BY <2>1, <2>2
<1>7. CASE Len(q) = 1
  <2>1. q[1].first + q[1].datalen = a + 1
    BY <1>7 DEF QueueOK
  <2>2. Len(w) = a
    BY <1>1, <1>4, <2>1
  <2>3. QueueOK(r, 0, a, w)
    BY <1>2, <1>5, <1>6, <1>7, <2>2 DEF QueueOK
  <2> QED
    BY <2>3 DEF r
<1>8. CASE Len(q) > 1
  <2>1. r[1].first = Len(w) + 1 /\ r[1].datalen \in Nat
    <3>1. 1 \in 1..Len(q) /\ 1 + 1 \in 1..Len(q) /\ 1 \in 1..Len(r)
      BY <1>1, <1>8
    <3>2. q[1 + 1].first = q[1].first + q[1].datalen
      BY <3>1 DEF QueueOK, Adjoining
    <3>3. r[1] = q[1 + 1]
      BY <1>1, <3>1
    <3> QED
      BY <1>1, <1>4, <3>1, <3>2, <3>3, BufferAt
  <2>2. r[Len(r)].first + r[Len(r)].datalen = a + 1
    BY <1>1, <1>8 DEF QueueOK
  <2>3. r # <<>> /\ r[1].first + 0 = Len(w) + 1 /\ 0 <= r[1].datalen
    BY <1>1, <1>2, <1>8, <2>1
  <2>4. QueueOK(r, 0, a, w)
    BY <1>5, <1>6, <2>2, <2>3 DEF QueueOK
  <2> QED
    BY <2>4 DEF r
<1> QED
  BY <1>1, <1>7, <1>8

LEMMA QueueWrite ==
  ASSUME NEW q \in Seq(Buffer), NEW l \in Nat, NEW a \in Nat, NEW w \in Seq(Nat),
         QueueOK(q, l, a, w), q # <<>>, NEW res \in 1..(Head(q).datalen - l)
  PROVE  QueueOK(q, l + res, a, w \o [i \in 1..res |-> Head(q).first + l + i - 1])
<1> DEFINE t == [i \in 1..res |-> Head(q).first + l + i - 1]
           v == w \o t
<1>1. Len(q) \in Nat \ {0} /\ Len(w) \in Nat
  BY EmptySeq, LenProperties
<1>2. Head(q) = q[1] /\ q[1].first \in Nat /\ q[1].datalen \in Nat
  BY <1>1, BufferAt
<1>3. q[1].first + l = Len(w) + 1
  BY DEF QueueOK
<1>4. res \in Nat /\ res <= q[1].datalen - l
  BY <1>2
<1>5. t \in Seq(Nat) /\ Len(t) = res /\ \A i \in 1..res : t[i] = Len(w) + i
  <2>1. \A i \in 1..res : Head(q).first + l + i - 1 = Len(w) + i
    BY <1>1, <1>2, <1>3, <1>4
  <2>2. t = [i \in 1..res |-> Len(w) + i]
    BY <2>1
  <2> HIDE DEF t
  <2> QED
    BY <1>1, <1>4, <2>2
<1> HIDE DEF t
<1>6. /\ Len(v) = Len(w) + res
      /\ \A i \in 1..(Len(w) + res) :
           v[i] = IF i <= Len(w) THEN w[i] ELSE t[i - Len(w)]
  BY <1>5, ConcatProperties
<1> HIDE DEF v
<1>7. \A i \in 1..Len(v) : v[i] = i
  <2> SUFFICES ASSUME NEW i \in 1..Len(v) PROVE v[i] = i
    OBVIOUS
  <2>1. CASE i <= Len(w)
    <3>1. i \in 1..Len(w) /\ v[i] = w[i]
      BY <1>1, <1>4, <1>6, <2>1
    <3> QED
      BY <3>1 DEF QueueOK
  <2>2. CASE i > Len(w)
    <3>1. i - Len(w) \in 1..res /\ v[i] = t[i - Len(w)]
      BY <1>1, <1>4, <1>6, <2>2
    <3> QED
      BY <1>1, <1>5, <3>1
  <2> QED
    BY <1>1, <1>4, <1>6, <2>1, <2>2
<1>8. q[1].first + (l + res) = Len(v) + 1 /\ l + res <= q[1].datalen
  <2>1. Len(v) = Len(w) + res
    BY <1>6
  <2>2. l + res <= q[1].datalen
    BY <1>2, <1>4
  <2>3. ASSUME NEW x \in Nat, NEW y \in Nat, x + l = y + 1
        PROVE  x + (l + res) = (y + res) + 1
    BY <1>4, <2>3
  <2>4. q[1].first + (l + res) = (Len(w) + res) + 1
    BY <1>1, <1>2, <1>3, <2>3
  <2> QED
    BY <2>1, <2>2, <2>4
<1>9. QueueOK(q, l + res, a, v)
  BY <1>7, <1>8 DEF QueueOK
<1> QED
  BY <1>9 DEF v, t
-----------------------------------------------------------------------------
LEMMA StreamInit == Init => StreamInv
  BY EmptyQueue DEF Init, StreamInv, StreamOK

(* A step that leaves the queue of a descriptor alone. *)
LEMMA StreamFrame ==
  ASSUME NEW fd \in Fd, StreamOK(fd),
         buffers'[fd] = buffers[fd], lastPos'[fd] = lastPos[fd],
         accepted'[fd] = accepted[fd], wire'[fd] = wire[fd],
         fd \in writequeuemap => fd \in writequeuemap'
  PROVE  StreamOK(fd)'
  BY DEF StreamOK

(* What the steps do to the queues: one of four operations on one queue,   *)
(* or a new entry of writequeuemap, or nothing.                            *)
QueueUnchanged ==
  /\ UNCHANGED <<buffers, lastPos, accepted, wire>>
  /\ writequeuemap \subseteq writequeuemap'

LEMMA QueueSteps ==
  ASSUME [Next]_writevars
  PROVE  \/ QueueUnchanged
         \/ \E fd \in Fd : \/ AddWriteQueue(fd)
                           \/ PopBuffer(fd)
                           \/ WriteSome(fd)
                           \/ RemoveQueue(fd)
<1> USE DEF mapvars, queuevars, threadvars, QueueUnchanged
<1>1. CASE Stop \/ CheckRunning \/ StartScan \/ EndScan \/ EndCloses
  BY <1>1 DEF Stop, CheckRunning, StartScan, EndScan, EndCloses
<1>2. ASSUME NEW fd \in Fd,
             \/ InsertState(fd) \/ InsertQueue(fd) \/ SetWritable(fd)
             \/ SetCloseAfterSendAll(fd) \/ WriteFails(fd) \/ Drain(fd)
             \/ EraseState(fd)
      PROVE  QueueUnchanged
  BY <1>2 DEF InsertState, InsertQueue, SetWritable, SetCloseAfterSendAll,
              WriteFails, Drain, EraseState
<1>3. ASSUME NEW fd \in Fd,
             \/ SkipSocket(fd) \/ WriteBlocked(fd) \/ FinishSocket(fd)
             \/ CloseState(fd)
      PROVE  QueueUnchanged
  BY <1>3 DEF SkipSocket, WriteBlocked, FinishSocket, CloseState
<1>4. ASSUME NEW fd \in Fd, EraseQueue(fd) \/ CloseQueue(fd)
      PROVE  RemoveQueue(fd)
  BY <1>4 DEF EraseQueue, CloseQueue
<1>5. CASE UNCHANGED writevars
  BY <1>5 DEF writevars
<1> QED
  BY <1>1, <1>2, <1>3, <1>4, <1>5, FdAssumption DEF Next, WriterStep, Flush

LEMMA StreamStep == TypeOK /\ StreamInv /\ [Next]_writevars => StreamInv'
<1> SUFFICES ASSUME TypeOK, StreamInv, [Next]_writevars, NEW g \in Fd
             PROVE  StreamOK(g)'
  BY DEF StreamInv
<1>0. /\ StreamOK(g)
      /\ buffers[g] \in Seq(Buffer) /\ lastPos[g] \in Nat
      /\ accepted[g] \in Nat /\ wire[g] \in Seq(Nat)
      /\ \A fd \in Fd : StreamOK(fd)
  BY DEF StreamInv, TypeOK
<1>1. CASE QueueUnchanged
  BY <1>0, <1>1, StreamFrame DEF QueueUnchanged
<1>2. ASSUME NEW fd \in Fd, AddWriteQueue(fd) PROVE StreamOK(g)'
  <2>1. PICK n \in 1..BufLen : Push(fd, n)
    BY <1>2 DEF AddWriteQueue
  <2>2. CASE g = fd
    <3>1. /\ buffers'[g] = Append(buffers[g], [first |-> accepted[g] + 1, datalen |-> n])
          /\ lastPos'[g] = lastPos[g]
          /\ accepted'[g] = accepted[g] + n
          /\ wire'[g] = wire[g]
          /\ g \in writequeuemap'
      BY <2>1, <2>2 DEF Push, TypeOK, mapvars
    <3>2. QueueOK(buffers[g], lastPos[g], accepted[g], wire[g])
      BY <1>0 DEF StreamOK
    <3> QED
      BY <1>0, <3>1, <3>2, QueuePush DEF StreamOK
  <2>3. CASE g # fd
    BY <1>0, <2>1, <2>3, StreamFrame DEF Push, TypeOK, mapvars
  <2> QED
    BY <2>2, <2>3
<1>3. ASSUME NEW fd \in Fd, PopBuffer(fd) PROVE StreamOK(g)'
  <2>2. CASE g = fd
    <3>1. /\ buffers'[g] = Tail(buffers[g])
          /\ lastPos'[g] = 0
          /\ UNCHANGED <<accepted, wire, writequeuemap>>
          /\ buffers[g] # <<>>
          /\ lastPos[g] >= Head(buffers[g]).datalen
          /\ g \in writequeuemap
      BY <1>3, <2>2 DEF PopBuffer, TypeOK, mapvars, NowBuf, Flushing
    <3>2. QueueOK(buffers[g], lastPos[g], accepted[g], wire[g])
      BY <1>0 DEF StreamOK
    <3> QED
      BY <1>0, <3>1, <3>2, QueuePop DEF StreamOK
  <2>3. CASE g # fd
    BY <1>0, <1>3, <2>3, StreamFrame DEF PopBuffer, TypeOK, mapvars
  <2> QED
    BY <2>2, <2>3
<1>4. ASSUME NEW fd \in Fd, WriteSome(fd) PROVE StreamOK(g)'
  <2>1. PICK res \in 1..Remaining(fd) :
          /\ lastPos' = [lastPos EXCEPT ![fd] = @ + res]
          /\ wire' = [wire EXCEPT ![fd] =
               @ \o [i \in 1..res |-> NowBuf(fd).first + lastPos[fd] + i - 1]]
    BY <1>4 DEF WriteSome
  <2>2. CASE g = fd
    <3>1. /\ res \in 1..(Head(buffers[g]).datalen - lastPos[g])
          /\ lastPos'[g] = lastPos[g] + res
          /\ wire'[g] = wire[g] \o
               [i \in 1..res |-> Head(buffers[g]).first + lastPos[g] + i - 1]
          /\ UNCHANGED <<accepted, buffers, writequeuemap>>
          /\ buffers[g] # <<>>
      BY <1>4, <2>1, <2>2 DEF WriteSome, Writing, TypeOK, mapvars, NowBuf, Remaining
    <3>2. QueueOK(buffers[g], lastPos[g], accepted[g], wire[g])
      BY <1>0 DEF StreamOK
    <3>3. QueueOK(buffers[g], lastPos'[g], accepted[g], wire'[g])
      BY <1>0, <3>1, <3>2, QueueWrite
    <3> QED
      BY <1>0, <3>1, <3>3 DEF StreamOK
  <2>3. CASE g # fd
    BY <1>0, <1>4, <2>1, <2>3, StreamFrame DEF WriteSome, TypeOK, mapvars
  <2> QED
    BY <2>2, <2>3
<1>5. ASSUME NEW fd \in Fd, RemoveQueue(fd) PROVE StreamOK(g)'
  <2>2. CASE g = fd
    <3>1. /\ buffers'[g] = <<>> /\ lastPos'[g] = 0
          /\ accepted'[g] = 0 /\ wire'[g] = <<>>
      BY <1>5, <2>2 DEF RemoveQueue, TypeOK
    <3> QED
      BY <3>1, EmptyQueue DEF StreamOK
  <2>3. CASE g # fd
    BY <1>0, <1>5, <2>3, StreamFrame DEF RemoveQueue, TypeOK
  <2> QED
    BY <2>2, <2>3
<1> QED
  BY <1>1, <1>2, <1>3, <1>4, <1>5, QueueSteps

LEMMA StreamAlways == SafeSpec => []StreamInv
  BY StreamInit, StreamStep, TypeCorrect, PTL DEF SafeSpec

(* What a queue has written is a gapless prefix of what was accepted for   *)
(* it, whatever the sizes of buffers and of partial writes.                *)
THEOREM SentInOrderAlways == SafeSpec => []SentInOrder
<1>1. TypeOK /\ StreamInv => SentInOrder
  <2> SUFFICES ASSUME TypeOK, StreamInv, NEW fd \in Fd
               PROVE  /\ Len(wire[fd]) <= accepted[fd]
                      /\ \A i \in 1..Len(wire[fd]) : wire[fd][i] = i
    BY DEF SentInOrder
  <2> DEFINE q == buffers[fd]
  <2>1. /\ QueueOK(q, lastPos[fd], accepted[fd], wire[fd])
        /\ q \in Seq(Buffer) /\ wire[fd] \in Seq(Nat)
        /\ lastPos[fd] \in Nat /\ accepted[fd] \in Nat
    BY DEF StreamInv, StreamOK, TypeOK
  <2> HIDE DEF q
  <2>2. CASE q = <<>>
    BY <2>1, <2>2 DEF QueueOK
  <2>3. CASE q # <<>>
    <3>1. 1 \in 1..Len(q) /\ Len(wire[fd]) \in Nat
      BY <2>1, <2>3, EmptySeq, LenProperties
    <3>2. q[1].first \in Nat /\ q[1].datalen \in Nat
      BY <2>1, <3>1, BufferAt
    <3>3. /\ q[1].first + lastPos[fd] = Len(wire[fd]) + 1
          /\ lastPos[fd] <= q[1].datalen
          /\ q[1].first + q[1].datalen <= accepted[fd] + 1
      BY <2>1, <2>3, <3>1 DEF QueueOK, Within
    <3>4. ASSUME NEW x \in Nat, NEW d \in Nat, NEW l \in Nat, NEW a \in Nat, NEW n \in Nat,
                 x + l = n + 1, l <= d, x + d <= a + 1
          PROVE  n <= a
      BY <3>4
    <3>5. lastPos[fd] \in Nat /\ accepted[fd] \in Nat /\ Len(wire[fd]) \in Nat
      BY <2>1, <3>1
    <3>6. Len(wire[fd]) <= accepted[fd]
      BY <3>2, <3>3, <3>4, <3>5
    <3> QED
      BY <2>1, <3>6 DEF QueueOK
  <2> QED
    BY <2>2, <2>3
<1> QED
  BY <1>1, StreamAlways, TypeCorrect, PTL
-----------------------------------------------------------------------------
(* During the walk: a socket that was condemned has been passed, and       *)
(* unless its write failed everything accepted for it has been written.    *)
CondemnedInv ==
  /\ spc = "scan" => fddead \cap todo = {}
  /\ CloseWhenAllSent

(* closeAfterSendAll never condemns a socket that still has bytes to send. *)
THEOREM CloseWhenAllSentAlways == SafeSpec => []CloseWhenAllSent
<1>1. Init => CondemnedInv
  BY DEF Init, CondemnedInv, CloseWhenAllSent
<1>2. TypeOK /\ StreamInv /\ CondemnedInv /\ [Next]_writevars => CondemnedInv'
  <2> SUFFICES ASSUME TypeOK, StreamInv, CondemnedInv, [Next]_writevars
               PROVE  CondemnedInv'
    OBVIOUS
  <2> USE DEF mapvars, queuevars, threadvars, CondemnedInv, CloseWhenAllSent
  <2>1. CASE spc' # "scan"
    BY <2>1
  <2>2. CASE spc # "scan" /\ spc' = "scan"
    <3>1. StartScan
      BY <2>2 DEF Next, WriterStep, Flush, CheckRunning, EndScan, EndCloses,
         SkipSocket, PopBuffer, WriteSome, WriteBlocked, FinishSocket, CloseState,
         CloseQueue, InsertState, InsertQueue, SetWritable, AddWriteQueue, Push,
         SetCloseAfterSendAll, WriteFails, Drain, EraseState, EraseQueue, Stop,
         writevars
    <3> QED
      BY <3>1 DEF StartScan
  <2>3. CASE /\ spc = "scan" /\ UNCHANGED <<accepted, socketstates, fddead>>
             /\ todo' \subseteq todo
             /\ \A fd \in fddead : wire'[fd] = wire[fd]
    BY <2>3
  <2>4. CASE spc = "scan" /\ spc' = "scan"
    <3>1. CASE Stop
      BY <2>4, <3>1, <2>3 DEF Stop
    <3>2. ASSUME NEW fd \in Fd, SkipSocket(fd) \/ WriteBlocked(fd) PROVE CondemnedInv'
      BY <2>4, <3>2, <2>3 DEF SkipSocket, WriteBlocked, Pass
    <3>3. ASSUME NEW fd \in Fd, PopBuffer(fd) \/ Drain(fd) PROVE CondemnedInv'
      BY <2>4, <3>3, <2>3 DEF PopBuffer, Drain
    <3>4. ASSUME NEW fd \in Fd, WriteSome(fd) PROVE CondemnedInv'
      <4>1. fd \in todo
        BY <3>4 DEF WriteSome, Writing, Flushing, At
      <4>2. \A g \in fddead : wire'[g] = wire[g]
        BY <2>4, <3>4, <4>1 DEF WriteSome, TypeOK
      <4> QED
        BY <2>4, <3>4, <4>2, <2>3 DEF WriteSome
    <3>5. ASSUME NEW fd \in Fd, WriteFails(fd) PROVE CondemnedInv'
      BY <2>4, <3>5 DEF WriteFails, Pass, TypeOK
    <3>6. ASSUME NEW fd \in Fd, FinishSocket(fd) PROVE CondemnedInv'
      <4>1. Len(wire[fd]) = accepted[fd]
        BY <3>6 DEF FinishSocket, StreamInv, StreamOK, QueueOK
      <4> QED
        BY <2>4, <3>6, <4>1 DEF FinishSocket, Pass
    <3>7. CASE UNCHANGED writevars
      BY <2>4, <3>7, <2>3 DEF writevars
    <3> QED
      BY <2>4, <3>1, <3>2, <3>3, <3>4, <3>5, <3>6, <3>7, FdAssumption
      DEF Next, WriterStep, Flush, CheckRunning, StartScan, EndScan, EndCloses,
          CloseState, CloseQueue, InsertState, InsertQueue, SetWritable,
          AddWriteQueue, SetCloseAfterSendAll, EraseState, EraseQueue, Unlocked
  <2> QED
    BY <2>1, <2>2, <2>4
<1>3. CondemnedInv => CloseWhenAllSent
  BY DEF CondemnedInv
<1> QED
  BY <1>1, <1>2, <1>3, StreamAlways, TypeCorrect, PTL DEF SafeSpec
-----------------------------------------------------------------------------
(* The write queues implement the streams of OutStream: AddWriteQueue is   *)
(* Accept, a write is Send, the new entry and its erasure are Open and     *)
(* Drop, and every other step is invisible.                                *)
THEOREM ImplementsOutStream == SafeSpec => StreamSpec
<1>1. Init => Stream!Init
  BY DEF Init, Stream!Init
<1>2. TypeOK /\ StreamInv /\ SentInOrder /\ SentInOrder' /\ TypeOK' /\ [Next]_writevars
        => [Stream!Next]_Stream!streamvars
  <2> SUFFICES ASSUME TypeOK, StreamInv, SentInOrder, SentInOrder', TypeOK', [Next]_writevars
               PROVE  [Stream!Next]_Stream!streamvars
    OBVIOUS
  <2> USE DEF mapvars, queuevars, threadvars, Stream!streamvars
  <2>1. CASE UNCHANGED <<writequeuemap, accepted, wire>>
    BY <2>1
  <2>2. ASSUME NEW fd \in Fd, InsertQueue(fd) PROVE Stream!Next
    BY <2>2 DEF InsertQueue, Stream!Next, Stream!Open
  <2>3. ASSUME NEW fd \in Fd, AddWriteQueue(fd) PROVE Stream!Next
    <3>1. PICK n \in 1..BufLen : Push(fd, n)
      BY <2>3 DEF AddWriteQueue
    <3>2. accepted'[fd] \in Nat /\ accepted'[fd] > accepted[fd]
      BY <3>1, SizeAssumption DEF Push, TypeOK
    <3>3. accepted' = [accepted EXCEPT ![fd] = accepted'[fd]]
      BY <3>1 DEF Push, TypeOK
    <3> QED
      BY <3>1, <3>2, <3>3 DEF Push, Stream!Next, Stream!Accept
  <2>4. ASSUME NEW fd \in Fd, WriteSome(fd) PROVE Stream!Next
    <3>1. PICK res \in 1..Remaining(fd) :
            wire' = [wire EXCEPT ![fd] =
              @ \o [i \in 1..res |-> NowBuf(fd).first + lastPos[fd] + i - 1]]
      BY <2>4 DEF WriteSome
    <3> DEFINE t == [i \in 1..res |-> NowBuf(fd).first + lastPos[fd] + i - 1]
               n == Len(wire'[fd])
    <3>2. wire'[fd] = wire[fd] \o t
      BY <3>1 DEF TypeOK
    <3>3. res \in Nat \ {0} /\ t \in Seq(Nat) /\ Len(t) = res
      <4>1. NowBuf(fd).first \in Nat \ {0} /\ NowBuf(fd).datalen \in Nat
        <5>1. NowBuf(fd) \in Buffer
          BY <2>4 DEF WriteSome, Writing, NowBuf, TypeOK
        <5> QED
          BY <5>1, SizeAssumption DEF Buffer
      <4>2. lastPos[fd] \in Nat /\ res \in Nat \ {0}
        BY <3>1, <4>1 DEF TypeOK, Remaining
      <4> QED
        BY <4>1, <4>2
    <3> HIDE DEF t
    <3>4. /\ wire'[fd] \in Seq(Nat)
          /\ wire[fd] \in Seq(Nat)
          /\ n = Len(wire[fd]) + res
      <4>1. wire[fd] \in Seq(Nat)
        BY DEF TypeOK
      <4>2. wire[fd] \o t \in Seq(Nat) /\ Len(wire[fd] \o t) = Len(wire[fd]) + Len(t)
        BY <3>3, <4>1, ConcatProperties
      <4> QED
        BY <3>2, <3>3, <4>1, <4>2
    <3>5. n \in (Len(wire[fd]) + 1)..accepted[fd]
      <4>1. n <= accepted[fd] /\ accepted[fd] \in Nat
        BY <2>4 DEF SentInOrder, WriteSome, TypeOK
      <4>2. Len(wire[fd]) \in Nat
        BY <3>4, LenProperties
      <4> QED
        BY <3>3, <3>4, <4>1, <4>2
    <3>6. wire'[fd] = [i \in 1..n |-> i]
      <4>1. \A i \in 1..n : wire'[fd][i] = i
        BY DEF SentInOrder
      <4>2. wire'[fd] \in [1..n -> Nat]
        BY <3>4, LenProperties
      <4> QED
        BY <4>1, <4>2
    <3>7. wire' = [wire EXCEPT ![fd] = [i \in 1..n |-> i]]
      BY <3>1, <3>2, <3>6 DEF TypeOK, t
    <3>8. fd \in writequeuemap /\ UNCHANGED <<writequeuemap, accepted>>
      BY <2>4 DEF WriteSome, Writing, Flushing
    <3> QED
      BY <3>5, <3>7, <3>8 DEF Stream!Next, Stream!Send
  <2>5. ASSUME NEW fd \in Fd, RemoveQueue(fd) PROVE [Stream!Next]_Stream!streamvars
    <3>1. CASE fd \in writequeuemap
      BY <2>5, <3>1 DEF RemoveQueue, Stream!Next, Stream!Drop
    <3>2. CASE fd \notin writequeuemap
      <4>1. buffers[fd] = <<>> /\ accepted[fd] = 0
        BY <3>2 DEF StreamInv, StreamOK
      <4>2. wire[fd] \in Seq(Nat) /\ Len(wire[fd]) = 0
        BY <4>1 DEF StreamInv, StreamOK, QueueOK, TypeOK
      <4>3. wire[fd] = <<>>
        BY <4>2, EmptySeq
      <4> QED
        BY <2>5, <3>2, <4>1, <4>3, <2>1 DEF RemoveQueue, TypeOK
    <3> QED
      BY <3>1, <3>2
  <2>6. CASE Stop \/ CheckRunning \/ StartScan \/ EndScan \/ EndCloses
    BY <2>6, <2>1 DEF Stop, CheckRunning, StartScan, EndScan, EndCloses
  <2>7. ASSUME NEW fd \in Fd,
               \/ InsertState(fd) \/ SetWritable(fd) \/ SetCloseAfterSendAll(fd)
               \/ WriteFails(fd) \/ Drain(fd) \/ EraseState(fd)
        PROVE  [Stream!Next]_Stream!streamvars
    BY <2>7, <2>1 DEF InsertState, SetWritable, SetCloseAfterSendAll, WriteFails,
                      Drain, EraseState
  <2>8. ASSUME NEW fd \in Fd,
               \/ SkipSocket(fd) \/ PopBuffer(fd) \/ WriteBlocked(fd)
               \/ FinishSocket(fd) \/ CloseState(fd)
        PROVE  [Stream!Next]_Stream!streamvars
    BY <2>8, <2>1 DEF SkipSocket, PopBuffer, WriteBlocked, FinishSocket, CloseState
  <2>9. ASSUME NEW fd \in Fd, EraseQueue(fd) \/ CloseQueue(fd)
        PROVE  [Stream!Next]_Stream!streamvars
    BY <2>9, <2>5 DEF EraseQueue, CloseQueue
  <2>10. CASE UNCHANGED writevars
    BY <2>10, <2>1 DEF writevars
  <2> QED
    BY <2>2, <2>3, <2>4, <2>6, <2>7, <2>8, <2>9, <2>10, FdAssumption
    DEF Next, WriterStep, Flush
<1> QED
  BY <1>1, <1>2, StreamAlways, SentInOrderAlways, TypeCorrect, PTL
  DEF SafeSpec, StreamSpec, Stream!Spec
=============================================================================
