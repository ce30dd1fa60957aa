--------------------------- MODULE WorkerPoolProofs ---------------------------
(***************************************************************************)
(* Proofs about WorkerPool, for every number of connections, of workers    *)
(* and of reads, and for every set of descriptors that may be closed.      *)
(*                                                                         *)
(* The safety invariants come in two groups.  NoOrphanMark and             *)
(* NoLostWakeup are about the marks and the wakeups; the order in which    *)
(* buffers are taken is OrderInv, which adds to TakenInOrder and           *)
(* HandedOutOnce that a buffer is in one place only: in the list, or in    *)
(* the hands of one worker.                                                *)
(***************************************************************************)
EXTENDS WorkerPool, TLAPS

(* No worker has left its loop while the server runs. *)
NoneExited == running => \A w \in Worker : wpc[w] # "exited"

(* What is in the list or held was read, and is nowhere else. *)
SeqBound ==
  /\ \A b \in readdataqueue : b.seq <= nread
  /\ \A w \in Worker : Holding(w) => wbuf[w].seq <= nread
QueuedOnce == \A b, c \in readdataqueue : b.seq = c.seq => b = c
HeldNotQueued ==
  \A w \in Worker : Holding(w) => \A b \in readdataqueue : wbuf[w].seq # b.seq

(* Once Run has left its loop nobody passes the test of running any more.  *)
ShutdownInv ==
  mainpc # "loop" =>
    ~running /\ \A w \in Worker : wpc[w] \in {"lock", "waiting"} => w \in missed

OrderInv ==
  /\ SeqBound
  /\ QueuedOnce
  /\ HeldNotQueued
  /\ TakenInOrder
  /\ HandedOutOnce
-----------------------------------------------------------------------------
(* The variables of WorkerPool keep their types: in particular a worker    *)
(* that is past the walk has a buffer in its hands (HttpServer.cpp:322).   *)
THEOREM TypeCorrect == SafeSpec => []TypeOK
<1>1. Init => TypeOK
  <2> SUFFICES ASSUME Init PROVE TypeOK
    OBVIOUS
  <2>1. /\ running \in BOOLEAN
        /\ readsome \in BOOLEAN
        /\ mainpc \in {"loop", "join", "done"}
        /\ readdataqueue \subseteq Buffer
        /\ processingFile \subseteq Fd
        /\ missed \subseteq Worker
    BY Zenon DEF Init
  <2>2. /\ nread \in Nat
        /\ taskpoll \in [Fd -> Task]
        /\ wpc \in [Worker -> WorkerPC]
        /\ wbuf \in [Worker -> Buffer \cup {NoBuffer}]
        /\ wtask \in [Worker -> Task]
    BY DEF Init, Task, NoTask, WorkerPC
  <2>3. \A w \in Worker : ~Holding(w)
    BY DEF Init, Holding
  <2> QED
    BY <2>1, <2>2, <2>3 DEF TypeOK
<1>2. TypeOK /\ [Next]_poolvars => TypeOK'
  <2> SUFFICES ASSUME TypeOK, [Next]_poolvars PROVE TypeOK'
    OBVIOUS
  <2> USE DEF TypeOK, Task, NoTask, WorkerPC, Holding, Buffer
  <2>1. ASSUME NEW fd \in Fd, PushRead(fd) PROVE TypeOK'
    BY <2>1 DEF PushRead
  <2>2. CASE SignalReaders
    <3>1. CASE UNCHANGED wpc
      BY <2>2, <3>1 DEF SignalReaders
    <3>2. ASSUME NEW w \in Worker, wpc[w] = "waiting", GoTo(w, "woken") PROVE TypeOK'
      BY <2>2, <3>2 DEF SignalReaders, GoTo
    <3> QED
      BY <2>2, <3>1, <3>2 DEF SignalReaders
  <2>3. ASSUME NEW fd \in Closable, CloseStep(fd) PROVE TypeOK'
    BY <2>3 DEF CloseStep, DiscardReads, DropTask, Unmark
  <2>4. ASSUME NEW w \in Worker, CheckRunning(w) PROVE TypeOK'
    BY <2>4 DEF CheckRunning, GoTo
  <2>5. ASSUME NEW w \in Worker, WaitForReads(w) PROVE TypeOK'
    BY <2>5 DEF WaitForReads, GoTo
  <2>6. ASSUME NEW w \in Worker, WakeToNothing(w) \/ SpuriousWakeup(w) PROVE TypeOK'
    BY <2>6 DEF WakeToNothing, SpuriousWakeup, GoTo
  <2>7. ASSUME NEW w \in Worker, PickBuffer(w) PROVE TypeOK'
    BY <2>7 DEF PickBuffer, PickFrom, Walked, Eligible, GoTo
  <2>8. ASSUME NEW w \in Worker, FindNoBuffer(w) PROVE TypeOK'
    BY <2>8 DEF FindNoBuffer, Walked, GoTo
  <2>9. ASSUME NEW w \in Worker, StartInput(w) PROVE TypeOK'
    BY <2>9 DEF StartInput, GoTo
  <2>10. ASSUME NEW w \in Worker, FinishInput(w) PROVE TypeOK'
    BY <2>10 DEF FinishInput, LeaveInput, GoTo
  <2>11. CASE Stop
    BY <2>11 DEF Stop
  <2>12. CASE Broadcast
    BY <2>12 DEF Broadcast, LeaveLoop
  <2>13. CASE JoinWorkers
    BY <2>13 DEF JoinWorkers
  <2>14. CASE UNCHANGED poolvars
    BY <2>14 DEF poolvars
  <2> QED
    BY <2>1, <2>2, <2>3, <2>4, <2>5, <2>6, <2>7, <2>8, <2>9, <2>10, <2>11,
       <2>12, <2>13, <2>14 DEF Next, WorkerStep
<1> QED
  BY <1>1, <1>2, PTL DEF SafeSpec
-----------------------------------------------------------------------------
(* Each mark of processingFile always belongs to a worker that is inside   *)
(* datainput and will erase it, closes included: no descriptor is shut out *)
(* of the walk for good.                                                   *)
THEOREM MarksOwned == SafeSpec => []NoOrphanMark
<1>1. Init => NoOrphanMark
  BY DEF Init, NoOrphanMark
<1>2. TypeOK /\ NoOrphanMark /\ [Next]_poolvars => NoOrphanMark'
  <2> SUFFICES ASSUME TypeOK, NoOrphanMark, [Next]_poolvars PROVE NoOrphanMark'
    OBVIOUS
  <2> USE DEF NoOrphanMark
  <2> DEFINE Owner(fd, w) == wpc[w] = "input" /\ wbuf[w].exdata = fd
  <2>1. CASE /\ processingFile' \subseteq processingFile
             /\ UNCHANGED wbuf
             /\ \A w \in Worker : wpc[w] = "input" => wpc'[w] = "input"
    BY <2>1
  <2>2. CASE \E fd \in Fd : PushRead(fd)
    BY <2>2, <2>1 DEF PushRead
  <2>3. CASE SignalReaders
    <3>1. \A w \in Worker : wpc[w] = "input" => wpc'[w] = "input"
      BY <2>3 DEF SignalReaders, GoTo, TypeOK
    <3> QED
      BY <2>3, <3>1, <2>1 DEF SignalReaders
  <2>4. CASE \E fd \in Closable : CloseStep(fd)
    BY <2>4, <2>1 DEF CloseStep, DiscardReads, DropTask, Unmark
  <2>5. ASSUME NEW w \in Worker,
               \/ CheckRunning(w) \/ WaitForReads(w) \/ WakeToNothing(w)
               \/ FindNoBuffer(w) \/ SpuriousWakeup(w)
        PROVE NoOrphanMark'
    <3>1. UNCHANGED <<wbuf, processingFile>>
      BY <2>5 DEF CheckRunning, WaitForReads, WakeToNothing, FindNoBuffer,
                  SpuriousWakeup, Walked
    <3>2. wpc[w] # "input"
      BY <2>5 DEF CheckRunning, WaitForReads, WakeToNothing, FindNoBuffer,
                  SpuriousWakeup, Walked
    <3>3. \A v \in Worker : v # w => wpc'[v] = wpc[v]
      BY <2>5 DEF CheckRunning, WaitForReads, WakeToNothing, FindNoBuffer,
                  SpuriousWakeup, Walked, GoTo, TypeOK
    <3> QED
      BY <3>1, <3>2, <3>3, <2>1
  <2>6. ASSUME NEW w \in Worker, PickBuffer(w) PROVE NoOrphanMark'
    <3>1. wpc[w] # "input" /\ UNCHANGED processingFile
      BY <2>6 DEF PickBuffer, Walked
    <3>2. \A v \in Worker : v # w => wpc'[v] = wpc[v] /\ wbuf'[v] = wbuf[v]
      BY <2>6 DEF PickBuffer, PickFrom, GoTo, TypeOK
    <3> QED
      BY <3>1, <3>2
  <2>7. ASSUME NEW w \in Worker, StartInput(w) PROVE NoOrphanMark'
    <3>1. /\ processingFile' = processingFile \cup {wbuf[w].exdata}
          /\ UNCHANGED wbuf
          /\ wpc[w] = "picked"
      BY <2>7 DEF StartInput
    <3>2. wpc'[w] = "input" /\ \A v \in Worker : v # w => wpc'[v] = wpc[v]
      BY <2>7 DEF StartInput, GoTo, TypeOK
    <3> QED
      BY <3>1, <3>2
  <2>8. ASSUME NEW w \in Worker, FinishInput(w) PROVE NoOrphanMark'
    <3>1. processingFile' = processingFile \ {wbuf[w].exdata}
      BY <2>8 DEF FinishInput
    <3>2. \A v \in Worker : v # w => wpc'[v] = wpc[v] /\ wbuf'[v] = wbuf[v]
      BY <2>8 DEF FinishInput, LeaveInput, GoTo, TypeOK
    <3> QED
      BY <3>1, <3>2
  <2>9. CASE Stop \/ JoinWorkers \/ UNCHANGED poolvars
    BY <2>9, <2>1 DEF Stop, JoinWorkers, poolvars
  <2>10. CASE Broadcast
    <3>1. \A w \in Worker : wpc[w] = "input" => wpc'[w] = "input"
      BY <2>10 DEF Broadcast
    <3> QED
      BY <2>10, <3>1, <2>1 DEF Broadcast, LeaveLoop
  <2> QED
    BY <2>2, <2>3, <2>4, <2>5, <2>6, <2>7, <2>8, <2>9, <2>10 DEF Next, WorkerStep
<1> QED
  BY <1>1, <1>2, TypeCorrect, PTL DEF SafeSpec
-----------------------------------------------------------------------------
(* While the server runs and the list is not empty, a signal is owed or a  *)
(* worker is out of the wait: no wakeup is lost, although one signal may   *)
(* stand for many buffers and is sent without readdataqueuelock.           *)
THEOREM NoWakeupLost == SafeSpec => []NoLostWakeup
<1>1. Init => NoneExited /\ NoLostWakeup
  BY DEF Init, NoneExited, NoLostWakeup
<1>2. TypeOK /\ NoneExited /\ NoLostWakeup /\ [Next]_poolvars
        => NoneExited' /\ NoLostWakeup'
  <2> SUFFICES ASSUME TypeOK, NoneExited, NoLostWakeup, [Next]_poolvars
               PROVE NoneExited' /\ NoLostWakeup'
    OBVIOUS
  <2> USE DEF NoneExited, NoLostWakeup
  <2> DEFINE Out(w) == wpc[w] \notin {"waiting", "exited"}
  <2>1. CASE /\ UNCHANGED <<running, readsome>>
             /\ readdataqueue' \subseteq readdataqueue
             /\ \A w \in Worker : running => wpc'[w] # "exited"
             /\ \A w \in Worker : Out(w) => Out(w)'
    BY <2>1
  <2>2. ASSUME NEW fd \in Fd, PushRead(fd) PROVE NoneExited' /\ NoLostWakeup'
    BY <2>2 DEF PushRead
  <2>3. CASE SignalReaders
    <3>1. CASE UNCHANGED wpc /\ \A w \in Worker : wpc[w] # "waiting"
      BY <2>3, <3>1, WorkerAssumption DEF SignalReaders
    <3>2. ASSUME NEW w \in Worker, GoTo(w, "woken")
          PROVE NoneExited' /\ NoLostWakeup'
      <4>1. Out(w)' /\ \A v \in Worker : running => wpc'[v] # "exited"
        BY <3>2 DEF GoTo, TypeOK
      <4>2. UNCHANGED running
        BY <2>3 DEF SignalReaders
      <4> QED
        BY <4>1, <4>2
    <3> QED
      BY <2>3, <3>1, <3>2 DEF SignalReaders
  <2>4. CASE \E fd \in Closable : CloseStep(fd)
    BY <2>4, <2>1 DEF CloseStep, DiscardReads, DropTask, Unmark
  <2>5. ASSUME NEW w \in Worker, WorkerStep(w) \/ SpuriousWakeup(w), ~WaitForReads(w)
        PROVE NoneExited' /\ NoLostWakeup'
    <3>1. /\ UNCHANGED <<running, readsome>>
          /\ readdataqueue' \subseteq readdataqueue
      BY <2>5 DEF WorkerStep, CheckRunning, WakeToNothing, PickBuffer, PickFrom,
                  FindNoBuffer, StartInput, FinishInput, LeaveInput,
                  SpuriousWakeup, Walked
    <3>2. \A v \in Worker : v # w => wpc'[v] = wpc[v]
      BY <2>5 DEF WorkerStep, CheckRunning, WakeToNothing, PickBuffer, PickFrom,
                  FindNoBuffer, StartInput, FinishInput, LeaveInput,
                  SpuriousWakeup, Walked, GoTo, TypeOK
    <3>3. /\ wpc'[w] # "waiting"
          /\ running => wpc'[w] # "exited"
      BY <2>5 DEF WorkerStep, CheckRunning, WakeToNothing, PickBuffer, PickFrom,
                  FindNoBuffer, StartInput, FinishInput, LeaveInput,
                  SpuriousWakeup, Walked, GoTo, TypeOK
    <3> QED
      BY <3>1, <3>2, <3>3
  <2>6. ASSUME NEW w \in Worker, WaitForReads(w) PROVE NoneExited' /\ NoLostWakeup'
    BY <2>6 DEF WaitForReads, GoTo, TypeOK
  <2>7. CASE Stop
    BY <2>7 DEF Stop
  <2>8. CASE Broadcast
    BY <2>8 DEF Broadcast, LeaveLoop
  <2>9. CASE JoinWorkers \/ UNCHANGED poolvars
    BY <2>9, <2>1 DEF JoinWorkers, poolvars
  <2> QED
    BY <2>2, <2>3, <2>4, <2>5, <2>6, <2>7, <2>8, <2>9 DEF Next
<1> QED
  BY <1>1, <1>2, TypeCorrect, PTL DEF SafeSpec
-----------------------------------------------------------------------------
(* A step that hands out nothing and adds nothing to the list keeps        *)
(* OrderInv: purges, and all that workers do outside the walk.             *)
LEMMA QuietStep ==
  ASSUME OrderInv, nread' = nread, readdataqueue' \subseteq readdataqueue,
         \A w \in Worker : Holding(w)' => Holding(w) /\ wbuf'[w] = wbuf[w]
  PROVE  OrderInv'
  BY DEF OrderInv, SeqBound, QueuedOnce, HeldNotQueued, TakenInOrder, HandedOutOnce

LEMMA OrderStep == TypeOK /\ OrderInv /\ [Next]_poolvars => OrderInv'
<1> SUFFICES ASSUME TypeOK, OrderInv, [Next]_poolvars PROVE OrderInv'
  OBVIOUS
<1>1. ASSUME NEW fd \in Fd, PushRead(fd) PROVE OrderInv'
  <2> DEFINE new == [exdata |-> fd, seq |-> nread']
  <2>1. /\ nread' = nread + 1
        /\ readdataqueue' = readdataqueue \cup {new}
        /\ UNCHANGED <<wpc, wbuf>>
    BY <1>1 DEF PushRead
  <2>2. \A w \in Worker : Holding(w)' <=> Holding(w)
    BY <2>1 DEF Holding
  <2>3. nread \in Nat /\ new.seq = nread + 1
    BY <2>1 DEF TypeOK
  <2>4. \A b \in readdataqueue : b.seq \in Nat /\ b.seq <= nread
    BY DEF OrderInv, SeqBound, TypeOK, Buffer
  <2>5. \A w \in Worker : Holding(w) => wbuf[w].seq \in Nat /\ wbuf[w].seq <= nread
    BY DEF OrderInv, SeqBound, TypeOK, Buffer
  <2> HIDE DEF new
  <2>6. SeqBound' /\ QueuedOnce'
    BY <2>1, <2>2, <2>3, <2>4, <2>5 DEF OrderInv, SeqBound, QueuedOnce
  <2>7. HeldNotQueued' /\ TakenInOrder'
    BY <2>1, <2>2, <2>3, <2>4, <2>5 DEF OrderInv, HeldNotQueued, TakenInOrder
  <2>8. HandedOutOnce'
    BY <2>1, <2>2 DEF OrderInv, HandedOutOnce
  <2> QED
    BY <2>6, <2>7, <2>8 DEF OrderInv
<1>2. ASSUME NEW w \in Worker, PickBuffer(w) PROVE OrderInv'
  <2>1. PICK b \in Eligible :
          /\ \A c \in Eligible : b.seq <= c.seq
          /\ wbuf' = [wbuf EXCEPT ![w] = b]
          /\ readdataqueue' = readdataqueue \ {b}
          /\ GoTo(w, "picked")
    BY <1>2 DEF PickBuffer, PickFrom
  <2>2. /\ b \in readdataqueue
        /\ b.exdata \notin processingFile
        /\ UNCHANGED nread
        /\ wpc[w] \in {"lock", "woken"}
    BY <1>2, <2>1 DEF PickBuffer, Walked, Eligible
  <2>3. wbuf'[w] = b
    BY <2>1 DEF TypeOK
  <2>4. \A v \in Worker : v # w => wbuf'[v] = wbuf[v] /\ (Holding(v)' <=> Holding(v))
    BY <2>1 DEF TypeOK, GoTo, Holding
  <2>5. \A c \in readdataqueue' :
          c \in readdataqueue /\ c.seq # b.seq /\ c.seq \in Nat /\ b.seq \in Nat
    BY <2>1, <2>2 DEF OrderInv, QueuedOnce, TypeOK, Buffer
  <2>6. \A c \in readdataqueue' : c.exdata = b.exdata => b.seq < c.seq
    BY <2>1, <2>2, <2>5 DEF Eligible
  <2>7. SeqBound' /\ QueuedOnce'
    BY <2>2, <2>3, <2>4, <2>5 DEF OrderInv, SeqBound, QueuedOnce
  <2>8. HeldNotQueued' /\ TakenInOrder'
    BY <2>3, <2>4, <2>5, <2>6 DEF OrderInv, HeldNotQueued, TakenInOrder
  <2>9. HandedOutOnce'
    BY <2>2, <2>3, <2>4 DEF OrderInv, HandedOutOnce, HeldNotQueued
  <2> QED
    BY <2>7, <2>8, <2>9 DEF OrderInv
<1>3. ASSUME NEW w \in Worker,
             \/ CheckRunning(w) \/ WaitForReads(w) \/ WakeToNothing(w)
             \/ SpuriousWakeup(w) \/ FindNoBuffer(w)
      PROVE OrderInv'
  BY <1>3, QuietStep DEF CheckRunning, WaitForReads, WakeToNothing,
     SpuriousWakeup, FindNoBuffer, Walked, GoTo, TypeOK, Holding
<1>4. ASSUME NEW w \in Worker, StartInput(w) PROVE OrderInv'
  BY <1>4, QuietStep DEF StartInput, GoTo, TypeOK, Holding
<1>5. ASSUME NEW w \in Worker, FinishInput(w) PROVE OrderInv'
  BY <1>5, QuietStep DEF FinishInput, LeaveInput, GoTo, TypeOK, Holding
<1>6. CASE SignalReaders
  BY <1>6, QuietStep DEF SignalReaders, GoTo, TypeOK, Holding
<1>7. CASE \E fd \in Closable : CloseStep(fd)
  BY <1>7, QuietStep DEF CloseStep, DiscardReads, DropTask, Unmark, Holding
<1>8. CASE Stop \/ JoinWorkers \/ UNCHANGED poolvars
  BY <1>8, QuietStep DEF Stop, JoinWorkers, poolvars, Holding
<1>9. CASE Broadcast
  BY <1>9, QuietStep DEF Broadcast, LeaveLoop, Holding
<1> QED
  BY <1>1, <1>2, <1>3, <1>4, <1>5, <1>6, <1>7, <1>8, <1>9 DEF Next, WorkerStep

LEMMA OrderAlways == SafeSpec => []OrderInv
<1>1. Init => OrderInv
  BY DEF Init, OrderInv, SeqBound, QueuedOnce, HeldNotQueued, TakenInOrder,
         HandedOutOnce, Holding
<1> QED
  BY <1>1, OrderStep, TypeCorrect, PTL DEF SafeSpec

(* The buffers of one descriptor leave the list in the order they were     *)
(* read, however many workers walk it and whatever is purged meanwhile,    *)
(* and no two workers ever hold the same buffer.                           *)
THEOREM ReadsInOrderOnce == SafeSpec => []InOrderOnce
<1>1. OrderInv => InOrderOnce
  BY DEF OrderInv, InOrderOnce
<1> QED
  BY <1>1, OrderAlways, PTL
-----------------------------------------------------------------------------
(* While Run joins its threads, the only workers that can still be in the  *)
(* wait are those that were between the test of running and the wait when  *)
(* readqueueWait was broadcast.                                            *)
THEOREM ShutdownReachesTheRest == SafeSpec => []OnlyMissedWait
<1>1. Init => ShutdownInv
  BY DEF Init, ShutdownInv
<1>2. TypeOK /\ ShutdownInv /\ [Next]_poolvars => ShutdownInv'
  <2> SUFFICES ASSUME TypeOK, ShutdownInv, [Next]_poolvars PROVE ShutdownInv'
    OBVIOUS
  <2> DEFINE Late(w) == wpc[w] \in {"lock", "waiting"}
  <2>1. CASE /\ UNCHANGED <<mainpc, missed>>
             /\ running' => running
             /\ \A w \in Worker : ~running /\ Late(w)' => Late(w)
    BY <2>1 DEF ShutdownInv
  <2>2. CASE \E fd \in Fd : PushRead(fd)
    BY <2>2, <2>1 DEF PushRead
  <2>3. CASE SignalReaders
    BY <2>3, <2>1 DEF SignalReaders, GoTo, TypeOK
  <2>4. CASE \E fd \in Closable : CloseStep(fd)
    BY <2>4, <2>1 DEF CloseStep, DiscardReads, DropTask, Unmark
  <2>5. ASSUME NEW w \in Worker, WorkerStep(w) \/ SpuriousWakeup(w) PROVE ShutdownInv'
    <3>1. UNCHANGED <<running, mainpc, missed>>
      BY <2>5 DEF WorkerStep, CheckRunning, WaitForReads, WakeToNothing,
         PickBuffer, FindNoBuffer, StartInput, FinishInput, LeaveInput,
         SpuriousWakeup, Walked
    <3>2. \A v \in Worker : v # w => wpc'[v] = wpc[v]
      BY <2>5 DEF WorkerStep, CheckRunning, WaitForReads, WakeToNothing,
         PickBuffer, PickFrom, FindNoBuffer, StartInput, FinishInput, LeaveInput,
         SpuriousWakeup, Walked, GoTo, TypeOK
    <3>3. ~running /\ Late(w)' => Late(w)
      BY <2>5 DEF WorkerStep, CheckRunning, WaitForReads, WakeToNothing,
         PickBuffer, PickFrom, FindNoBuffer, StartInput, FinishInput, LeaveInput,
         SpuriousWakeup, Walked, GoTo, TypeOK
    <3> QED
      BY <3>1, <3>2, <3>3, <2>1
  <2>6. CASE Stop
    BY <2>6, <2>1 DEF Stop
  <2>7. CASE Broadcast
    BY <2>7 DEF Broadcast, LeaveLoop, ShutdownInv, TypeOK
  <2>8. CASE JoinWorkers
    BY <2>8 DEF JoinWorkers, ShutdownInv
  <2>9. CASE UNCHANGED poolvars
    BY <2>9, <2>1 DEF poolvars
  <2> QED
    BY <2>2, <2>3, <2>4, <2>5, <2>6, <2>7, <2>8, <2>9 DEF Next
<1>3. ShutdownInv => OnlyMissedWait
  BY DEF ShutdownInv, OnlyMissedWait
<1> QED
  BY <1>1, <1>2, <1>3, TypeCorrect, PTL DEF SafeSpec
=============================================================================
