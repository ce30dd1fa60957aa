----------------------------- MODULE HttpHostProofs ----------------------------
(***************************************************************************)
(* Proofs about HttpHost, for any descriptors, workers, peers and sizes.   *)
(*                                                                         *)
(* Three invariants carry everything.  IOInv is about the IO thread and the *)
(* kernel only: it types their variables and says that whoever opens,      *)
(* serves or closes a descriptor has a client's.  With it every step of    *)
(* the server is one that WorkerPool and SocketWriter allow, so that what  *)
(* is proved of them holds here.  EdgeInv follows the news about a         *)
(* connection from epoll to read().  Numbers says, for every descriptor    *)
(* number that is not crossed, where each table stands while the IO thread *)
(* opens and serves a connection and either thread closes it.  Peers may   *)
(* reset whatever connections they like (Resettable is any set).           *)
(***************************************************************************)
EXTENDS HttpHost, TLAPS

PoolProofs == INSTANCE WorkerPoolProofs
WriterProofs == INSTANCE SocketWriterProofs

USE DEF history

Label == {"check", "poll", "dispatch", "accept", "addfd", "newstate", "newqueue",
          "read", "signal", "out", "err", "hup", "left", "returned", "killed"}
EventSet == SUBSET {"in", "out", "err", "hup"}
Serving == {"addfd", "newstate", "newqueue", "read", "signal", "out", "err", "hup"}

LoopType ==
  /\ iopc \in Label
  /\ iofd \in Fd \cup {Listen}
  /\ ioevents \in EventSet
  /\ batch \subseteq [fd : Fd \cup {Listen}, events : EventSet]
  /\ fdmap \subseteq Fd
  /\ closing \in [Closer -> [stage : CloseStage, fd : Fd \cup {Listen}]]

KernelType ==
  /\ conn \in [Fd -> Conn \cup {NoConn}]
  /\ nconn \in 0..MaxConns /\ arrived \in nconn..MaxConns
  /\ watched \subseteq Fd
  /\ ready \subseteq watched \cup {Listen}
  /\ inbox \in [Conn -> 0..MaxSent]
  /\ sent \in 0..MaxSent
  /\ peer \in [Conn -> {"open", "finished", "reset", "dead"}]
  /\ origin \in [1..MaxReads -> Conn \cup {NoConn}]
  /\ crossed \subseteq Fd
  /\ \A c \in Conn : inbox[c] <= sent

InFd ==
  /\ iopc \in Serving => iofd \in Fd
  /\ \A c \in Closer : closing[c].stage # "idle" => closing[c].fd \in Fd

IOInv == LoopType /\ KernelType /\ InFd
-----------------------------------------------------------------------------
LEMMA InitIOInv == Init => IOInv
<1> SUFFICES ASSUME Init PROVE IOInv
  OBVIOUS
<1>1. LoopType
  BY DEF Init, LoopType, Label, EventSet, Closer, CloseStage
<1>2. KernelType
  BY HostAssumption DEF Init, KernelType, Conn, NoConn
<1>3. InFd
  BY DEF Init, InFd, Serving, Closer
<1> QED
  BY <1>1, <1>2, <1>3 DEF IOInv

LEMMA PeerType ==
  ASSUME IOInv, PeerStep
  PROVE IOInv'
<1>0. UNCHANGED <<iopc, loopvars, fdmap, closing, history>>
  BY DEF PeerStep
<1>1. LoopType' /\ InFd'
  BY <1>0 DEF IOInv, LoopType, InFd, loopvars
<1>2. ASSUME Connect PROVE KernelType'
  <2>1. arrived' \in nconn'..MaxConns /\ nconn' \in 0..MaxConns
    BY <1>2, HostAssumption DEF IOInv, KernelType, Connect
  <2> QED
    BY <1>0, <1>2, <2>1 DEF IOInv, KernelType, Connect
<1>3. ASSUME NEW c \in Conn, SendData(c) PROVE KernelType'
  <2>1. inbox[c] <= sent /\ sent < MaxSent /\ inbox[c] \in Nat /\ sent \in Nat /\ MaxSent \in Nat
    BY <1>3, HostAssumption DEF IOInv, KernelType, SendData
  <2>2. inbox' = [inbox EXCEPT ![c] = inbox[c] + 1] /\ sent' = sent + 1
    BY <1>3 DEF SendData
  <2>3. sent' \in 0..MaxSent /\ inbox' \in [Conn -> 0..MaxSent]
    BY <2>1, <2>2 DEF IOInv, KernelType
  <2>4. \A d \in Conn : inbox'[d] <= sent'
    BY <2>1, <2>2 DEF IOInv, KernelType
  <2> QED
    BY <1>0, <1>3, <2>3, <2>4 DEF IOInv, KernelType, SendData, Notify
<1>4. ASSUME NEW c \in Conn, Finish(c) \/ Reset(c) PROVE KernelType'
  BY <1>0, <1>4, HostAssumption DEF IOInv, KernelType, Finish, Reset, Notify
<1>5. Resettable \subseteq Conn
  BY HostAssumption DEF Conn
<1> QED
  BY <1>1, <1>2, <1>3, <1>4, <1>5 DEF PeerStep, IOInv

LEMMA CloseType ==
  ASSUME IOInv, NEW c \in Closer, CloseStep(c)
  PROVE IOInv'
<1>1. /\ UNCHANGED <<iopc, loopvars>>
      /\ \E next \in CloseStage : closing' = [closing EXCEPT ![c].stage = next]
      /\ closing[c].stage # "idle"
  BY DEF CloseStep, DelFD, CloseState, CloseReads, CloseTask, CloseMark, CloseQueue,
     CloseFd, AtStage, CloseStage
<1>2. closing' \in [Closer -> [stage : CloseStage, fd : Fd \cup {Listen}]]
  BY <1>1 DEF IOInv, LoopType
<1>3. \A d \in Closer : /\ closing'[d].fd = closing[d].fd
                        /\ d # c => closing'[d].stage = closing[d].stage
  BY <1>1 DEF IOInv, LoopType
<1>4. InFd'
  BY <1>1, <1>3 DEF IOInv, InFd, loopvars
<1>5. CASE DelFD(c)
  BY <1>5, <1>1, <1>2, <1>4, HostAssumption DEF IOInv, LoopType, KernelType, DelFD,
     loopvars
<1>6. CASE CloseFd(c)
  BY <1>6, <1>1, <1>2, <1>4, HostAssumption DEF IOInv, LoopType, KernelType, CloseFd,
     loopvars
<1>7. CASE CloseState(c) \/ CloseReads(c) \/ CloseTask(c) \/ CloseMark(c) \/ CloseQueue(c)
  <2>1. UNCHANGED <<fdmap, kernelvars, history>>
    BY <1>7 DEF CloseState, CloseReads, CloseTask, CloseMark, CloseQueue
  <2> QED
    BY <2>1, <1>1, <1>2, <1>4 DEF IOInv, LoopType, KernelType, loopvars, kernelvars
<1> QED
  BY <1>5, <1>6, <1>7 DEF CloseStep

(* What the IO thread's own steps between closes leave as it is. *)
LEMMA ThreadType ==
  ASSUME IOInv, IOFree,
         \/ TestRunning \/ Interrupted \/ EndBatch \/ AcceptFails \/ InsertState \/ InsertQueue
         \/ ReadNothing \/ SignalReaders \/ HandleOut \/ JoinWorkers \/ JoinWriter
  PROVE IOInv'
<1>1. UNCHANGED <<loopvars, fdmap, closing, kernelvars, history>>
  BY DEF TestRunning, Interrupted, EndBatch, AcceptFails, InsertState, InsertQueue,
     ReadNothing, SignalReaders, HandleOut, JoinWorkers, JoinWriter, iovars
<1>2. iopc' \in Label /\ (iopc' \in Serving => iopc \in Serving)
  BY DEF TestRunning, Interrupted, EndBatch, AcceptFails, InsertState, InsertQueue,
     ReadNothing, SignalReaders, HandleOut, JoinWorkers, JoinWriter, IOAt, Label, Serving,
     iovars, IOInv, LoopType
<1> QED
  BY <1>1, <1>2 DEF IOInv, LoopType, KernelType, InFd, loopvars, kernelvars

LEMMA StartCloseType ==
  ASSUME LoopType, InFd, NEW c \in Closer, NEW fd \in Fd, StartClose(c, fd),
         UNCHANGED <<loopvars, fdmap>>, iopc' \in Label, iopc' \in Serving => iopc \in Serving
  PROVE  LoopType' /\ InFd'
<1>1. \A d \in Closer : closing'[d] = IF d = c THEN [stage |-> "delfd", fd |-> fd] ELSE closing[d]
  BY DEF LoopType, StartClose
<1>2. closing' \in [Closer -> [stage : CloseStage, fd : Fd \cup {Listen}]]
  BY DEF LoopType, StartClose, CloseStage
<1> QED
  BY <1>1, <1>2 DEF LoopType, InFd, loopvars

LEMMA IOTypes ==
  ASSUME IOInv, IOStep
  PROVE IOInv'
<1>1. CASE EpollWait
  <2>1. PICK taken \in SUBSET ready :
          /\ ready' = ready \ taken
          /\ batch' = {[fd |-> fd, events |-> IF fd = Listen THEN {"in"} ELSE Events(fd)] :
                         fd \in taken}
    BY <1>1 DEF EpollWait
  <2>2. \A fd : Events(fd) \in EventSet
    BY DEF Events, EventSet
  <2>3. taken \subseteq Fd \cup {Listen}
    BY <2>1 DEF IOInv, KernelType
  <2>4. batch' \subseteq [fd : Fd \cup {Listen}, events : EventSet]
    BY <2>1, <2>2, <2>3 DEF EventSet
  <2>5. /\ iopc' = "dispatch"
        /\ UNCHANGED <<iofd, ioevents, fdmap, closing, conn, nconn, arrived, watched, inbox, sent,
                       peer, history>>
    BY <1>1 DEF EpollWait, IOAt
  <2> QED
    BY <2>1, <2>4, <2>5 DEF IOInv, LoopType, KernelType, InFd, Label, Serving
<1>2. CASE DispatchEvent
  <2>1. PICK e \in batch :
       /\ batch' = batch \ {e}
       /\ iofd' = e.fd
       /\ ioevents' = e.events
       /\ iopc' = IF e.fd = Listen THEN "accept"
                  ELSE IF e.fd \notin fdmap THEN "dispatch"
                  ELSE IF "in" \in e.events THEN "read" ELSE "out"
    BY <1>2 DEF DispatchEvent
  <2>2. e.fd \in Fd \cup {Listen} /\ e.events \in EventSet
    BY DEF IOInv, LoopType
  <2> QED
    BY <1>2, <2>1, <2>2 DEF IOInv, LoopType, KernelType, InFd, Label, Serving,
       DispatchEvent, kernelvars
<1>3. CASE AcceptConnection
  <2>1. /\ arrived' \in nconn'..MaxConns /\ nconn' \in 0..MaxConns
        /\ nconn' \in Conn
    BY <1>3, HostAssumption DEF IOInv, KernelType, AcceptConnection, Conn
  <2>2. conn' \in [Fd -> Conn \cup {NoConn}] /\ iofd' \in Fd
    BY <1>3, <2>1 DEF IOInv, KernelType, AcceptConnection
  <2>3. /\ iopc' = "addfd"
        /\ crossed' \subseteq Fd
        /\ UNCHANGED <<ioevents, batch, fdmap, closing, watched, ready, inbox, sent, peer, origin>>
    BY <1>3 DEF AcceptConnection, IOAt, IOInv, KernelType
  <2>4. LoopType'
    BY <2>2, <2>3 DEF IOInv, LoopType, Label
  <2>5. KernelType'
    BY <2>1, <2>2, <2>3 DEF IOInv, KernelType
  <2>6. InFd'
    BY <2>2, <2>3 DEF IOInv, InFd
  <2> QED
    BY <2>4, <2>5, <2>6 DEF IOInv
<1>4. CASE AddFD
  <2>1. iopc = "addfd" /\ iofd \in Fd
    BY <1>4 DEF AddFD, IOInv, InFd, Serving
  <2>2. CASE iopc' = "newstate"
    BY <1>4, <2>1, <2>2 DEF IOInv, LoopType, KernelType, InFd, Label, Serving, AddFD,
       loopvars
  <2>3. CASE iopc' # "newstate"
    <3>1. /\ StartClose("io", iofd) /\ iopc' = "accept"
          /\ UNCHANGED <<loopvars, fdmap, kernelvars, history>>
      BY <1>4, <2>3 DEF AddFD, kernelvars
    <3> QED
      BY <3>1, <2>1, StartCloseType DEF IOInv, KernelType, kernelvars, Closer, Label,
         Serving
  <2> QED
    BY <2>2, <2>3
<1>5. CASE ReadAgain
  <2>1. /\ iopc = "read" /\ iopc' = "read" /\ conn[iofd] # NoConn /\ inbox[conn[iofd]] > 0
        /\ inbox' = [inbox EXCEPT ![conn[iofd]] = inbox[conn[iofd]] - 1]
        /\ origin' = [origin EXCEPT ![nread'] = conn[iofd]]
        /\ UNCHANGED <<loopvars, fdmap, closing, conn, nconn, arrived, watched, ready, sent, peer,
                       crossed>>
    BY <1>5 DEF ReadAgain, IOAt
  <2>2. iofd \in Fd /\ conn[iofd] \in Conn
    BY <2>1 DEF IOInv, KernelType, InFd, Serving
  <2> DEFINE c == conn[iofd]
  <2>4. /\ inbox[c] \in 1..MaxSent /\ inbox[c] <= sent
        /\ inbox[c] - 1 \in 0..MaxSent /\ inbox[c] - 1 <= sent
    BY <2>1, <2>2, HostAssumption DEF IOInv, KernelType
  <2>5. inbox' \in [Conn -> 0..MaxSent] /\ \A d \in Conn : inbox'[d] <= sent
    BY <2>1, <2>2, <2>4 DEF IOInv, KernelType
  <2>6. KernelType'
    BY <2>1, <2>2, <2>5 DEF IOInv, KernelType
  <2> QED
    BY <2>1, <2>6 DEF IOInv, LoopType, InFd, loopvars
<1>6. CASE ReadError
  BY <1>6 DEF IOInv, LoopType, KernelType, InFd, Label, Serving, ReadError, IOAt, loopvars
<1>7. CASE ReadEnd \/ HandleErr \/ HandleHup
  <2>1. /\ iofd \in Fd
        /\ StartClose("io", iofd) \/ UNCHANGED closing
        /\ iopc' \in Label /\ (iopc' \in Serving => iopc \in Serving)
        /\ UNCHANGED <<loopvars, fdmap, kernelvars, history>>
    BY <1>7 DEF ReadEnd, HandleErr, HandleHup, HandleFault, IOAt, Label, Serving, IOInv,
       InFd
  <2> QED
    BY <2>1, StartCloseType DEF IOInv, LoopType, KernelType, InFd, loopvars, kernelvars,
       Closer
<1>8. CASE CloseStep("io")
  BY <1>8, CloseType DEF Closer
<1>9. CASE LeaveRun
  BY <1>9 DEF IOInv, LoopType, KernelType, InFd, Label, Serving, LeaveRun, IOAt, loopvars
<1>10. CASE \/ TestRunning \/ EndBatch \/ AcceptFails \/ InsertState \/ InsertQueue
            \/ ReadNothing \/ SignalReaders \/ HandleOut \/ JoinWriter
  BY <1>10, ThreadType DEF TestRunning, EndBatch, AcceptFails, InsertState, InsertQueue,
     ReadNothing, SignalReaders, HandleOut, JoinWriter, IOAt
<1>11. CASE JoinWorkers
  BY <1>11 DEF JoinWorkers, iovars, IOInv, LoopType, KernelType, InFd, loopvars,
     kernelvars
<1> QED
  BY <1>1, <1>2, <1>3, <1>4, <1>5, <1>6, <1>7, <1>8, <1>9, <1>10, <1>11 DEF IOStep
LEMMA WriterTypes ==
  ASSUME IOInv, WriterStep
  PROVE IOInv'
<1>1. CASE WriterScan
  BY <1>1 DEF WriterScan, iovars, IOInv, LoopType, KernelType, InFd, loopvars, kernelvars
<1>2. CASE \E fd \in Fd : WriteFails(fd)
  BY <1>2 DEF WriteFails, IOInv, LoopType, KernelType, InFd, loopvars
<1>3. CASE \E fd \in Fd : BrokenPipe(fd)
  BY <1>3 DEF BrokenPipe, IOInv, LoopType, KernelType, InFd, loopvars, kernelvars, Label,
     Serving
<1>4. CASE \E fd \in Fd : WriterCloses(fd)
  BY <1>4, StartCloseType DEF WriterCloses, IOInv, LoopType, KernelType, InFd, loopvars,
     kernelvars, Closer
<1>5. CASE CloseStep("writer")
  BY <1>5, CloseType DEF Closer
<1> QED
  BY <1>1, <1>2, <1>3, <1>4, <1>5 DEF WriterStep

LEMMA StepIOInv == IOInv /\ [Next]_hostvars => IOInv'
<1> SUFFICES ASSUME IOInv, [Next]_hostvars PROVE IOInv'
  OBVIOUS
<1>1. CASE UNCHANGED iovars
  BY <1>1 DEF iovars, IOInv, LoopType, KernelType, InFd, loopvars, kernelvars
<1>2. CASE \E fd \in Fd : SocketDrained(fd)
  BY <1>2 DEF SocketDrained, Notify, IOInv, LoopType, KernelType, InFd, loopvars
<1>3. CASE Interrupted
  BY <1>3, ThreadType DEF Interrupted, IOAt
<1>4. UNCHANGED hostvars \/ Stop
          \/ (\E w \in Worker : WorkerStep(w) \/ SpuriousWakeup(w) \/ Reply(w))
        => UNCHANGED iovars
  BY DEF hostvars, Stop, WorkerStep, SpuriousWakeup, Reply
<1> QED
  BY <1>1, <1>2, <1>3, <1>4, PeerType, IOTypes, WriterTypes DEF Next

(* The invariant of the loop and the kernel, which the theorems below      *)
(* rest on.                                                                *)
THEOREM IOInvariant == SafeSpec => []IOInv
<1> QED
  BY InitIOInv, StepIOInv, PTL DEF SafeSpec
-----------------------------------------------------------------------------
(* What changes the state of WorkerPool. *)
LEMMA PoolQuiet == UNCHANGED poolall => UNCHANGED Pool!poolvars
BY DEF poolall, pool, Pool!poolvars

LEMMA WriterKeepsRunning ==
  ASSUME NEW fd,
         \/ Writer!InsertState(fd) \/ Writer!InsertQueue(fd) \/ Writer!SetWritable(fd)
         \/ Writer!AddWriteQueue(fd) \/ Writer!WriteFails(fd) \/ Writer!Drain(fd)
         \/ Writer!EraseState(fd) \/ Writer!EraseQueue(fd)
         \/ Writer!CloseState(fd) \/ Writer!CloseQueue(fd)
         \/ Writer!SkipSocket(fd) \/ Writer!PopBuffer(fd) \/ Writer!WriteSome(fd)
         \/ Writer!WriteBlocked(fd) \/ Writer!FinishSocket(fd)
         \/ Writer!CheckRunning \/ Writer!StartScan \/ Writer!EndScan \/ Writer!EndCloses
  PROVE  UNCHANGED running
BY DEF Writer!InsertState, Writer!InsertQueue, Writer!SetWritable, Writer!AddWriteQueue,
   Writer!Push, Writer!WriteFails, Writer!Drain, Writer!EraseState, Writer!EraseQueue,
   Writer!CloseState, Writer!CloseQueue, Writer!SkipSocket, Writer!PopBuffer,
   Writer!WriteSome, Writer!WriteBlocked, Writer!FinishSocket, Writer!CheckRunning,
   Writer!StartScan, Writer!EndScan, Writer!EndCloses, Writer!threadvars

LEMMA PoolClose ==
  ASSUME IOInv, NEW c \in Closer, CloseStep(c)
  PROVE  [Pool!Next]_Pool!poolvars
<1>1. closing[c].fd \in Fd
  BY DEF IOInv, InFd, CloseStep, DelFD, CloseState, CloseReads, CloseTask, CloseMark,
     CloseQueue, CloseFd, AtStage
<1>2. CASE CloseReads(c)
  BY <1>1, <1>2 DEF CloseReads, Pool!Next, Pool!CloseStep, Closable
<1>3. CASE CloseTask(c)
  BY <1>1, <1>3 DEF CloseTask, Pool!Next, Pool!CloseStep, Closable
<1>4. CASE CloseMark(c)
  BY <1>1, <1>4 DEF CloseMark, Pool!Next, Pool!CloseStep, Closable
<1>5. CASE CloseState(c)
  BY <1>5, WriterKeepsRunning, PoolQuiet DEF CloseState, poolall
<1>6. CASE CloseQueue(c)
  BY <1>6, WriterKeepsRunning, PoolQuiet DEF CloseQueue, poolall
<1>7. CASE DelFD(c) \/ CloseFd(c)
  BY <1>7, PoolQuiet DEF DelFD, CloseFd
<1> QED
  BY <1>2, <1>3, <1>4, <1>5, <1>6, <1>7 DEF CloseStep

LEMMA PoolIO ==
  ASSUME IOInv, IOStep
  PROVE  [Pool!Next]_Pool!poolvars
<1>1. CASE \/ TestRunning \/ EpollWait \/ DispatchEvent \/ EndBatch \/ AcceptConnection
           \/ AcceptFails \/ AddFD \/ ReadNothing \/ ReadEnd \/ HandleErr \/ HandleHup
           \/ JoinWriter
  BY <1>1, PoolQuiet DEF TestRunning, EpollWait, DispatchEvent, EndBatch,
     AcceptConnection, AcceptFails, AddFD, ReadNothing, ReadEnd, HandleErr, HandleHup,
     HandleFault, JoinWriter
<1>2. CASE InsertState \/ InsertQueue \/ HandleOut
  BY <1>2, WriterKeepsRunning, PoolQuiet DEF InsertState, InsertQueue, HandleOut, poolall
<1>3. CASE ReadAgain \/ ReadError
  BY <1>3 DEF ReadAgain, ReadError, IOAt, IOInv, InFd, Serving, Pool!Next
<1>4. CASE SignalReaders \/ LeaveRun \/ JoinWorkers
  BY <1>4, PoolQuiet DEF SignalReaders, LeaveRun, JoinWorkers, Pool!Next
<1>5. CASE CloseStep("io")
  BY <1>5, PoolClose DEF Closer
<1> QED
  BY <1>1, <1>2, <1>3, <1>4, <1>5 DEF IOStep

LEMMA PoolStep == IOInv /\ [Next]_hostvars => [Pool!Next]_Pool!poolvars
<1> SUFFICES ASSUME IOInv, [Next]_hostvars PROVE [Pool!Next]_Pool!poolvars
  OBVIOUS
<1>1. CASE UNCHANGED hostvars \/ PeerStep \/ Interrupted
  BY <1>1, PoolQuiet DEF hostvars, PeerStep, Interrupted
<1>2. CASE \E fd \in Fd : SocketDrained(fd)
  BY <1>2, WriterKeepsRunning, PoolQuiet DEF SocketDrained, poolall
<1>3. CASE Stop
  BY <1>3 DEF Stop, Pool!Next
<1>4. ASSUME NEW w \in Worker, WorkerStep(w) \/ SpuriousWakeup(w) PROVE Pool!Next
  BY <1>4 DEF WorkerStep, SpuriousWakeup, Pool!Next
<1>5. CASE \E w \in Worker : Reply(w)
  BY <1>5, WriterKeepsRunning, PoolQuiet DEF Reply, poolall
<1>6. CASE WriterScan
  BY <1>6, WriterKeepsRunning, PoolQuiet DEF WriterScan, poolall
<1>7. CASE \E fd \in Fd : WriteFails(fd) \/ BrokenPipe(fd) \/ WriterCloses(fd)
  BY <1>7, WriterKeepsRunning, PoolQuiet DEF WriteFails, BrokenPipe, WriterCloses, poolall
<1>8. CASE CloseStep("writer")
  BY <1>8, PoolClose DEF Closer
<1> QED
  BY <1>1, <1>2, <1>3, <1>4, <1>5, <1>6, <1>7, <1>8, PoolIO DEF Next, WriterStep

(* The steps of HttpHost are steps that WorkerPool allows: whatever is     *)
(* shown of WorkerPool with its free order of reads and closes holds of    *)
(* the server, where one IO thread and one writer take them.               *)
THEOREM ImplementsPool == SafeSpec => PoolSpec
<1>1. Init => Pool!Init
  BY DEF Init
<1> QED
  BY <1>1, PoolStep, IOInvariant, PTL DEF SafeSpec, PoolSpec, Pool!SafeSpec
-----------------------------------------------------------------------------
(* What changes the state of SocketWriter. *)
LEMMA WriterQuiet == UNCHANGED <<running, writeronly>> => UNCHANGED Writer!writevars
BY DEF writeronly, Writer!writevars, Writer!mapvars, Writer!queuevars, Writer!threadvars

LEMMA PoolKeepsRunning ==
  ASSUME NEW x,
         \/ Pool!PushRead(x) \/ Pool!SignalReaders \/ Pool!CloseStep(x) \/ Pool!WorkerStep(x)
         \/ Pool!SpuriousWakeup(x) \/ Pool!Broadcast \/ Pool!JoinWorkers
  PROVE  UNCHANGED running
<1>1. CASE Pool!WorkerStep(x) \/ Pool!SpuriousWakeup(x)
  BY <1>1 DEF Pool!WorkerStep, Pool!CheckRunning, Pool!WaitForReads, Pool!WakeToNothing,
     Pool!PickBuffer, Pool!FindNoBuffer, Pool!Walked, Pool!StartInput, Pool!FinishInput,
     Pool!LeaveInput, Pool!SpuriousWakeup
<1>2. CASE Pool!CloseStep(x)
  BY <1>2 DEF Pool!CloseStep, Pool!DiscardReads, Pool!DropTask, Pool!Unmark
<1>3. CASE Pool!PushRead(x) \/ Pool!SignalReaders \/ Pool!Broadcast \/ Pool!JoinWorkers
  BY <1>3 DEF Pool!PushRead, Pool!SignalReaders, Pool!Broadcast, Pool!LeaveLoop,
     Pool!JoinWorkers
<1> QED
  BY <1>1, <1>2, <1>3

LEMMA WriterClose ==
  ASSUME IOInv, NEW c \in Closer, CloseStep(c)
  PROVE  [Writer!Next]_Writer!writevars
<1>1. closing[c].fd \in Fd
  BY DEF IOInv, InFd, CloseStep, DelFD, CloseState, CloseReads, CloseTask, CloseMark,
     CloseQueue, CloseFd, AtStage
<1>2. CASE CloseReads(c) \/ CloseTask(c) \/ CloseMark(c)
  BY <1>2, PoolKeepsRunning, WriterQuiet DEF CloseReads, CloseTask, CloseMark,
     Pool!CloseStep
<1>3. CASE DelFD(c) \/ CloseFd(c)
  BY <1>3, WriterQuiet DEF DelFD, CloseFd, poolall
<1>4. CASE CloseState(c)
  BY <1>1, <1>4 DEF CloseState, Closable, Writer!Next, Writer!WriterStep, Writer!Flush
<1>5. CASE CloseQueue(c)
  BY <1>1, <1>5 DEF CloseQueue, Closable, Writer!Next, Writer!WriterStep, Writer!Flush
<1> QED
  BY <1>2, <1>3, <1>4, <1>5 DEF CloseStep

LEMMA WriterIO ==
  ASSUME IOInv, IOStep
  PROVE  [Writer!Next]_Writer!writevars
<1>1. CASE \/ TestRunning \/ EpollWait \/ DispatchEvent \/ EndBatch \/ AcceptConnection
           \/ AcceptFails \/ AddFD \/ ReadNothing \/ ReadEnd \/ HandleErr \/ HandleHup
           \/ JoinWriter
  BY <1>1, WriterQuiet DEF TestRunning, EpollWait, DispatchEvent, EndBatch,
     AcceptConnection, AcceptFails, AddFD, ReadNothing, ReadEnd, HandleErr, HandleHup,
     HandleFault, JoinWriter, poolall
<1>2. CASE InsertState \/ InsertQueue \/ HandleOut
  <2>1. iofd \in Fd
    BY <1>2 DEF InsertState, InsertQueue, HandleOut, IOAt, IOInv, InFd, Serving
  <2> QED
    BY <1>2, <2>1, WriterQuiet DEF InsertState, InsertQueue, HandleOut, Writer!Next
<1>3. CASE ReadAgain \/ ReadError \/ SignalReaders \/ LeaveRun \/ JoinWorkers
  BY <1>3, PoolKeepsRunning, WriterQuiet DEF ReadAgain, ReadError, SignalReaders,
     LeaveRun, JoinWorkers, poolall
<1>4. CASE CloseStep("io")
  BY <1>4, WriterClose DEF Closer
<1> QED
  BY <1>1, <1>2, <1>3, <1>4 DEF IOStep

LEMMA WriterHost ==
  ASSUME IOInv, [Next]_hostvars,
         \A w \in Worker : wpc[w] = "input" => wbuf[w].exdata \in Fd
  PROVE  [Writer!Next]_Writer!writevars
<1>1. CASE UNCHANGED hostvars \/ PeerStep \/ Interrupted
  BY <1>1, WriterQuiet DEF hostvars, PeerStep, Interrupted, poolall
<1>2. CASE \E fd \in Fd : SocketDrained(fd)
  BY <1>2 DEF SocketDrained, Writer!Next
<1>3. CASE Stop
  BY <1>3 DEF Stop, Pool!Stop, Writer!Next, Writer!Stop, writeronly, Writer!mapvars,
     Writer!queuevars
<1>4. CASE \E w \in Worker : WorkerStep(w) \/ SpuriousWakeup(w)
  BY <1>4, PoolKeepsRunning, WriterQuiet DEF WorkerStep, SpuriousWakeup
<1>5. CASE \E w \in Worker : Reply(w)
  BY <1>5 DEF Reply, Writer!Next
<1>6. CASE WriterScan
  BY <1>6 DEF WriterScan, Writer!Next, Writer!WriterStep, Writer!Flush
<1>7. CASE \E fd \in Fd : WriteFails(fd)
  BY <1>7 DEF WriteFails, Writer!Next
<1>8. CASE \E fd \in Fd : BrokenPipe(fd) \/ WriterCloses(fd)
  BY <1>8, WriterQuiet DEF BrokenPipe, WriterCloses, poolall
<1>9. CASE CloseStep("writer")
  BY <1>9, WriterClose DEF Closer
<1> QED
  BY <1>1, <1>2, <1>3, <1>4, <1>5, <1>6, <1>7, <1>8, <1>9, WriterIO DEF Next, WriterStep
-----------------------------------------------------------------------------
(* Pool and PoolProofs are two instances of the same module, and so are    *)
(* Writer and WriterProofs: what is proved in WorkerPoolProofs and         *)
(* SocketWriterProofs can be said of the first.                            *)
LEMMA PoolConstants == Worker # {} /\ Closable \subseteq Fd /\ MaxReads \in Nat
BY HostAssumption DEF Closable

LEMMA SamePool ==
  /\ Pool!Init <=> PoolProofs!Init
  /\ [Pool!Next]_Pool!poolvars <=> [PoolProofs!Next]_PoolProofs!poolvars
<1>1. Pool!Init <=> PoolProofs!Init
  BY DEF Pool!Init, PoolProofs!Init, Pool!NoTask, PoolProofs!NoTask
<1>2. UNCHANGED Pool!poolvars <=> UNCHANGED PoolProofs!poolvars
  BY DEF Pool!poolvars, PoolProofs!poolvars
<1>3. ASSUME NEW fd
      PROVE  /\ Pool!PushRead(fd) <=> PoolProofs!PushRead(fd)
             /\ Pool!CloseStep(fd) <=> PoolProofs!CloseStep(fd)
  BY DEF Pool!PushRead, PoolProofs!PushRead, Pool!CloseStep, PoolProofs!CloseStep,
     Pool!DiscardReads, PoolProofs!DiscardReads, Pool!DropTask, PoolProofs!DropTask,
     Pool!Unmark, PoolProofs!Unmark, Pool!NoTask, PoolProofs!NoTask
<1>4. ASSUME NEW w, NEW label PROVE Pool!GoTo(w, label) <=> PoolProofs!GoTo(w, label)
  BY DEF Pool!GoTo, PoolProofs!GoTo
<1>5. ASSUME NEW w
      PROVE  /\ Pool!WorkerStep(w) <=> PoolProofs!WorkerStep(w)
             /\ Pool!SpuriousWakeup(w) <=> PoolProofs!SpuriousWakeup(w)
  <2>1. Pool!Eligible = PoolProofs!Eligible
    BY DEF Pool!Eligible, PoolProofs!Eligible
  <2>2. Pool!Walked(w) <=> PoolProofs!Walked(w)
    BY DEF Pool!Walked, PoolProofs!Walked
  <2>3. /\ Pool!PickBuffer(w) <=> PoolProofs!PickBuffer(w)
        /\ Pool!FindNoBuffer(w) <=> PoolProofs!FindNoBuffer(w)
    BY <1>4, <2>1, <2>2 DEF Pool!PickBuffer, PoolProofs!PickBuffer, Pool!PickFrom,
       PoolProofs!PickFrom, Pool!FindNoBuffer, PoolProofs!FindNoBuffer
  <2>4. Pool!StartInput(w) <=> PoolProofs!StartInput(w)
    BY <1>4 DEF Pool!StartInput, PoolProofs!StartInput, Pool!NoTask, PoolProofs!NoTask
  <2>5. Pool!FinishInput(w) <=> PoolProofs!FinishInput(w)
    BY <1>4 DEF Pool!FinishInput, PoolProofs!FinishInput, Pool!LeaveInput,
       PoolProofs!LeaveInput, Pool!NoTask, PoolProofs!NoTask
  <2>6. /\ Pool!CheckRunning(w) <=> PoolProofs!CheckRunning(w)
        /\ Pool!WaitForReads(w) <=> PoolProofs!WaitForReads(w)
        /\ Pool!WakeToNothing(w) <=> PoolProofs!WakeToNothing(w)
        /\ Pool!SpuriousWakeup(w) <=> PoolProofs!SpuriousWakeup(w)
    BY <1>4 DEF Pool!CheckRunning, PoolProofs!CheckRunning, Pool!WaitForReads,
       PoolProofs!WaitForReads, Pool!WakeToNothing, PoolProofs!WakeToNothing,
       Pool!SpuriousWakeup, PoolProofs!SpuriousWakeup
  <2> QED
    BY <2>3, <2>4, <2>5, <2>6 DEF Pool!WorkerStep, PoolProofs!WorkerStep
<1>6. /\ Pool!SignalReaders <=> PoolProofs!SignalReaders
      /\ Pool!Stop <=> PoolProofs!Stop
      /\ Pool!Broadcast <=> PoolProofs!Broadcast
      /\ Pool!JoinWorkers <=> PoolProofs!JoinWorkers
  BY <1>4 DEF Pool!SignalReaders, PoolProofs!SignalReaders, Pool!Stop, PoolProofs!Stop,
     Pool!Broadcast, PoolProofs!Broadcast, Pool!LeaveLoop, PoolProofs!LeaveLoop,
     Pool!JoinWorkers, PoolProofs!JoinWorkers
<1>7. Pool!Next <=> PoolProofs!Next
  BY <1>3, <1>5, <1>6 DEF Pool!Next, PoolProofs!Next
<1> QED
  BY <1>1, <1>2, <1>7

(* What was proved of WorkerPool alone holds of the workers in the server: *)
(* every mark has its owner, no wakeup is lost, reads are handed out in    *)
(* order and once, and the shutdown misses nobody but those that missed    *)
(* the broadcast.                                                          *)
THEOREM PoolInHost ==
  SafeSpec => [](Pool!TypeOK /\ Pool!NoOrphanMark /\ Pool!NoLostWakeup /\ Pool!InOrderOnce
                 /\ Pool!OnlyMissedWait)
<1>1. PoolSpec => PoolProofs!SafeSpec
  BY SamePool, PTL DEF PoolSpec, Pool!SafeSpec, PoolProofs!SafeSpec
<1>2. PoolProofs!SafeSpec => []PoolProofs!TypeOK
  BY PoolConstants, PoolProofs!TypeCorrect
<1>3. PoolProofs!SafeSpec => []PoolProofs!NoOrphanMark
  BY PoolConstants, PoolProofs!MarksOwned
<1>4. PoolProofs!SafeSpec => []PoolProofs!NoLostWakeup
  BY PoolConstants, PoolProofs!NoWakeupLost
<1>5. PoolProofs!SafeSpec => []PoolProofs!InOrderOnce
  BY PoolConstants, PoolProofs!ReadsInOrderOnce
<1>6. PoolProofs!SafeSpec => []PoolProofs!OnlyMissedWait
  BY PoolConstants, PoolProofs!ShutdownReachesTheRest
<1>7. PoolProofs!TypeOK => Pool!TypeOK
  BY DEF PoolProofs!TypeOK, Pool!TypeOK, PoolProofs!Buffer, Pool!Buffer, PoolProofs!Task,
     Pool!Task, PoolProofs!WorkerPC, Pool!WorkerPC, PoolProofs!Holding, Pool!Holding
<1>8. PoolProofs!NoOrphanMark => Pool!NoOrphanMark
  BY DEF PoolProofs!NoOrphanMark, Pool!NoOrphanMark
<1>9. PoolProofs!NoLostWakeup => Pool!NoLostWakeup
  BY DEF PoolProofs!NoLostWakeup, Pool!NoLostWakeup
<1>10. PoolProofs!InOrderOnce => Pool!InOrderOnce
  BY DEF PoolProofs!InOrderOnce, Pool!InOrderOnce, PoolProofs!TakenInOrder,
     Pool!TakenInOrder, PoolProofs!HandedOutOnce, Pool!HandedOutOnce, PoolProofs!Holding,
     Pool!Holding
<1>11. PoolProofs!OnlyMissedWait => Pool!OnlyMissedWait
  BY DEF PoolProofs!OnlyMissedWait, Pool!OnlyMissedWait
<1> QED
  BY ImplementsPool, <1>1, <1>2, <1>3, <1>4, <1>5, <1>6, <1>7, <1>8, <1>9, <1>10, <1>11,
     PTL

(* Every step of the server is one that SocketWriter allows.               *)
THEOREM ImplementsWriter == SafeSpec => WriterSpec
<1>1. Init => Writer!Init
  BY DEF Init
<1>2. Pool!TypeOK => \A w \in Worker : wpc[w] = "input" => wbuf[w].exdata \in Fd
  BY DEF Pool!TypeOK, Pool!Holding, Pool!Buffer
<1> QED
  BY <1>1, <1>2, WriterHost, IOInvariant, PoolInHost, PTL DEF SafeSpec, WriterSpec,
     Writer!SafeSpec

LEMMA WriterConstants ==
  /\ Fd \subseteq Nat /\ Closable \subseteq Fd
  /\ BufLen \in Nat \ {0} /\ SockBuf \in Nat \ {0} /\ MaxBytes \in Nat
BY HostAssumption DEF Closable

LEMMA SameWriter ==
  /\ Writer!Init <=> WriterProofs!Init
  /\ [Writer!Next]_Writer!writevars <=> [WriterProofs!Next]_WriterProofs!writevars
<1> USE DEF Writer!mapvars, WriterProofs!mapvars, Writer!queuevars, WriterProofs!queuevars,
            Writer!threadvars, WriterProofs!threadvars, Writer!Unlocked, WriterProofs!Unlocked
<1>1. Writer!Init <=> WriterProofs!Init
  BY DEF Writer!Init, WriterProofs!Init
<1>2. UNCHANGED Writer!writevars <=> UNCHANGED WriterProofs!writevars
  BY DEF Writer!writevars, WriterProofs!writevars
<1>3. ASSUME NEW fd
      PROVE  /\ Writer!InsertState(fd) <=> WriterProofs!InsertState(fd)
             /\ Writer!InsertQueue(fd) <=> WriterProofs!InsertQueue(fd)
             /\ Writer!SetWritable(fd) <=> WriterProofs!SetWritable(fd)
             /\ Writer!AddWriteQueue(fd) <=> WriterProofs!AddWriteQueue(fd)
             /\ Writer!SetCloseAfterSendAll(fd) <=> WriterProofs!SetCloseAfterSendAll(fd)
             /\ Writer!Drain(fd) <=> WriterProofs!Drain(fd)
  BY DEF Writer!InsertState, WriterProofs!InsertState, Writer!InsertQueue,
     WriterProofs!InsertQueue, Writer!SetWritable, WriterProofs!SetWritable,
     Writer!AddWriteQueue, WriterProofs!AddWriteQueue, Writer!Push, WriterProofs!Push,
     Writer!SetCloseAfterSendAll, WriterProofs!SetCloseAfterSendAll, Writer!Drain,
     WriterProofs!Drain
<1>4. ASSUME NEW fd
      PROVE  /\ Writer!EraseState(fd) <=> WriterProofs!EraseState(fd)
             /\ Writer!EraseQueue(fd) <=> WriterProofs!EraseQueue(fd)
             /\ Writer!CloseState(fd) <=> WriterProofs!CloseState(fd)
             /\ Writer!CloseQueue(fd) <=> WriterProofs!CloseQueue(fd)
  BY DEF Writer!EraseState, WriterProofs!EraseState, Writer!EraseQueue,
     WriterProofs!EraseQueue, Writer!CloseState, WriterProofs!CloseState,
     Writer!CloseQueue, WriterProofs!CloseQueue, Writer!RemoveState,
     WriterProofs!RemoveState, Writer!RemoveQueue, WriterProofs!RemoveQueue,
     Writer!Closing, WriterProofs!Closing
<1>5. ASSUME NEW fd
      PROVE  /\ Writer!Flushing(fd) <=> WriterProofs!Flushing(fd)
             /\ Writer!At(fd) <=> WriterProofs!At(fd)
             /\ Writer!Writing(fd) <=> WriterProofs!Writing(fd)
             /\ Writer!NowBuf(fd) = WriterProofs!NowBuf(fd)
             /\ Writer!Remaining(fd) = WriterProofs!Remaining(fd)
             /\ Writer!Pass(fd) <=> WriterProofs!Pass(fd)
  BY DEF Writer!Flushing, WriterProofs!Flushing, Writer!At, WriterProofs!At,
     Writer!Writing, WriterProofs!Writing, Writer!NowBuf, WriterProofs!NowBuf,
     Writer!Remaining, WriterProofs!Remaining, Writer!Pass, WriterProofs!Pass
<1>6. ASSUME NEW fd
      PROVE  /\ Writer!SkipSocket(fd) <=> WriterProofs!SkipSocket(fd)
             /\ Writer!PopBuffer(fd) <=> WriterProofs!PopBuffer(fd)
             /\ Writer!WriteBlocked(fd) <=> WriterProofs!WriteBlocked(fd)
             /\ Writer!WriteFails(fd) <=> WriterProofs!WriteFails(fd)
             /\ Writer!FinishSocket(fd) <=> WriterProofs!FinishSocket(fd)
  BY <1>5 DEF Writer!SkipSocket, WriterProofs!SkipSocket, Writer!PopBuffer,
     WriterProofs!PopBuffer, Writer!WriteBlocked, WriterProofs!WriteBlocked,
     Writer!WriteFails, WriterProofs!WriteFails, Writer!FinishSocket,
     WriterProofs!FinishSocket
<1>7. ASSUME NEW fd PROVE Writer!WriteSome(fd) <=> WriterProofs!WriteSome(fd)
  BY <1>5 DEF Writer!WriteSome, WriterProofs!WriteSome
<1>8. /\ Writer!CheckRunning <=> WriterProofs!CheckRunning
      /\ Writer!StartScan <=> WriterProofs!StartScan
      /\ Writer!EndScan <=> WriterProofs!EndScan
      /\ Writer!EndCloses <=> WriterProofs!EndCloses
      /\ Writer!Stop <=> WriterProofs!Stop
  BY DEF Writer!CheckRunning, WriterProofs!CheckRunning, Writer!StartScan,
     WriterProofs!StartScan, Writer!EndScan, WriterProofs!EndScan, Writer!EndCloses,
     WriterProofs!EndCloses, Writer!Stop, WriterProofs!Stop
<1>9. Writer!WriterStep <=> WriterProofs!WriterStep
  BY <1>4, <1>6, <1>7, <1>8 DEF Writer!WriterStep, WriterProofs!WriterStep, Writer!Flush,
     WriterProofs!Flush
<1>10. Writer!Next <=> WriterProofs!Next
  BY <1>3, <1>4, <1>6, <1>8, <1>9 DEF Writer!Next, WriterProofs!Next
<1> QED
  BY <1>1, <1>2, <1>10

(* What was proved of SocketWriter alone holds in the server: the bytes of *)
(* a queue are sent in order and without a gap, and a socket that is       *)
(* closed after the last byte has sent them all.                           *)
THEOREM WriterInHost ==
  SafeSpec => [](Writer!TypeOK /\ Writer!SentInOrder /\ Writer!CloseWhenAllSent)
<1>1. WriterSpec => WriterProofs!SafeSpec
  BY SameWriter, PTL DEF WriterSpec, Writer!SafeSpec, WriterProofs!SafeSpec
<1>2. WriterProofs!SafeSpec => []WriterProofs!TypeOK
  BY WriterConstants, WriterProofs!TypeCorrect
<1>3. WriterProofs!SafeSpec => []WriterProofs!SentInOrder
  BY WriterConstants, WriterProofs!SentInOrderAlways
<1>4. WriterProofs!SafeSpec => []WriterProofs!CloseWhenAllSent
  BY WriterConstants, WriterProofs!CloseWhenAllSentAlways
<1>5. WriterProofs!TypeOK => Writer!TypeOK
  BY DEF WriterProofs!TypeOK, Writer!TypeOK, WriterProofs!Buffer, Writer!Buffer,
     WriterProofs!SocketState, Writer!SocketState
<1>6. WriterProofs!SentInOrder => Writer!SentInOrder
  BY DEF WriterProofs!SentInOrder, Writer!SentInOrder
<1>7. WriterProofs!CloseWhenAllSent => Writer!CloseWhenAllSent
  BY DEF WriterProofs!CloseWhenAllSent, Writer!CloseWhenAllSent
<1> QED
  BY ImplementsWriter, <1>1, <1>2, <1>3, <1>4, <1>5, <1>6, <1>7, PTL

(* The variables of the server keep their types, whatever the threads, the *)
(* kernel and the peers do.                                                *)
THEOREM TypeCorrect == SafeSpec => []TypeOK
<1>1. IOInv /\ Pool!TypeOK /\ Writer!TypeOK => TypeOK
  BY DEF IOInv, LoopType, KernelType, TypeOK, Label, EventSet
<1> QED
  BY <1>1, IOInvariant, PoolInHost, WriterInHost, PTL
-----------------------------------------------------------------------------
(* NoStrandedInput is not inductive: it says nothing of a connection       *)
(* without news.  An open connection is watched by epoll until closesocket *)
(* or before AddFD, what epoll watches is in fdmap, so that its events are *)
(* dispatched, and no event is left over when epoll_wait is called.        *)
News(fd) == inbox[conn[fd]] > 0 \/ peer[conn[fd]] # "open"
Watching ==
  \A fd \in Fd :
    Alive /\ conn[fd] # NoConn
      => \/ fd \in watched
         \/ iofd = fd /\ iopc = "addfd"
         \/ IsClosing(fd)
Dispatched == iopc \in {"check", "poll", "left", "returned"} => batch = {}
OnItsWay(fd) ==
  Alive /\ conn[fd] # NoConn /\ News(fd)
    => \/ fd \in ready
       \/ \E e \in batch : e.fd = fd /\ "in" \in e.events
       \/ iofd = fd /\ iopc \in {"addfd", "read"}
       \/ IsClosing(fd)
EdgeInv == Watching /\ Dispatched /\ watched \subseteq fdmap /\ \A fd \in Fd : OnItsWay(fd)

LEMMA InitEdge == Init => EdgeInv
BY DEF Init, EdgeInv, Watching, Dispatched, OnItsWay

LEMMA QuietEdge ==
  ASSUME EdgeInv, UNCHANGED <<iopc, loopvars, fdmap, closing, kernelvars>>
  PROVE  EdgeInv'
BY DEF EdgeInv, Watching, Dispatched, OnItsWay, News, IsClosing, Alive, loopvars,
   kernelvars

(* Something happens to connection c only. *)
LEMMA NewsEdge ==
  ASSUME EdgeInv, Alive, NEW c \in Conn, Notify(c),
         \A d \in Conn \ {c} : inbox'[d] = inbox[d] /\ peer'[d] = peer[d],
         conn \in [Fd -> Conn \cup {NoConn}],
         UNCHANGED <<iopc, loopvars, fdmap, closing, conn, watched>>
  PROVE  EdgeInv'
<1>1. Watching' /\ Dispatched' /\ (watched \subseteq fdmap)'
  BY DEF EdgeInv, Watching, Dispatched, IsClosing, Alive, loopvars
<1>2. ASSUME NEW fd \in Fd PROVE OnItsWay(fd)'
  <2>1. CASE conn[fd] = c
    BY <2>1 DEF EdgeInv, Watching, Notify, OnItsWay, IsClosing, Alive, loopvars
  <2>2. CASE conn[fd] \in Conn \ {c}
    BY <2>2 DEF EdgeInv, Notify, OnItsWay, News, IsClosing, Alive, loopvars
  <2>3. CASE conn[fd] = NoConn
    BY <2>3 DEF OnItsWay
  <2> QED
    BY <2>1, <2>2, <2>3
<1> QED
  BY <1>1, <1>2 DEF EdgeInv

LEMMA PeerEdge ==
  ASSUME IOInv, EdgeInv, PeerStep
  PROVE  EdgeInv'
<1>1. Alive /\ UNCHANGED <<iopc, loopvars, fdmap, closing>>
  BY DEF PeerStep
<1>2. ASSUME Connect PROVE EdgeInv'
  BY <1>1, <1>2 DEF Connect, EdgeInv, Watching, Dispatched, OnItsWay, News, IsClosing,
     Alive, loopvars
<1>3. ASSUME NEW c \in Conn, SendData(c) \/ Finish(c) \/ Reset(c) PROVE EdgeInv'
  <2>1. /\ Notify(c)
        /\ \A d \in Conn \ {c} : inbox'[d] = inbox[d] /\ peer'[d] = peer[d]
        /\ UNCHANGED <<conn, watched>>
    BY <1>3 DEF SendData, Finish, Reset, IOInv, KernelType
  <2> QED
    BY <1>1, <2>1, NewsEdge DEF IOInv, KernelType
<1>4. Resettable \subseteq Conn
  BY HostAssumption DEF Conn
<1> QED
  BY <1>2, <1>3, <1>4 DEF PeerStep

LEMMA CloseEdge ==
  ASSUME IOInv, EdgeInv, NEW c \in Closer, CloseStep(c)
  PROVE  EdgeInv'
<1>1. Alive /\ closing[c].stage # "idle"
  BY DEF CloseStep, DelFD, CloseState, CloseReads, CloseTask, CloseMark, CloseQueue,
     CloseFd, AtStage
<1>2. /\ UNCHANGED <<iopc, loopvars>>
      /\ \E next \in CloseStage : closing' = [closing EXCEPT ![c].stage = next]
  BY DEF CloseStep, DelFD, CloseState, CloseReads, CloseTask, CloseMark, CloseQueue,
     CloseFd, AtStage, CloseStage
<1>3. \A d \in Closer : /\ closing'[d].fd = closing[d].fd
                        /\ d # c => closing'[d].stage = closing[d].stage
  BY <1>2 DEF IOInv, LoopType
<1>4. ASSUME NEW fd \in Fd \ {closing[c].fd} PROVE IsClosing(fd) <=> IsClosing(fd)'
  <2>1. ASSUME NEW d \in Closer
        PROVE  closing'[d].stage # "idle" /\ closing'[d].fd = fd
                 <=> closing[d].stage # "idle" /\ closing[d].fd = fd
    BY <1>3
  <2> QED
    BY <2>1 DEF IsClosing
<1>5. CASE CloseFd(c)
  <2>1. conn'[closing[c].fd] = NoConn
    BY <1>1, <1>5 DEF CloseFd, IOInv, InFd, KernelType
  <2>2. \A fd \in Fd \ {closing[c].fd} :
          /\ conn'[fd] = conn[fd]
          /\ fd \in watched <=> fd \in watched'
          /\ fd \in ready <=> fd \in ready'
    BY <1>5 DEF CloseFd, IOInv, KernelType
  <2>3. UNCHANGED <<iopc, loopvars, fdmap, inbox, peer>>
    BY <1>5 DEF CloseFd
  <2>4. Watching'
    BY <1>4, <2>1, <2>2, <2>3 DEF EdgeInv, Watching, Alive, loopvars
  <2>5. \A fd \in Fd : OnItsWay(fd)'
    BY <1>4, <2>1, <2>2, <2>3 DEF EdgeInv, OnItsWay, News, Alive, loopvars
  <2>6. Dispatched' /\ (watched \subseteq fdmap)'
    BY <1>5 DEF CloseFd, EdgeInv, Dispatched, loopvars
  <2> QED
    BY <2>4, <2>5, <2>6 DEF EdgeInv
<1>6. CASE ~CloseFd(c)
  <2>1. closing'[c].stage # "idle"
    <3>1. ASSUME NEW stage, NEW next \in CloseStage \ {"idle"}, AtStage(c, stage, next)
          PROVE closing'[c].stage # "idle"
      BY <3>1 DEF AtStage, IOInv, LoopType
    <3> QED
      BY <1>6, <3>1 DEF CloseStep, DelFD, CloseState, CloseReads, CloseTask, CloseMark,
         CloseQueue, CloseStage
  <2>2. IsClosing(closing[c].fd)'
    BY <1>3, <2>1 DEF IsClosing
  <2>3. /\ watched' \subseteq fdmap'
        /\ \A fd \in Fd \ {closing[c].fd} : /\ fd \in watched <=> fd \in watched'
                                            /\ fd \in ready <=> fd \in ready'
        /\ UNCHANGED <<conn, inbox, peer>>
    BY <1>6 DEF CloseStep, DelFD, CloseState, CloseReads, CloseTask, CloseMark,
       CloseQueue, kernelvars, EdgeInv
  <2> QED
    BY <1>2, <1>4, <2>2, <2>3 DEF EdgeInv, Watching, Dispatched, OnItsWay, News, Alive,
       loopvars
<1> QED
  BY <1>5, <1>6

LEMMA StartCloseEdge ==
  ASSUME IOInv, EdgeInv, NEW c \in Closer, NEW fd \in Fd, StartClose(c, fd),
         closing[c].stage = "idle", UNCHANGED <<loopvars, fdmap, kernelvars>>,
         \/ UNCHANGED iopc
         \/ iofd = fd /\ iopc' \notin {"check", "poll", "left", "returned", "killed"} /\ Alive
  PROVE  EdgeInv'
<1>1. \A d \in Closer : closing'[d] = IF d = c THEN [stage |-> "delfd", fd |-> fd] ELSE closing[d]
  BY DEF IOInv, LoopType, StartClose
<1>2. IsClosing(fd)' /\ \A g \in Fd : IsClosing(g) => IsClosing(g)'
  BY <1>1 DEF IsClosing
<1> QED
  BY <1>2 DEF EdgeInv, Watching, Dispatched, OnItsWay, News, Alive, loopvars, kernelvars

(* The steps of the IO thread that only move its program counter. *)
LEMMA MoveEdge ==
  ASSUME EdgeInv, UNCHANGED <<loopvars, fdmap, closing, kernelvars>>,
         iopc' = "killed" \/ Alive,
         iopc \notin {"addfd", "read"} \/ iopc' = "killed"
           \/ (iopc = "read" /\ ~News(iofd)),
         iopc' \in {"check", "poll", "left", "returned"} => batch = {}
  PROVE  EdgeInv'
BY DEF EdgeInv, Watching, Dispatched, OnItsWay, News, IsClosing, Alive, loopvars,
   kernelvars

LEMMA IOEdge ==
  ASSUME IOInv, EdgeInv, IOStep
  PROVE  EdgeInv'
<1>1. CASE EpollWait
  <2>1. PICK taken \in SUBSET ready :
          /\ ready' = ready \ taken
          /\ batch' = {[fd |-> fd, events |-> IF fd = Listen THEN {"in"} ELSE Events(fd)] :
                         fd \in taken}
    BY <1>1 DEF EpollWait
  <2>2. /\ iopc = "poll" /\ iopc' = "dispatch"
        /\ UNCHANGED <<iofd, ioevents, fdmap, closing, conn, nconn, arrived, watched, inbox,
                       sent, peer, history>>
    BY <1>1 DEF EpollWait, IOAt
  <2>3. batch = {}
    BY <2>2 DEF EdgeInv, Dispatched
  <2>4. ASSUME NEW fd \in taken, fd \in Fd, News(fd)
        PROVE  \E e \in batch' : e.fd = fd /\ "in" \in e.events
    <3>1. "in" \in Events(fd)
      BY <2>4 DEF Events, News
    <3>2. fd # Listen
      BY <2>4, HostAssumption
    <3>3. [fd |-> fd, events |-> Events(fd)] \in batch'
      BY <2>1, <2>4, <3>2
    <3> QED
      BY <3>1, <3>3
  <2> QED
    BY <2>1, <2>2, <2>3, <2>4 DEF EdgeInv, Watching, Dispatched, OnItsWay, News,
       IsClosing, Alive
<1>2. CASE DispatchEvent
  <2>1. PICK e \in batch :
       /\ batch' = batch \ {e}
       /\ iofd' = e.fd
       /\ ioevents' = e.events
       /\ iopc' = IF e.fd = Listen THEN "accept"
                  ELSE IF e.fd \notin fdmap THEN "dispatch"
                  ELSE IF "in" \in e.events THEN "read" ELSE "out"
    BY <1>2 DEF DispatchEvent
  <2>2. iopc = "dispatch" /\ UNCHANGED <<fdmap, closing, kernelvars>>
    BY <1>2 DEF DispatchEvent
  <2>3. Watching' /\ Dispatched' /\ (watched \subseteq fdmap)'
    BY <2>1, <2>2 DEF EdgeInv, Watching, Dispatched, IsClosing, Alive, kernelvars
  <2>4. ASSUME NEW fd \in Fd, Alive', conn'[fd] # NoConn, News(fd)'
        PROVE  \/ fd \in ready'
               \/ \E d \in batch' : d.fd = fd /\ "in" \in d.events
               \/ iofd' = fd /\ iopc' \in {"addfd", "read"}
               \/ IsClosing(fd)'
    <3>1. /\ fd \in watched \/ IsClosing(fd)
          /\ \/ fd \in ready
             \/ \E d \in batch : d.fd = fd /\ "in" \in d.events
             \/ IsClosing(fd)
      BY <2>2, <2>4 DEF EdgeInv, Watching, OnItsWay, News, Alive, kernelvars
    <3>2. CASE fd \in ready \/ IsClosing(fd)
      BY <2>2, <3>2 DEF IsClosing, kernelvars
    <3>3. ASSUME NEW d \in batch, d.fd = fd, "in" \in d.events, fd \in watched
          PROVE  (\E b \in batch' : b.fd = fd /\ "in" \in b.events)
                   \/ (iofd' = fd /\ iopc' = "read")
      <4>1. fd \in fdmap /\ fd # Listen
        BY <3>3, HostAssumption DEF EdgeInv
      <4> QED
        BY <2>1, <3>3, <4>1
    <3> QED
      BY <3>1, <3>2, <3>3
  <2> QED
    BY <2>3, <2>4 DEF EdgeInv, OnItsWay
<1>3. CASE AcceptConnection
  <2>1. /\ iopc = "accept" /\ iopc' = "addfd" /\ iofd' \in Fd
        /\ \A fd \in Fd \ {iofd'} : conn'[fd] = conn[fd]
        /\ UNCHANGED <<ioevents, batch, fdmap, closing, watched, ready, inbox, peer>>
    BY <1>3 DEF AcceptConnection, IOAt, IOInv, KernelType
  <2> QED
    BY <2>1 DEF EdgeInv, Watching, Dispatched, OnItsWay, News, IsClosing, Alive
<1>4. CASE AddFD
  <2>1. iopc = "addfd" /\ iofd \in Fd /\ IOFree
    BY <1>4 DEF AddFD, IOInv, InFd, Serving
  <2>2. CASE iopc' = "newstate"
    BY <1>4, <2>1, <2>2 DEF AddFD, EdgeInv, Watching, Dispatched, OnItsWay, News,
       IsClosing, Alive, loopvars
  <2>3. CASE iopc' # "newstate"
    <3>1. StartClose("io", iofd) /\ iopc' = "accept" /\ UNCHANGED <<loopvars, fdmap, kernelvars>>
      BY <1>4, <2>3 DEF AddFD, kernelvars
    <3> QED
      BY <2>1, <3>1, StartCloseEdge DEF Closer, IOFree, Alive
  <2> QED
    BY <2>2, <2>3
<1>5. CASE ReadAgain
  <2>1. /\ iopc = "read" /\ iopc' = "read"
        /\ conn[iofd] \in Conn /\ inbox[conn[iofd]] > 0
        /\ \A d \in Conn \ {conn[iofd]} : inbox'[d] = inbox[d]
        /\ UNCHANGED <<loopvars, fdmap, closing, conn, watched, ready, peer>>
    BY <1>5 DEF ReadAgain, IOAt, IOInv, InFd, Serving, KernelType
  <2>2. \A d \in Conn : inbox'[d] > 0 => inbox[d] > 0
    BY <2>1
  <2>3. conn \in [Fd -> Conn \cup {NoConn}]
    BY DEF IOInv, KernelType
  <2> QED
    BY <2>1, <2>2, <2>3 DEF EdgeInv, Watching, Dispatched, OnItsWay, News, IsClosing,
       Alive, loopvars
<1>6. CASE ReadError
  <2>1. /\ iopc = "read" /\ iopc' = "read"
        /\ UNCHANGED <<loopvars, fdmap, closing, conn, watched, ready, inbox>>
        /\ \A d \in Conn : peer'[d] # "open" => peer[d] # "open"
    BY <1>6 DEF ReadError, IOAt, IOInv, InFd, Serving, KernelType
  <2>2. conn \in [Fd -> Conn \cup {NoConn}]
    BY DEF IOInv, KernelType
  <2> QED
    BY <2>1, <2>2 DEF EdgeInv, Watching, Dispatched, OnItsWay, News, IsClosing, Alive,
       loopvars
<1>7. CASE ReadEnd
  <2>1. /\ iofd \in Fd /\ IOFree
        /\ StartClose("io", iofd)
        /\ iopc = "read" /\ iopc' = "signal"
        /\ UNCHANGED <<loopvars, fdmap, kernelvars>>
    BY <1>7 DEF ReadEnd, IOAt, IOInv, InFd, Serving
  <2> QED
    BY <2>1, StartCloseEdge DEF Closer, IOFree, Alive
<1>8. CASE HandleErr \/ HandleHup
  <2>1. /\ iofd \in Fd /\ IOFree
        /\ StartClose("io", iofd) \/ UNCHANGED closing
        /\ iopc \in {"err", "hup"} /\ iopc' \in {"hup", "dispatch"}
        /\ UNCHANGED <<loopvars, fdmap, kernelvars>>
    BY <1>8 DEF HandleErr, HandleHup, HandleFault, IOAt, IOInv, InFd, Serving
  <2>2. CASE StartClose("io", iofd)
    BY <2>1, <2>2, StartCloseEdge DEF Closer, IOFree, Alive
  <2>3. CASE UNCHANGED closing
    BY <2>1, <2>3, MoveEdge DEF Alive
  <2> QED
    BY <2>1, <2>2, <2>3
<1>9. CASE CloseStep("io")
  BY <1>9, CloseEdge DEF Closer
<1>10. CASE LeaveRun
  <2>1. /\ iopc = "check" /\ iopc' = "left"
        /\ \A fd \in Fd : fd \in ready => fd \in ready'
        /\ UNCHANGED <<loopvars, fdmap, closing, conn, watched, inbox, peer>>
    BY <1>10, HostAssumption DEF LeaveRun, IOAt
  <2> QED
    BY <2>1 DEF EdgeInv, Watching, Dispatched, OnItsWay, News, IsClosing, Alive, loopvars
<1>11. CASE ReadNothing
  <2>1. /\ iopc = "read" /\ iopc' = "signal" /\ ~News(iofd)
        /\ UNCHANGED <<loopvars, fdmap, closing, kernelvars>>
    BY <1>11 DEF ReadNothing, IOAt, News, IOInv, InFd, Serving, KernelType
  <2> QED
    BY <2>1, MoveEdge DEF Alive
<1>12. CASE \/ TestRunning \/ EndBatch \/ AcceptFails \/ InsertState \/ InsertQueue
            \/ SignalReaders \/ HandleOut \/ JoinWriter
  <2>1. /\ iopc \notin {"addfd", "read"} /\ Alive
        /\ iopc' \in {"check", "poll", "left", "returned"} => batch = {}
        /\ UNCHANGED <<loopvars, fdmap, closing, kernelvars>>
    BY <1>12 DEF TestRunning, EndBatch, AcceptFails, InsertState, InsertQueue,
       SignalReaders, HandleOut, JoinWriter, IOAt, Alive, EdgeInv, Dispatched
  <2> QED
    BY <2>1, MoveEdge
<1>13. CASE JoinWorkers
  BY <1>13, QuietEdge DEF JoinWorkers, iovars
<1> QED
  BY <1>1, <1>2, <1>3, <1>4, <1>5, <1>6, <1>7, <1>8, <1>9, <1>10, <1>11, <1>12, <1>13 DEF
     IOStep

LEMMA WriterEdge ==
  ASSUME IOInv, EdgeInv, WriterStep
  PROVE  EdgeInv'
<1>1. CASE WriterScan
  BY <1>1, QuietEdge DEF WriterScan, iovars
<1>2. ASSUME NEW fd \in Fd, WriteFails(fd) PROVE EdgeInv'
  <2>1. /\ UNCHANGED <<iopc, loopvars, fdmap, closing, conn, watched, ready, inbox>>
        /\ \A d \in Conn : peer'[d] # "open" => peer[d] # "open"
    BY <1>2 DEF WriteFails, IOInv, KernelType
  <2>2. conn \in [Fd -> Conn \cup {NoConn}]
    BY DEF IOInv, KernelType
  <2> QED
    BY <2>1, <2>2 DEF EdgeInv, Watching, Dispatched, OnItsWay, News, IsClosing, Alive,
       loopvars
<1>3. CASE \E fd \in Fd : BrokenPipe(fd)
  BY <1>3, MoveEdge DEF BrokenPipe
<1>4. ASSUME NEW fd \in Fd, WriterCloses(fd) PROVE EdgeInv'
  BY <1>4, StartCloseEdge DEF WriterCloses, Closer
<1>5. CASE CloseStep("writer")
  BY <1>5, CloseEdge DEF Closer
<1> QED
  BY <1>1, <1>2, <1>3, <1>4, <1>5 DEF WriterStep

LEMMA EdgeStep == IOInv /\ EdgeInv /\ [Next]_hostvars => EdgeInv'
<1> SUFFICES ASSUME IOInv, EdgeInv, [Next]_hostvars PROVE EdgeInv'
  OBVIOUS
<1>1. UNCHANGED hostvars \/ Stop
          \/ (\E w \in Worker : WorkerStep(w) \/ SpuriousWakeup(w) \/ Reply(w))
        => UNCHANGED iovars
  BY DEF hostvars, Stop, WorkerStep, SpuriousWakeup, Reply
<1>2. CASE UNCHANGED iovars
  BY <1>2, QuietEdge DEF iovars
<1>3. ASSUME NEW fd \in Fd, SocketDrained(fd) PROVE EdgeInv'
  <2>1. conn[fd] \in Conn
    BY <1>3 DEF SocketDrained, IOInv, KernelType
  <2> QED
    BY <1>3, <2>1, NewsEdge DEF SocketDrained, IOInv, KernelType
<1>4. CASE Interrupted
  BY <1>4, MoveEdge DEF Interrupted, IOAt, Alive, EdgeInv, Dispatched
<1> QED
  BY <1>1, <1>2, <1>3, <1>4, PeerEdge, IOEdge, WriterEdge DEF Next

(* Edge-triggered epoll loses nothing: unread data, or the end of the      *)
(* data, of an open connection is always on its way to read().             *)
THEOREM NothingStranded == SafeSpec => []NoStrandedInput
<1>1. EdgeInv => NoStrandedInput
  BY DEF EdgeInv, OnItsWay, News, NoStrandedInput
<1> QED
  BY <1>1, InitEdge, EdgeStep, IOInvariant, PTL DEF SafeSpec
-----------------------------------------------------------------------------
(* Descriptor numbers are reused without mixing connections up, but for    *)
(* the crossed ones.  The invariant says, number by number, where every    *)
(* table stands while the IO thread opens and either thread closes a       *)
(* connection, that only ended connections are being closed, and from      *)
(* which connection the queued buffers were read.                          *)
IOIs(fd, labels) == iofd = fd /\ iopc \in labels
Closes(c, fd, stages) == closing[c].stage \in stages /\ closing[c].fd = fd
Gone(fd, stages) == \E c \in Closer : Closes(c, fd, stages)
AfterReads == {"task", "mark", "queue", "close"}
AfterState == AfterReads \cup {"reads"}
AfterDelFD == AfterState \cup {"state"}
BeforeReads == {"delfd", "state", "reads"}
Opening == {"addfd", "newstate", "newqueue"}
IsOpen(fd) == conn[fd] # NoConn
Ended(fd) == peer[conn[fd]] # "open"
Faults == {"err", "hup"}
Condemned(fd) ==
  \/ fd \in fddead
  \/ closing["writer"].stage # "idle" /\ closing["writer"].fd = fd

Orderly ==
  /\ closeAfterSendAll = {}
  /\ ~IOFree => iopc \in {"accept", "signal", "hup", "dispatch", "killed"}
  /\ nread <= MaxReads
  /\ \A b \in readdataqueue : b.seq <= nread

TableOK(fd) ==
  /\ fd \in fdmap <=> IsOpen(fd) /\ ~IOIs(fd, {"addfd"}) /\ ~Gone(fd, AfterDelFD)
  /\ fd \in watched <=> fd \in fdmap
  /\ Known(fd) <=> IsOpen(fd) /\ ~IOIs(fd, {"addfd", "newstate"}) /\ ~Gone(fd, AfterState)
  /\ fd \in writequeuemap <=> IsOpen(fd) /\ ~IOIs(fd, Opening) /\ ~Gone(fd, {"close"})

CloseOK(fd) ==
  /\ IOIs(fd, Opening) => IsOpen(fd) /\ ~Condemned(fd)
  /\ Condemned(fd) /\ IsOpen(fd) => Broken(conn[fd])
  /\ closing["io"].stage # "idle" /\ closing["io"].fd = fd /\ IsOpen(fd) => Ended(fd)

EventOK(fd) ==
  IsOpen(fd) =>
    /\ \A e \in batch : e.fd = fd /\ e.events \cap Faults # {} => Ended(fd)
    /\ IOIs(fd, Serving \ Opening) /\ ioevents \cap Faults # {} => Ended(fd)

ReadOK(fd) ==
  \A b \in readdataqueue : b.exdata = fd =>
    /\ IsOpen(fd) => origin[b.seq] \in {conn[fd], NoConn}
    /\ ~IsOpen(fd) => origin[b.seq] = NoConn \/ peer[origin[b.seq]] # "open"
    /\ \/ IOIs(fd, {"read"})
       \/ Closes("io", fd, BeforeReads)
       \/ IsOpen(fd) /\ ~Gone(fd, AfterReads)

NumberOK(fd) == TableOK(fd) /\ CloseOK(fd) /\ EventOK(fd) /\ ReadOK(fd)
Numbers == Alive => \A fd \in Fd \ crossed : NumberOK(fd)
HostType == IOInv /\ Pool!TypeOK /\ Writer!TypeOK

LEMMA InitNumbers == Init => Orderly /\ Numbers
<1> SUFFICES ASSUME Init PROVE Orderly /\ Numbers
  OBVIOUS
<1>1. Orderly
  BY HostAssumption DEF Init, Pool!Init, Writer!Init, Orderly, IOFree, Closer
<1>2. ASSUME NEW fd \in Fd PROVE NumberOK(fd)
  BY <1>2 DEF Init, Pool!Init, Writer!Init, NumberOK, TableOK, CloseOK, EventOK, ReadOK,
     IsOpen, Known, IOIs, Condemned, Closer, Opening, Serving
<1> QED
  BY <1>1, <1>2 DEF Numbers

(* A step that does not serve fd, and neither opens nor closes it. *)
Away(c, fd) == closing[c].stage = "idle" \/ closing[c].fd # fd
StillApart(fd) ==
  /\ \/ UNCHANGED <<iopc, iofd, ioevents>>
     \/ ~IOIs(fd, Serving) /\ ~IOIs(fd, Serving)'
  /\ \/ UNCHANGED closing["io"]
     \/ Away("io", fd) /\ Away("io", fd)'
  /\ \/ UNCHANGED closing["writer"]
     \/ Away("writer", fd) /\ Away("writer", fd)'
     \/ /\ closing["writer"].stage \in {"idle", "delfd"}
        /\ closing'["writer"].stage \in {"idle", "delfd"}
SameEntries(fd) ==
  /\ fd \in fdmap' <=> fd \in fdmap
  /\ fd \in watched' <=> fd \in watched
  /\ Known(fd)' <=> Known(fd)
  /\ fd \in writequeuemap' <=> fd \in writequeuemap
  /\ conn'[fd] = conn[fd]
PeersGoOn ==
  \A c \in Conn : /\ peer[c] # "open" => peer'[c] # "open"
                  /\ Broken(c) => Broken(c)'

LEMMA Frame ==
  ASSUME HostType, Orderly, NEW fd \in Fd, NumberOK(fd),
         StillApart(fd), SameEntries(fd), PeersGoOn,
         \A e \in batch' : e.fd = fd => e \in batch,
         \A b \in readdataqueue' :
           b.exdata = fd => b \in readdataqueue /\ origin'[b.seq] = origin[b.seq],
         Condemned(fd)' =>
           Condemned(fd) \/ (IsOpen(fd) => Broken(conn[fd])' /\ ~IOIs(fd, Opening)')
  PROVE  NumberOK(fd)'
<1>1. ASSUME NEW S, S \in SUBSET Serving PROVE IOIs(fd, S)' <=> IOIs(fd, S)
  BY <1>1 DEF StillApart, IOIs
<1>2. /\ IOIs(fd, {"addfd"})' <=> IOIs(fd, {"addfd"})
      /\ IOIs(fd, {"addfd", "newstate"})' <=> IOIs(fd, {"addfd", "newstate"})
      /\ IOIs(fd, Opening)' <=> IOIs(fd, Opening)
      /\ IOIs(fd, {"read"})' <=> IOIs(fd, {"read"})
      /\ IOIs(fd, Serving \ Opening)' <=> IOIs(fd, Serving \ Opening)
  <2>1. /\ {"addfd"} \in SUBSET Serving /\ {"addfd", "newstate"} \in SUBSET Serving
        /\ Opening \in SUBSET Serving /\ {"read"} \in SUBSET Serving
        /\ Serving \ Opening \in SUBSET Serving
    BY DEF Serving, Opening
  <2> QED
    BY <2>1, <1>1
<1>3. ASSUME NEW S, "idle" \notin S, "delfd" \notin S PROVE Gone(fd, S)' <=> Gone(fd, S)
  BY <1>3 DEF StillApart, Away, Gone, Closes, Closer
<1>4. /\ Gone(fd, AfterDelFD)' <=> Gone(fd, AfterDelFD)
      /\ Gone(fd, AfterState)' <=> Gone(fd, AfterState)
      /\ Gone(fd, AfterReads)' <=> Gone(fd, AfterReads)
      /\ Gone(fd, {"close"})' <=> Gone(fd, {"close"})
  BY <1>3 DEF AfterDelFD, AfterState, AfterReads
<1>5. /\ Closes("io", fd, BeforeReads)' <=> Closes("io", fd, BeforeReads)
      /\ (closing["io"].stage # "idle" /\ closing["io"].fd = fd)'
           <=> (closing["io"].stage # "idle" /\ closing["io"].fd = fd)
  BY DEF StillApart, Away, Closes, BeforeReads
<1>6. IsOpen(fd)' <=> IsOpen(fd)
  BY DEF SameEntries, IsOpen
<1>7. IsOpen(fd) => /\ conn[fd] \in Conn /\ (Ended(fd) => Ended(fd)')
                    /\ Broken(conn[fd]) => Broken(conn[fd])'
  BY DEF IsOpen, HostType, IOInv, KernelType, PeersGoOn, SameEntries, Ended, Broken
<1>8. TableOK(fd)'
  BY <1>2, <1>4, <1>6 DEF NumberOK, TableOK, SameEntries
<1>9. CloseOK(fd)'
  BY <1>2, <1>5, <1>6, <1>7 DEF NumberOK, CloseOK, SameEntries
<1>10. EventOK(fd)'
  <2>1. IOIs(fd, Serving \ Opening) => ioevents' = ioevents
    BY DEF StillApart, IOIs
  <2> QED
    BY <2>1, <1>2, <1>6, <1>7 DEF NumberOK, EventOK
<1>11. ReadOK(fd)'
  <2> SUFFICES ASSUME NEW b \in readdataqueue', b.exdata = fd
               PROVE  /\ IsOpen(fd)' => origin'[b.seq] \in {conn'[fd], NoConn}
                      /\ ~IsOpen(fd)' => origin'[b.seq] = NoConn \/ peer'[origin'[b.seq]] # "open"
                      /\ \/ IOIs(fd, {"read"})'
                         \/ Closes("io", fd, BeforeReads)'
                         \/ IsOpen(fd)' /\ ~Gone(fd, AfterReads)'
    BY DEF ReadOK
  <2>1. b \in readdataqueue /\ origin'[b.seq] = origin[b.seq] /\ conn'[fd] = conn[fd]
    BY DEF SameEntries
  <2>2. b.seq \in 1..MaxReads
    BY <2>1, HostAssumption DEF Orderly, HostType, Pool!TypeOK, Pool!Buffer
  <2>3. origin[b.seq] \in Conn \cup {NoConn}
    BY <2>2 DEF HostType, IOInv, KernelType
  <2> QED
    BY <2>1, <2>3, <1>2, <1>4, <1>5, <1>6 DEF NumberOK, ReadOK, PeersGoOn
<1> QED
  BY <1>8, <1>9, <1>10, <1>11 DEF NumberOK

LEMMA OrderlyStep == HostType /\ Orderly /\ [Next]_hostvars => Orderly'
<1> SUFFICES ASSUME HostType, Orderly, [Next]_hostvars PROVE Orderly'
  OBVIOUS
<1>1. closeAfterSendAll' = {}
  <2>1. CASE UNCHANGED closeAfterSendAll
    BY <2>1 DEF Orderly
  <2>2. CASE \E c \in Closer : CloseState(c) \/ CloseQueue(c)
    BY <2>2 DEF CloseState, CloseQueue, Writer!EraseState, Writer!CloseState,
       Writer!EraseQueue, Writer!CloseQueue, Writer!RemoveQueue, Writer!queuevars, Orderly
  <2>3. CASE InsertState \/ InsertQueue \/ HandleOut
    BY <2>3 DEF InsertState, InsertQueue, HandleOut, Writer!InsertState,
       Writer!InsertQueue, Writer!SetWritable, Writer!queuevars, writeronly, Orderly
  <2>4. CASE WriterScan
    BY <2>4 DEF WriterScan, Writer!CheckRunning, Writer!StartScan, Writer!EndScan,
       Writer!EndCloses, Writer!SkipSocket, Writer!PopBuffer, Writer!WriteSome,
       Writer!WriteBlocked, Writer!FinishSocket, Writer!queuevars, Orderly
  <2>5. CASE \/ UNCHANGED hostvars \/ PeerStep \/ Stop \/ (\E fd \in Fd : SocketDrained(fd))
             \/ (\E w \in Worker : WorkerStep(w) \/ SpuriousWakeup(w) \/ Reply(w))
    BY <2>5 DEF hostvars, writeronly, PeerStep, Stop, SocketDrained, Writer!Drain,
       Writer!queuevars, WorkerStep, SpuriousWakeup, Reply, Writer!AddWriteQueue,
       Writer!Push, Orderly
  <2>6. CASE \E fd \in Fd : WriteFails(fd) \/ BrokenPipe(fd) \/ WriterCloses(fd)
    BY <2>6 DEF WriteFails, BrokenPipe, WriterCloses, Writer!WriteFails,
       Writer!queuevars, writeronly, Orderly
  <2>7. ASSUME NEW c \in Closer,
               DelFD(c) \/ CloseReads(c) \/ CloseTask(c) \/ CloseMark(c) \/ CloseFd(c)
        PROVE  closeAfterSendAll' = {}
    BY <2>7 DEF DelFD, CloseReads, CloseTask, CloseMark, CloseFd, writeronly, Orderly
  <2>8. CASE \/ TestRunning \/ EpollWait \/ DispatchEvent \/ EndBatch \/ AcceptConnection
             \/ AcceptFails \/ AddFD \/ ReadAgain \/ ReadError \/ ReadNothing \/ ReadEnd
             \/ SignalReaders \/ HandleErr \/ HandleHup \/ LeaveRun \/ JoinWorkers
             \/ JoinWriter \/ Interrupted
    BY <2>8 DEF TestRunning, EpollWait, DispatchEvent, EndBatch, AcceptConnection,
       AcceptFails, AddFD, ReadAgain, ReadError, ReadNothing, ReadEnd, SignalReaders,
       HandleErr, HandleHup, HandleFault, LeaveRun, JoinWorkers, JoinWriter, Interrupted,
       writeronly, Orderly
  <2> QED
    BY <2>1, <2>2, <2>3, <2>4, <2>5, <2>6, <2>7, <2>8 DEF Next, IOStep, WriterStep,
       CloseStep, Closer
<1>2. ~IOFree' => iopc' \in {"accept", "signal", "hup", "dispatch", "killed"}
  <2>1. CASE UNCHANGED <<iopc, closing>>
    BY <2>1 DEF Orderly, IOFree
  <2>2. ASSUME NEW c \in Closer, CloseStep(c)
        PROVE  ~IOFree' => iopc' \in {"accept", "signal", "hup", "dispatch", "killed"}
    <3>1. /\ UNCHANGED iopc
          /\ \E next : closing' = [closing EXCEPT ![c].stage = next]
          /\ closing[c].stage # "idle"
      BY <2>2 DEF CloseStep, DelFD, CloseState, CloseReads, CloseTask, CloseMark,
         CloseQueue, CloseFd, AtStage
    <3>2. c = "writer" => closing'["io"] = closing["io"]
      BY <3>1 DEF HostType, IOInv, LoopType, Closer
    <3>3. c = "io" => ~IOFree
      BY <3>1 DEF IOFree
    <3> QED
      BY <3>1, <3>2, <3>3 DEF Closer, IOFree, Orderly
  <2>3. CASE \E fd \in Fd : BrokenPipe(fd)
    BY <2>3 DEF BrokenPipe
  <2>4. ASSUME NEW fd \in Fd, WriterCloses(fd)
        PROVE  ~IOFree' => iopc' \in {"accept", "signal", "hup", "dispatch", "killed"}
    <3>1. closing'["io"] = closing["io"]
      BY <2>4 DEF WriterCloses, StartClose, HostType, IOInv, LoopType, Closer
    <3> QED
      BY <2>4, <3>1 DEF WriterCloses, IOFree, Orderly
  <2>5. CASE \/ TestRunning \/ EpollWait \/ DispatchEvent \/ EndBatch \/ AcceptConnection
             \/ AcceptFails \/ AddFD \/ ReadAgain \/ ReadError \/ ReadNothing \/ ReadEnd
             \/ SignalReaders \/ HandleErr \/ HandleHup \/ LeaveRun
             \/ JoinWriter \/ Interrupted \/ InsertState \/ InsertQueue \/ HandleOut
    BY <2>5 DEF TestRunning, EpollWait, DispatchEvent, EndBatch, AcceptConnection,
       AcceptFails, AddFD, ReadAgain, ReadError, ReadNothing, ReadEnd, SignalReaders,
       HandleErr, HandleHup, HandleFault, LeaveRun, JoinWriter, Interrupted,
       InsertState, InsertQueue, HandleOut, IOAt, IOFree
  <2>6. CASE \/ UNCHANGED hostvars \/ PeerStep \/ Stop \/ (\E fd \in Fd : SocketDrained(fd))
             \/ (\E w \in Worker : WorkerStep(w) \/ SpuriousWakeup(w) \/ Reply(w))
             \/ WriterScan \/ (\E fd \in Fd : WriteFails(fd)) \/ JoinWorkers
    BY <2>6, <2>1 DEF hostvars, iovars, PeerStep, Stop, SocketDrained, WorkerStep,
       SpuriousWakeup, Reply, WriterScan, WriteFails, JoinWorkers
  <2> QED
    BY <2>2, <2>3, <2>4, <2>5, <2>6 DEF Next, IOStep, WriterStep, Closer
<1>3. nread' <= MaxReads /\ \A b \in readdataqueue' : b.seq <= nread'
  <2>1. CASE UNCHANGED nread /\ readdataqueue' \subseteq readdataqueue
    BY <2>1 DEF Orderly
  <2>2. ASSUME NEW fd, Pool!PushRead(fd)
        PROVE  nread' <= MaxReads /\ \A b \in readdataqueue' : b.seq <= nread'
    <3>1. /\ nread < MaxReads /\ nread' = nread + 1 /\ nread \in Nat
          /\ readdataqueue' = readdataqueue \cup {[exdata |-> fd, seq |-> nread']}
      BY <2>2 DEF Pool!PushRead, HostType, Pool!TypeOK
    <3>2. \A b \in readdataqueue : b.seq \in Nat /\ b.seq <= nread
      BY DEF Orderly, HostType, Pool!TypeOK, Pool!Buffer
    <3> QED
      BY <3>1, <3>2, HostAssumption
  <2>3. [Pool!Next]_Pool!poolvars
    BY PoolStep DEF HostType
  <2>4. CASE UNCHANGED Pool!poolvars
    BY <2>4, <2>1 DEF Pool!poolvars
  <2>5. ASSUME NEW w \in Worker, Pool!PickBuffer(w)
        PROVE UNCHANGED nread /\ readdataqueue' \subseteq readdataqueue
    BY <2>5 DEF Pool!PickBuffer, Pool!Walked, Pool!PickFrom
  <2>6. ASSUME NEW w \in Worker,
               \/ Pool!CheckRunning(w) \/ Pool!WaitForReads(w) \/ Pool!WakeToNothing(w)
               \/ Pool!FindNoBuffer(w) \/ Pool!StartInput(w) \/ Pool!FinishInput(w)
               \/ Pool!SpuriousWakeup(w)
        PROVE  UNCHANGED <<nread, readdataqueue>>
    BY <2>6 DEF Pool!CheckRunning, Pool!WaitForReads, Pool!WakeToNothing,
       Pool!FindNoBuffer, Pool!Walked, Pool!StartInput, Pool!FinishInput, Pool!LeaveInput,
       Pool!SpuriousWakeup
  <2>7. ASSUME NEW fd \in Fd, Pool!DiscardReads(fd) \/ Pool!DropTask(fd) \/ Pool!Unmark(fd)
        PROVE  UNCHANGED nread /\ readdataqueue' \subseteq readdataqueue
    BY <2>7 DEF Pool!DiscardReads, Pool!DropTask, Pool!Unmark
  <2>8. CASE Pool!SignalReaders \/ Pool!Stop \/ Pool!Broadcast \/ Pool!JoinWorkers
    BY <2>8, <2>1 DEF Pool!SignalReaders, Pool!Stop, Pool!Broadcast, Pool!LeaveLoop,
       Pool!JoinWorkers
  <2> QED
    BY <2>1, <2>2, <2>3, <2>4, <2>5, <2>6, <2>7, <2>8 DEF Pool!Next, Pool!WorkerStep,
       Pool!CloseStep, Closable
<1> QED
  BY <1>1, <1>2, <1>3 DEF Orderly

(* The steps of the peers, of the workers and of the stop request, and     *)
(* those of the IO thread and the writer that open and close nothing.      *)
LEMMA QuietNumbers ==
  ASSUME HostType, Orderly, NEW fd \in Fd, NumberOK(fd),
         UNCHANGED <<iopc, loopvars, fdmap, closing, conn, watched, origin, writequeuemap>>,
         Known(fd)' <=> Known(fd), PeersGoOn,
         fddead' \subseteq fddead, readdataqueue' \subseteq readdataqueue
  PROVE  NumberOK(fd)'
<1>1. StillApart(fd)
  BY DEF StillApart, loopvars
<1>2. SameEntries(fd)
  BY DEF SameEntries
<1>3. Condemned(fd)' => Condemned(fd)
  BY DEF Condemned
<1>4. UNCHANGED batch
  BY DEF loopvars
<1> QED
  BY <1>1, <1>2, <1>3, <1>4, Frame

LEMMA PeerNumbers ==
  ASSUME HostType, Orderly, NEW fd \in Fd, NumberOK(fd), PeerStep
  PROVE  NumberOK(fd)'
<1>1. /\ UNCHANGED <<poolall, writeronly, iopc, loopvars, fdmap, closing, history, conn, watched>>
  BY DEF PeerStep, Connect, SendData, Finish, Reset
<1>2. PeersGoOn
  BY DEF PeerStep, Connect, SendData, Finish, Reset, PeersGoOn, Broken, HostType, IOInv,
     KernelType
<1> QED
  BY <1>1, <1>2, QuietNumbers DEF poolall, pool, writeronly, Known

LEMMA WorkerNumbers ==
  ASSUME HostType, Orderly, NEW fd \in Fd, NumberOK(fd),
         NEW w \in Worker, WorkerStep(w) \/ SpuriousWakeup(w)
  PROVE  NumberOK(fd)'
<1>1. readdataqueue' \subseteq readdataqueue
  <2>1. CASE Pool!PickBuffer(w)
    BY <2>1 DEF Pool!PickBuffer, Pool!Walked, Pool!PickFrom
  <2>2. CASE \/ Pool!CheckRunning(w) \/ Pool!WaitForReads(w) \/ Pool!WakeToNothing(w)
             \/ Pool!FindNoBuffer(w) \/ Pool!StartInput(w) \/ Pool!FinishInput(w)
             \/ Pool!SpuriousWakeup(w)
    BY <2>2 DEF Pool!CheckRunning, Pool!WaitForReads, Pool!WakeToNothing,
       Pool!FindNoBuffer, Pool!Walked, Pool!StartInput, Pool!FinishInput, Pool!LeaveInput,
       Pool!SpuriousWakeup
  <2> QED
    BY <2>1, <2>2 DEF WorkerStep, SpuriousWakeup, Pool!WorkerStep
<1>2. UNCHANGED <<writeronly, iovars>>
  BY DEF WorkerStep, SpuriousWakeup
<1> QED
  BY <1>1, <1>2, QuietNumbers DEF writeronly, iovars, kernelvars, Known, PeersGoOn, Broken

(* The writer's walk condemns a descriptor only when write() fails.        *)
LEMMA WriterNumbers ==
  ASSUME HostType, Orderly, NEW fd \in Fd, NumberOK(fd),
         WriterScan \/ (\E g \in Fd : WriteFails(g) \/ WriterCloses(g))
  PROVE  NumberOK(fd)'
<1>1. CASE WriterScan
  <2>1. UNCHANGED <<socketstates, writequeuemap>> /\ fddead' \subseteq fddead
    <3>1. CASE Writer!CheckRunning \/ Writer!StartScan \/ Writer!EndScan \/ Writer!EndCloses
      BY <3>1 DEF Writer!CheckRunning, Writer!StartScan, Writer!EndScan, Writer!EndCloses,
         Writer!mapvars, Writer!queuevars
    <3>2. ASSUME NEW g \in Fd,
                 \/ Writer!SkipSocket(g) \/ Writer!PopBuffer(g) \/ Writer!WriteSome(g)
                 \/ Writer!WriteBlocked(g) \/ Writer!FinishSocket(g)
          PROVE  UNCHANGED <<socketstates, writequeuemap>> /\ fddead' \subseteq fddead
      BY <3>2 DEF Writer!SkipSocket, Writer!PopBuffer, Writer!WriteSome,
         Writer!WriteBlocked, Writer!FinishSocket, Writer!mapvars, Writer!queuevars,
         Writer!threadvars, Orderly
    <3> QED
      BY <1>1, <3>1, <3>2 DEF WriterScan
  <2>2. UNCHANGED <<pool, iovars>>
    BY <1>1 DEF WriterScan
  <2> QED
    BY <2>1, <2>2, QuietNumbers DEF pool, iovars, kernelvars, Known, PeersGoOn, Broken
<1>2. ASSUME NEW g \in Fd, WriteFails(g) PROVE NumberOK(fd)'
  <2>1. /\ UNCHANGED <<pool, iopc, loopvars, fdmap, closing, conn, watched, history>>
        /\ conn[g] # NoConn => peer' = [peer EXCEPT ![conn[g]] = "dead"]
        /\ conn[g] = NoConn => UNCHANGED peer
    BY <1>2 DEF WriteFails
  <2>2. /\ fddead' = fddead \cup {g} /\ UNCHANGED writequeuemap
        /\ socketstates' = [socketstates EXCEPT ![g] = "cannotwrite"]
        /\ socketstates[g] = "canwrite" /\ g \in writequeuemap
    BY <1>2 DEF WriteFails, Writer!WriteFails, Writer!Writing, Writer!Flushing,
       Writer!queuevars
  <2>3. PeersGoOn
    BY <2>1 DEF PeersGoOn, Broken, HostType, IOInv, KernelType
  <2>4. SameEntries(fd)
    BY <2>1, <2>2 DEF SameEntries, Known, HostType, Writer!TypeOK
  <2>5. fd = g => Broken(conn[fd])' /\ ~IOIs(fd, Opening)'
    <3>1. ASSUME fd = g PROVE IsOpen(fd) /\ ~IOIs(fd, Opening)
      BY <2>2, <3>1 DEF NumberOK, TableOK
    <3>2. IsOpen(fd) => conn[fd] \in Conn
      BY DEF IsOpen, HostType, IOInv, KernelType
    <3> QED
      BY <2>1, <3>1, <3>2 DEF Broken, IsOpen, IOIs, loopvars, HostType, IOInv, KernelType
  <2>6. Condemned(fd)' =>
          Condemned(fd) \/ (IsOpen(fd) => Broken(conn[fd])' /\ ~IOIs(fd, Opening)')
    BY <2>1, <2>2, <2>5 DEF Condemned
  <2>7. StillApart(fd)
    BY <2>1 DEF StillApart, loopvars
  <2>8. UNCHANGED <<batch, readdataqueue, origin>>
    BY <2>1 DEF loopvars, pool
  <2> QED
    BY <2>3, <2>4, <2>6, <2>7, <2>8, Frame
<1>3. ASSUME NEW g \in Fd, WriterCloses(g) PROVE NumberOK(fd)'
  <2>1. /\ UNCHANGED <<poolall, writeronly, iopc, loopvars, fdmap, kernelvars, history>>
        /\ closing["writer"].stage = "idle" /\ g \in fddead
        /\ closing' = [closing EXCEPT !["writer"] = [stage |-> "delfd", fd |-> g]]
    BY <1>3 DEF WriterCloses, StartClose, Writer!Closing
  <2>2. /\ closing'["writer"] = [stage |-> "delfd", fd |-> g]
        /\ closing'["io"] = closing["io"]
    BY <2>1 DEF HostType, IOInv, LoopType, Closer
  <2>3. StillApart(fd)
    BY <2>1, <2>2 DEF StillApart, loopvars
  <2>4. SameEntries(fd) /\ PeersGoOn
    BY <2>1 DEF SameEntries, PeersGoOn, Broken, kernelvars, writeronly, Known
  <2>5. Condemned(fd)' => Condemned(fd)
    BY <2>1, <2>2 DEF Condemned, writeronly
  <2>6. UNCHANGED <<batch, readdataqueue, origin>>
    BY <2>1 DEF loopvars, poolall, pool
  <2> QED
    BY <2>3, <2>4, <2>5, <2>6, Frame
<1> QED
  BY <1>1, <1>2, <1>3

(* The steps of the IO thread between the connections it serves.           *)
LEMMA LoopNumbers ==
  ASSUME HostType, Orderly, NEW fd \in Fd, NumberOK(fd),
         \/ TestRunning \/ Interrupted \/ EndBatch \/ AcceptFails \/ LeaveRun
         \/ JoinWorkers \/ JoinWriter
  PROVE  NumberOK(fd)'
<1>1. /\ iopc \notin Serving /\ iopc' \notin Serving
      /\ UNCHANGED <<writeronly, loopvars, fdmap, closing, conn, watched, peer, history,
                     readdataqueue>>
  BY DEF TestRunning, Interrupted, EndBatch, AcceptFails, LeaveRun, JoinWorkers,
     JoinWriter, IOAt, Serving, poolall, pool, iovars, kernelvars, Pool!Broadcast,
     Pool!LeaveLoop, Pool!JoinWorkers
<1>2. StillApart(fd)
  BY <1>1 DEF StillApart, IOIs
<1>3. SameEntries(fd) /\ PeersGoOn
  BY <1>1 DEF SameEntries, PeersGoOn, Broken, writeronly, Known
<1>4. UNCHANGED <<batch, readdataqueue, origin>> /\ (Condemned(fd)' <=> Condemned(fd))
  BY <1>1 DEF loopvars, writeronly, Condemned
<1> QED
  BY <1>2, <1>3, <1>4, Frame

(* epoll_wait reports an error or a hangup only of a broken connection.    *)
LEMMA EpollNumbers ==
  ASSUME HostType, Orderly, NEW fd \in Fd, NumberOK(fd), EpollWait
  PROVE  NumberOK(fd)'
<1>1. PICK taken \in SUBSET ready :
        batch' = {[fd |-> g, events |-> IF g = Listen THEN {"in"} ELSE Events(g)] :
                    g \in taken}
  BY DEF EpollWait
<1>2. /\ iopc = "poll" /\ iopc' = "dispatch"
      /\ UNCHANGED <<iofd, ioevents, fdmap, closing, conn, watched, peer, history, poolall,
                     writeronly>>
  BY DEF EpollWait, IOAt
<1>3. ASSUME IsOpen(fd), NEW e \in batch', e.fd = fd, e.events \cap Faults # {}
      PROVE  Ended(fd)
  <2>1. e.events = Events(fd)
    BY <1>1, <1>3, HostAssumption
  <2> QED
    BY <2>1, <1>3 DEF Events, Faults, Broken, Ended
<1>4. UNCHANGED <<readdataqueue, origin>> /\ (Condemned(fd)' <=> Condemned(fd))
  BY <1>2 DEF poolall, pool, writeronly, Condemned
<1>5. ~IOIs(fd, Serving) /\ ~IOIs(fd, Serving)'
  BY <1>2 DEF IOIs, Serving
<1>6. SameEntries(fd)
  BY <1>2 DEF SameEntries, Known, writeronly
<1>7. EventOK(fd)'
  <2>1. ~IOIs(fd, Serving \ Opening)'
    BY <1>5 DEF IOIs
  <2> QED
    BY <2>1, <1>2, <1>3 DEF EventOK, IsOpen, Ended
<1>8. TableOK(fd)' /\ CloseOK(fd)' /\ ReadOK(fd)'
  BY <1>2, <1>4, <1>5, <1>6 DEF NumberOK, TableOK, CloseOK, ReadOK, SameEntries, IOIs,
     Opening, Serving, IsOpen, Gone, Closes, Ended, Broken
<1> QED
  BY <1>7, <1>8 DEF NumberOK

LEMMA DispatchNumbers ==
  ASSUME HostType, Orderly, NEW fd \in Fd, NumberOK(fd), DispatchEvent
  PROVE  NumberOK(fd)'
<1>1. PICK e \in batch :
        /\ batch' = batch \ {e}
        /\ iofd' = e.fd
        /\ ioevents' = e.events
        /\ iopc' = IF e.fd = Listen THEN "accept"
                   ELSE IF e.fd \notin fdmap THEN "dispatch"
                   ELSE IF "in" \in e.events THEN "read" ELSE "out"
  BY DEF DispatchEvent
<1>2. /\ iopc = "dispatch" /\ IOFree
      /\ UNCHANGED <<fdmap, closing, conn, watched, peer, history, poolall, writeronly>>
  BY DEF DispatchEvent, kernelvars
<1>3. iopc' \in {"accept", "dispatch", "read", "out"}
  BY <1>1
<1>4. UNCHANGED <<readdataqueue, origin>> /\ (Condemned(fd)' <=> Condemned(fd))
  BY <1>2 DEF poolall, pool, writeronly, Condemned
<1>5. SameEntries(fd)
  BY <1>2 DEF SameEntries, Known, writeronly
<1>6. EventOK(fd)'
  BY <1>1, <1>2 DEF NumberOK, EventOK, IsOpen, Ended, IOIs
<1>7. TableOK(fd)' /\ CloseOK(fd)'
  BY <1>2, <1>3, <1>4, <1>5 DEF NumberOK, TableOK, CloseOK, SameEntries, IOIs, Opening,
     IsOpen, Gone, Closes, Ended, Broken
<1>8. ReadOK(fd)'
  <2>1. ~IOIs(fd, {"read"}) /\ ~Closes("io", fd, BeforeReads)
    BY <1>2 DEF IOIs, IOFree, Closes, BeforeReads
  <2> QED
    BY <2>1, <1>2, <1>4 DEF NumberOK, ReadOK, IsOpen, Gone, Closes
<1> QED
  BY <1>6, <1>7, <1>8 DEF NumberOK

(* The number that accept gives out was closed: it is in no table, nothing *)
(* is queued under it, and if it is not crossed nothing that is under way  *)
(* is about it.                                                            *)
LEMMA AcceptNumbers ==
  ASSUME HostType, Orderly, NEW fd \in Fd \ crossed', NumberOK(fd), AcceptConnection
  PROVE  NumberOK(fd)'
<1>1. PICK g \in Fd : /\ conn[g] = NoConn
                      /\ conn' = [conn EXCEPT ![g] = nconn']
                      /\ iofd' = g
                      /\ crossed' = IF Pending(g) THEN crossed \cup {g} ELSE crossed
  BY DEF AcceptConnection
<1>2. /\ IOFree /\ iopc = "accept" /\ iopc' = "addfd" /\ nconn' # NoConn
      /\ UNCHANGED <<poolall, writeronly, ioevents, batch, fdmap, closing, watched, peer, origin>>
  BY DEF AcceptConnection, IOAt, HostType, IOInv, KernelType, NoConn
<1>3. UNCHANGED <<readdataqueue, origin>> /\ (Condemned(fd)' <=> Condemned(fd))
  BY <1>2 DEF poolall, pool, writeronly, Condemned
<1>4. CASE fd # g
  <2>1. StillApart(fd)
    BY <1>1, <1>2, <1>4 DEF StillApart, IOIs, Serving
  <2>2. SameEntries(fd) /\ PeersGoOn
    BY <1>1, <1>2, <1>4 DEF SameEntries, Known, PeersGoOn, Broken, writeronly, HostType,
       IOInv, KernelType
  <2> QED
    BY <2>1, <2>2, <1>2, <1>3, Frame
<1>5. CASE fd = g
  <2>1. ~Condemned(fd) /\ \A e \in batch : e.fd # fd
    BY <1>1, <1>5 DEF Pending, Condemned
  <2>2. ~IsOpen(fd) /\ IsOpen(fd)' /\ iofd' = fd
    BY <1>1, <1>2, <1>5 DEF IsOpen, HostType, IOInv, KernelType
  <2>3. \A b \in readdataqueue : b.exdata # fd
    <3>1. ~IOIs(fd, {"read"}) /\ ~Closes("io", fd, BeforeReads)
      BY <1>2 DEF IOIs, IOFree, Closes, BeforeReads
    <3> QED
      BY <3>1, <2>2 DEF NumberOK, ReadOK
  <2>4. IOIs(fd, {"addfd"})' /\ IOIs(fd, {"addfd", "newstate"})' /\ IOIs(fd, Opening)'
        /\ ~IOIs(fd, Serving \ Opening)'
    BY <2>2, <1>2 DEF IOIs, Opening
  <2>5. TableOK(fd)'
    BY <2>2, <2>4, <1>2 DEF NumberOK, TableOK, Known, writeronly
  <2>6. CloseOK(fd)'
    BY <2>1, <2>2, <1>2, <1>3 DEF CloseOK, IOFree
  <2>7. EventOK(fd)' /\ ReadOK(fd)'
    BY <2>1, <2>3, <2>4, <1>2, <1>3 DEF EventOK, ReadOK
  <2> QED
    BY <2>5, <2>6, <2>7 DEF NumberOK
<1> QED
  BY <1>4, <1>5

(* The IO thread puts a connection into the tables, one after the other.   *)
LEMMA OpenNumbers ==
  ASSUME HostType, Orderly, NEW fd \in Fd, NumberOK(fd), AddFD \/ InsertState \/ InsertQueue
  PROVE  NumberOK(fd)'
<1>1. /\ IOFree /\ iopc \in Opening /\ iofd \in Fd /\ UNCHANGED loopvars
      /\ UNCHANGED <<conn, peer, origin>>
  BY DEF AddFD, InsertState, InsertQueue, IOAt, HostType, IOInv, InFd, Serving, Opening,
     kernelvars
<1>2. iofd' = iofd /\ ioevents' = ioevents /\ batch' = batch
  BY <1>1 DEF loopvars
<1>3. closing'["writer"] = closing["writer"]
      /\ (closing' = closing \/ closing'["io"] = [stage |-> "delfd", fd |-> iofd])
  BY DEF AddFD, InsertState, InsertQueue, StartClose, HostType, IOInv, LoopType, Closer
<1>4. UNCHANGED <<readdataqueue, fddead>>
  BY DEF AddFD, InsertState, InsertQueue, Writer!InsertState, Writer!InsertQueue,
     Writer!queuevars, Writer!threadvars, poolall, pool, writeronly
<1>5. Condemned(fd)' <=> Condemned(fd)
  BY <1>3, <1>4 DEF Condemned
<1>6. PeersGoOn
  BY <1>1 DEF PeersGoOn, Broken
<1>7. CASE fd # iofd
  <2>1. StillApart(fd)
    BY <1>1, <1>2, <1>3, <1>7 DEF StillApart, IOIs, Away, IOFree
  <2>2. SameEntries(fd)
    <3>1. CASE AddFD
      BY <3>1, <1>7 DEF AddFD, SameEntries, Known, writeronly
    <3>2. CASE InsertState
      BY <3>2, <1>7 DEF InsertState, Writer!InsertState, SameEntries, Known, writeronly,
         kernelvars, HostType, Writer!TypeOK
    <3>3. CASE InsertQueue
      BY <3>3, <1>7 DEF InsertQueue, Writer!InsertQueue, SameEntries, Known, writeronly,
         kernelvars
    <3> QED
      BY <3>1, <3>2, <3>3
  <2> QED
    BY <2>1, <2>2, <1>1, <1>2, <1>4, <1>5, <1>6, Frame
<1>8. CASE fd = iofd
  <2>1. IsOpen(fd) /\ ~Condemned(fd) /\ (IsOpen(fd)' <=> IsOpen(fd))
    BY <1>1, <1>8 DEF NumberOK, CloseOK, IOIs, IsOpen
  <2>2. /\ closing["io"].stage = "idle"
        /\ \A S : "idle" \notin S => ~Gone(fd, S)
    BY <1>1, <2>1 DEF IOFree, Condemned, Gone, Closes, Closer
  <2>3. /\ ~Gone(fd, AfterDelFD) /\ ~Gone(fd, AfterState) /\ ~Gone(fd, AfterReads)
        /\ ~Gone(fd, {"close"})
    BY <2>2 DEF AfterDelFD, AfterState, AfterReads
  <2>4. /\ closing' = closing
        /\ \/ /\ iopc = "addfd" /\ iopc' = "newstate"
              /\ fd \in fdmap' /\ fd \in watched'
              /\ UNCHANGED <<socketstates, writequeuemap>>
           \/ /\ iopc = "newstate" /\ iopc' = "newqueue"
              /\ UNCHANGED <<fdmap, watched, writequeuemap>> /\ Known(fd)'
           \/ /\ iopc = "newqueue" /\ iopc' = "accept"
              /\ UNCHANGED <<fdmap, watched, socketstates>> /\ fd \in writequeuemap'
    <3>1. CASE AddFD
      <4>1. fd \notin fdmap
        BY <3>1, <1>8 DEF AddFD, NumberOK, TableOK, IOIs
      <4> QED
        BY <3>1, <4>1, <2>1, <1>8 DEF AddFD, IsOpen, writeronly
    <3>2. CASE InsertState
      <4>1. ~Known(fd)
        BY <3>2, <1>8 DEF InsertState, IOAt, NumberOK, TableOK, IOIs
      <4> QED
        BY <3>2, <4>1, <1>8 DEF InsertState, IOAt, Writer!InsertState, Known, kernelvars,
           HostType, Writer!TypeOK
    <3>3. CASE InsertQueue
      <4>1. fd \notin writequeuemap
        BY <3>3, <1>8 DEF InsertQueue, IOAt, NumberOK, TableOK, IOIs, Opening
      <4> QED
        BY <3>3, <4>1, <1>8 DEF InsertQueue, IOAt, Writer!InsertQueue, kernelvars
    <3> QED
      BY <3>1, <3>2, <3>3
  <2>5. \A S : Gone(fd, S)' <=> Gone(fd, S)
    BY <2>4 DEF Gone, Closes
  <2>6. TableOK(fd)'
    <3>1. CASE iopc = "addfd"
      BY <3>1, <2>1, <2>3, <2>4, <2>5, <1>2, <1>8 DEF NumberOK, TableOK, IOIs, Opening, Known
    <3>2. CASE iopc = "newstate"
      BY <3>2, <2>1, <2>3, <2>4, <2>5, <1>2, <1>8 DEF NumberOK, TableOK, IOIs, Opening, Known
    <3>3. CASE iopc = "newqueue"
      BY <3>3, <2>1, <2>3, <2>4, <2>5, <1>2, <1>8 DEF NumberOK, TableOK, IOIs, Opening, Known
    <3> QED
      BY <2>4, <3>1, <3>2, <3>3
  <2>7. CloseOK(fd)'
    BY <2>1, <2>2, <2>4, <1>5 DEF CloseOK
  <2>8. EventOK(fd)'
    <3>1. ~IOIs(fd, Serving \ Opening)'
      BY <2>4 DEF IOIs, Opening, Serving
    <3> QED
      BY <3>1, <2>1, <1>1, <1>2 DEF NumberOK, EventOK, Ended
  <2>9. ReadOK(fd)'
    BY <2>1, <2>3, <2>5, <1>1, <1>4 DEF NumberOK, ReadOK
  <2> QED
    BY <2>6, <2>7, <2>8, <2>9 DEF NumberOK
<1> QED
  BY <1>7, <1>8

(* The IO thread serves a connection.  Its read loop ends without closing  *)
(* only when there is nothing to read on a connection that goes on, which  *)
(* the writer therefore is not closing.                                    *)
LEMMA ServeNumbers ==
  ASSUME HostType, Orderly, NEW fd \in Fd, NumberOK(fd),
         \/ ReadNothing \/ ReadEnd \/ SignalReaders \/ HandleOut \/ HandleErr \/ HandleHup
  PROVE  NumberOK(fd)'
<1>1. /\ IOFree /\ iopc \in Serving \ Opening /\ iofd \in Fd
      /\ iopc' \in {"signal", "out", "err", "hup", "dispatch"}
      /\ UNCHANGED <<loopvars, fdmap, conn, watched, peer, origin>>
  BY DEF ReadNothing, ReadEnd, SignalReaders, HandleOut, HandleErr, HandleHup,
     HandleFault, IOAt, HostType, IOInv, InFd, Serving, Opening, kernelvars
<1>2. iofd' = iofd /\ ioevents' = ioevents /\ batch' = batch
  BY <1>1 DEF loopvars
<1>3. closing'["writer"] = closing["writer"]
      /\ (closing' = closing \/ closing'["io"] = [stage |-> "delfd", fd |-> iofd])
  BY DEF ReadNothing, ReadEnd, SignalReaders, HandleOut, HandleErr, HandleHup,
     HandleFault, StartClose, HostType, IOInv, LoopType, Closer
<1>4. UNCHANGED <<readdataqueue, fddead, writequeuemap>> /\ (Known(fd)' <=> Known(fd))
  <2>1. CASE HandleOut
    BY <2>1 DEF HandleOut, Writer!SetWritable, Writer!queuevars, Writer!threadvars, pool,
       writeronly, Known, HostType, Writer!TypeOK
  <2>2. CASE ReadNothing \/ ReadEnd \/ SignalReaders \/ HandleErr \/ HandleHup
    BY <2>2 DEF ReadNothing, ReadEnd, SignalReaders, HandleErr, HandleHup, HandleFault,
       Pool!SignalReaders, poolall, pool, writeronly, Known
  <2> QED
    BY <2>1, <2>2
<1>5. Condemned(fd)' <=> Condemned(fd)
  BY <1>3, <1>4 DEF Condemned
<1>6. SameEntries(fd) /\ PeersGoOn
  BY <1>1, <1>4 DEF SameEntries, PeersGoOn, Broken
<1>7. CASE fd # iofd
  <2>1. StillApart(fd)
    BY <1>1, <1>2, <1>3, <1>7 DEF StillApart, IOIs, Away, IOFree
  <2> QED
    BY <2>1, <1>1, <1>2, <1>4, <1>5, <1>6, Frame
<1>8. CASE fd = iofd
  <2>1. closing' # closing /\ IsOpen(fd) => Ended(fd)
    <3>1. CASE ReadEnd
      BY <3>1, <1>8 DEF ReadEnd, Ended
    <3>2. CASE HandleErr \/ HandleHup
      <4>1. closing' # closing => ioevents \cap Faults # {}
        BY <3>2 DEF HandleErr, HandleHup, HandleFault, Faults
      <4>2. IOIs(fd, Serving \ Opening)
        BY <1>1, <1>8 DEF IOIs
      <4> QED
        BY <4>1, <4>2 DEF NumberOK, EventOK
    <3>3. CASE ReadNothing \/ SignalReaders \/ HandleOut
      BY <3>3 DEF ReadNothing, SignalReaders, HandleOut
    <3> QED
      BY <3>1, <3>2, <3>3
  <2>2. /\ IsOpen(fd)' <=> IsOpen(fd)
        /\ Ended(fd)' <=> Ended(fd)
        /\ Broken(conn[fd])' <=> Broken(conn[fd])
    BY <1>1 DEF IsOpen, Ended, Broken
  <2>3. ASSUME NEW S, "idle" \notin S, "delfd" \notin S PROVE Gone(fd, S)' <=> Gone(fd, S)
    BY <2>3, <1>1, <1>3 DEF Gone, Closes, Closer, IOFree
  <2>4. /\ Gone(fd, AfterDelFD)' <=> Gone(fd, AfterDelFD)
        /\ Gone(fd, AfterState)' <=> Gone(fd, AfterState)
        /\ Gone(fd, AfterReads)' <=> Gone(fd, AfterReads)
        /\ Gone(fd, {"close"})' <=> Gone(fd, {"close"})
    BY <2>3 DEF AfterDelFD, AfterState, AfterReads
  <2>5. ~IOIs(fd, Opening)' /\ ~IOIs(fd, Opening) /\ IOIs(fd, Serving \ Opening)
    BY <1>1, <1>2, <1>8 DEF IOIs, Opening
  <2>6. TableOK(fd)'
    BY <2>2, <2>4, <1>1, <1>4, <2>5 DEF NumberOK, TableOK, IOIs, Opening
  <2>7. CloseOK(fd)'
    BY <2>1, <2>2, <2>5, <1>1, <1>3, <1>5 DEF NumberOK, CloseOK, IOFree
  <2>8. EventOK(fd)'
    BY <2>2, <2>5, <1>2 DEF NumberOK, EventOK
  <2>9. ReadOK(fd)'
    <3>1. CASE ReadNothing
      <4>1. IsOpen(fd) /\ conn[fd] \in Conn /\ peer[conn[fd]] = "open"
        BY <3>1, <1>8 DEF ReadNothing, IsOpen, HostType, IOInv, KernelType
      <4>2. ~Condemned(fd)
        BY <4>1 DEF NumberOK, CloseOK, Broken
      <4>3. ~Gone(fd, AfterReads)
        BY <4>2, <1>1 DEF Condemned, Gone, Closes, Closer, IOFree, AfterReads
      <4> QED
        BY <4>1, <4>3, <2>2, <2>4, <1>1, <1>4 DEF NumberOK, ReadOK
    <3>2. CASE ReadEnd
      <4>1. closing'["io"].stage = "delfd" /\ closing'["io"].fd = fd
        BY <3>2, <1>8 DEF ReadEnd, StartClose, HostType, IOInv, LoopType, Closer
      <4>2. Closes("io", fd, BeforeReads)'
        BY <4>1 DEF Closes, BeforeReads
      <4> QED
        BY <4>2, <2>2, <1>1, <1>4 DEF NumberOK, ReadOK
    <3>3. CASE SignalReaders \/ HandleOut \/ HandleErr \/ HandleHup
      <4>1. ~IOIs(fd, {"read"}) /\ ~Closes("io", fd, BeforeReads)
        BY <3>3, <1>1 DEF SignalReaders, HandleOut, HandleErr, HandleHup, HandleFault, IOAt,
           IOIs, Closes, BeforeReads, IOFree
      <4> QED
        BY <4>1, <2>2, <2>4, <1>1, <1>4 DEF NumberOK, ReadOK
    <3> QED
      BY <3>1, <3>2, <3>3
  <2> QED
    BY <2>6, <2>7, <2>8, <2>9 DEF NumberOK
<1> QED
  BY <1>7, <1>8

LEMMA ReadNumbers ==
  ASSUME HostType, Orderly, NEW fd \in Fd, NumberOK(fd), ReadAgain \/ ReadError
  PROVE  NumberOK(fd)'
<1>1. /\ IOFree /\ iopc = "read" /\ iopc' = "read" /\ Pool!PushRead(iofd) /\ iofd \in Fd
      /\ origin' = [origin EXCEPT ![nread'] = conn[iofd]]
      /\ UNCHANGED <<writeronly, loopvars, fdmap, closing, conn, watched>>
  BY DEF ReadAgain, ReadError, IOAt, HostType, IOInv, InFd, Serving
<1>2. PeersGoOn
  BY DEF ReadAgain, ReadError, PeersGoOn, Broken, HostType, IOInv, KernelType
<1>3. /\ nread < MaxReads /\ nread' = nread + 1
      /\ readdataqueue' = readdataqueue \cup {[exdata |-> iofd, seq |-> nread']}
  BY <1>1 DEF Pool!PushRead
<1>4. nread \in Nat /\ MaxReads \in Nat /\ nread' \in 1..MaxReads
  BY <1>3, HostAssumption DEF HostType, Pool!TypeOK
<1>5. \A b \in readdataqueue : b.seq \in Nat /\ b.seq # nread'
  BY <1>3, <1>4 DEF Orderly, HostType, Pool!TypeOK, Pool!Buffer
<1>6. origin'[nread'] = conn[iofd] /\ \A n : n # nread' => origin'[n] = origin[n]
  BY <1>1, <1>4 DEF HostType, IOInv, KernelType
<1>7. UNCHANGED <<iopc, iofd, ioevents, batch, fddead>> /\ (Condemned(fd)' <=> Condemned(fd))
  BY <1>1 DEF loopvars, writeronly, Condemned
<1>8. StillApart(fd) /\ SameEntries(fd)
  BY <1>1, <1>7 DEF StillApart, SameEntries, writeronly, Known
<1>9. CASE fd # iofd
  BY <1>2, <1>3, <1>5, <1>6, <1>7, <1>8, <1>9, Frame
<1>10. CASE fd = iofd
  <2>1. IsOpen(fd) => conn[fd] \in Conn
    BY DEF IsOpen, HostType, IOInv, KernelType
  <2>2. TableOK(fd)'
    BY <1>1, <1>7, <1>8 DEF NumberOK, TableOK, SameEntries, IOIs, IsOpen, Gone, Closes
  <2>3. CloseOK(fd)' /\ EventOK(fd)'
    BY <2>1, <1>1, <1>2, <1>7 DEF NumberOK, CloseOK, EventOK, IOIs, IsOpen, Ended, Broken,
       PeersGoOn
  <2>4. ReadOK(fd)'
    <3> SUFFICES ASSUME NEW b \in readdataqueue', b.exdata = fd
                 PROVE  /\ IsOpen(fd)' => origin'[b.seq] \in {conn'[fd], NoConn}
                        /\ ~IsOpen(fd)' => \/ origin'[b.seq] = NoConn
                                           \/ peer'[origin'[b.seq]] # "open"
                        /\ \/ IOIs(fd, {"read"})'
                           \/ Closes("io", fd, BeforeReads)'
                           \/ IsOpen(fd)' /\ ~Gone(fd, AfterReads)'
      BY DEF ReadOK
    <3>1. IOIs(fd, {"read"})'
      BY <1>1, <1>7, <1>10 DEF IOIs
    <3>2. CASE b.seq = nread'
      BY <3>1, <3>2, <1>1, <1>6, <1>10 DEF IsOpen
    <3>3. CASE b.seq # nread'
      <4>1. b \in readdataqueue /\ origin'[b.seq] = origin[b.seq]
        BY <3>3, <1>3, <1>6
      <4>2. b.seq \in 1..MaxReads
        BY <4>1, HostAssumption DEF Orderly, HostType, Pool!TypeOK, Pool!Buffer
      <4>3. origin[b.seq] \in Conn \cup {NoConn}
        BY <4>2 DEF HostType, IOInv, KernelType
      <4> QED
        BY <3>1, <4>1, <4>3, <1>1, <1>2 DEF NumberOK, ReadOK, PeersGoOn, IsOpen
    <3> QED
      BY <3>2, <3>3
  <2> QED
    BY <2>2, <2>3, <2>4 DEF NumberOK
<1> QED
  BY <1>9, <1>10

(* closesocket, by either thread: the tables lose the number first, the    *)
(* kernel's descriptor table last, and in between the queued reads go.     *)
LEMMA CloseFrame ==
  ASSUME HostType, NEW c \in Closer, CloseStep(c)
  PROVE  /\ closing[c].stage # "idle" /\ closing[c].fd \in Fd
         /\ UNCHANGED <<iopc, loopvars, peer, origin>>
         /\ closing'[c].fd = closing[c].fd
         /\ \A d \in Closer : d # c => closing'[d] = closing[d]
         /\ fddead' \subseteq fddead /\ readdataqueue' \subseteq readdataqueue
         /\ \A fd \in Fd : fd # closing[c].fd => SameEntries(fd)
         /\ \A b \in readdataqueue \ readdataqueue' : b.exdata = closing[c].fd /\ CloseReads(c)
<1>1. /\ UNCHANGED <<iopc, loopvars, peer, origin>>
      /\ \E next : closing' = [closing EXCEPT ![c].stage = next]
      /\ closing[c].stage # "idle"
  BY DEF CloseStep, DelFD, CloseState, CloseReads, CloseTask, CloseMark, CloseQueue,
     CloseFd, AtStage, kernelvars
<1>2. closing[c].fd \in Fd
  BY <1>1 DEF HostType, IOInv, InFd
<1>3. closing'[c].fd = closing[c].fd /\ \A d \in Closer : d # c => closing'[d] = closing[d]
  BY <1>1 DEF HostType, IOInv, LoopType
<1>4. fddead' \subseteq fddead
  BY DEF CloseStep, DelFD, CloseState, CloseReads, CloseTask, CloseMark, CloseQueue,
     CloseFd, pool, poolall, writeronly, Writer!EraseState, Writer!CloseState,
     Writer!EraseQueue, Writer!CloseQueue, Writer!threadvars
<1>5. /\ readdataqueue' \subseteq readdataqueue
      /\ \A b \in readdataqueue \ readdataqueue' : b.exdata = closing[c].fd /\ CloseReads(c)
  BY DEF CloseStep, DelFD, CloseState, CloseReads, CloseTask, CloseMark, CloseQueue,
     CloseFd, pool, poolall, Pool!DiscardReads, Pool!DropTask, Pool!Unmark
<1>6. ASSUME NEW fd \in Fd, fd # closing[c].fd PROVE SameEntries(fd)
  <2>1. (fd \in fdmap' <=> fd \in fdmap) /\ (fd \in watched' <=> fd \in watched)
        /\ conn'[fd] = conn[fd]
    BY <1>2, <1>6 DEF CloseStep, DelFD, CloseState, CloseReads, CloseTask, CloseMark,
       CloseQueue, CloseFd, kernelvars, HostType, IOInv, KernelType
  <2>2. (Known(fd)' <=> Known(fd)) /\ (fd \in writequeuemap' <=> fd \in writequeuemap)
    BY <1>2, <1>6 DEF CloseStep, DelFD, CloseState, CloseReads, CloseTask, CloseMark,
       CloseQueue, CloseFd, writeronly, poolall, Writer!EraseState, Writer!CloseState,
       Writer!RemoveState, Writer!EraseQueue, Writer!CloseQueue, Writer!RemoveQueue, Known,
       HostType, Writer!TypeOK
  <2> QED
    BY <2>1, <2>2 DEF SameEntries
<1> QED
  BY <1>1, <1>2, <1>3, <1>4, <1>5, <1>6

(* The stages of closesocket as they bear on the number that is closed.    *)
LEMMA CloseStages ==
  ASSUME HostType, NEW c \in Closer, CloseStep(c), NEW fd, fd = closing[c].fd
  PROVE  \/ /\ closing[c].stage = "delfd" /\ closing'[c].stage = "state"
            /\ fd \notin fdmap' /\ fd \notin watched'
            /\ UNCHANGED <<conn, writequeuemap, socketstates>>
         \/ /\ closing[c].stage = "state" /\ closing'[c].stage = "reads"
            /\ ~Known(fd)' /\ UNCHANGED <<conn, fdmap, watched, writequeuemap>>
         \/ /\ closing[c].stage = "reads" /\ closing'[c].stage = "task"
            /\ \A b \in readdataqueue' : b.exdata # fd
            /\ UNCHANGED <<conn, fdmap, watched, writequeuemap, socketstates>>
         \/ /\ closing[c].stage \in {"task", "mark"} /\ closing'[c].stage \in {"mark", "queue"}
            /\ UNCHANGED <<conn, fdmap, watched, writequeuemap, socketstates>>
         \/ /\ closing[c].stage = "queue" /\ closing'[c].stage = "close"
            /\ fd \notin writequeuemap' /\ UNCHANGED <<conn, fdmap, watched, socketstates>>
         \/ /\ closing[c].stage = "close" /\ closing'[c].stage = "idle"
            /\ ~IsOpen(fd)' /\ fd \notin watched'
            /\ UNCHANGED <<fdmap, writequeuemap, socketstates, readdataqueue>>
<1>1. fd \in Fd
  BY CloseFrame
<1>2. ASSUME NEW stage, NEW next, AtStage(c, stage, next)
      PROVE  closing[c].stage = stage /\ closing'[c].stage = next
  BY <1>2 DEF AtStage, HostType, IOInv, LoopType
<1>3. CASE DelFD(c)
  BY <1>2, <1>3 DEF DelFD, writeronly
<1>4. CASE CloseState(c)
  BY <1>1, <1>2, <1>4 DEF CloseState, Writer!EraseState, Writer!CloseState,
     Writer!RemoveState, Known, kernelvars, HostType, Writer!TypeOK
<1>5. CASE CloseReads(c)
  BY <1>2, <1>5 DEF CloseReads, Pool!DiscardReads, kernelvars, writeronly
<1>6. CASE CloseTask(c) \/ CloseMark(c)
  BY <1>2, <1>6 DEF CloseTask, CloseMark, kernelvars, writeronly
<1>7. CASE CloseQueue(c)
  BY <1>2, <1>7 DEF CloseQueue, Writer!EraseQueue, Writer!CloseQueue,
     Writer!RemoveQueue, kernelvars
<1>8. CASE CloseFd(c)
  BY <1>1, <1>2, <1>8 DEF CloseFd, IsOpen, writeronly, poolall, pool, HostType, IOInv,
     KernelType
<1> QED
  BY <1>3, <1>4, <1>5, <1>6, <1>7, <1>8 DEF CloseStep

LEMMA CloseNumbers ==
  ASSUME HostType, Orderly, NEW fd \in Fd, NumberOK(fd), NEW c \in Closer, CloseStep(c)
  PROVE  NumberOK(fd)'
<1>1. /\ closing[c].stage # "idle" /\ closing[c].fd \in Fd
      /\ UNCHANGED <<iopc, loopvars, peer, origin>>
      /\ closing'[c].fd = closing[c].fd
      /\ \A d \in Closer : d # c => closing'[d] = closing[d]
      /\ fddead' \subseteq fddead /\ readdataqueue' \subseteq readdataqueue
      /\ \A g \in Fd : g # closing[c].fd => SameEntries(g)
  BY CloseFrame
<1>2. UNCHANGED <<iofd, ioevents, batch>>
  BY <1>1 DEF loopvars
<1>3. Condemned(fd)' => Condemned(fd)
  BY <1>1 DEF Condemned, Closer
<1>4. CASE fd # closing[c].fd
  <2>1. StillApart(fd)
    BY <1>1, <1>2, <1>4 DEF StillApart, Away, Closer
  <2>2. SameEntries(fd) /\ PeersGoOn
    BY <1>1, <1>4 DEF PeersGoOn, Broken
  <2> QED
    BY <2>1, <2>2, <1>1, <1>2, <1>3, Frame
<1>5. CASE fd = closing[c].fd
  <2>1. ~IOIs(fd, Opening) /\ (c = "io" => iopc # "read")
    BY <1>1, <1>5 DEF Closer, NumberOK, CloseOK, Condemned, Orderly, IOFree, IOIs, Opening
  <2>2. /\ ~IOIs(fd, Opening)' /\ ~IOIs(fd, {"addfd"})' /\ ~IOIs(fd, {"addfd", "newstate"})'
        /\ ~IOIs(fd, {"addfd"}) /\ ~IOIs(fd, {"addfd", "newstate"})
        /\ IOIs(fd, {"read"})' <=> IOIs(fd, {"read"})
    BY <2>1, <1>1, <1>2 DEF IOIs, Opening
  <2>3. IsOpen(fd) => Ended(fd)
    BY <1>1, <1>5 DEF NumberOK, CloseOK, Condemned, Closer, Broken, Ended
  <2>4. ASSUME NEW S
        PROVE  /\ closing[c].stage \in S => Gone(fd, S)
               /\ closing'[c].stage \in S => Gone(fd, S)'
               /\ closing[c].stage \notin S /\ closing'[c].stage \notin S
                    => (Gone(fd, S)' <=> Gone(fd, S))
    BY <1>1, <1>5 DEF Gone, Closes
  <2> DEFINE Follows(S) ==
        /\ closing[c].stage \in S => Gone(fd, S)
        /\ closing'[c].stage \in S => Gone(fd, S)'
        /\ closing[c].stage \notin S /\ closing'[c].stage \notin S
             => (Gone(fd, S)' <=> Gone(fd, S))
  <2>5. Follows(AfterDelFD) /\ Follows(AfterState) /\ Follows(AfterReads) /\ Follows({"close"})
    BY <2>4
  <2>6. \/ /\ closing[c].stage = "delfd" /\ closing'[c].stage = "state"
           /\ fd \notin fdmap' /\ fd \notin watched'
           /\ UNCHANGED <<conn, writequeuemap, socketstates>>
        \/ /\ closing[c].stage = "state" /\ closing'[c].stage = "reads"
           /\ ~Known(fd)' /\ UNCHANGED <<conn, fdmap, watched, writequeuemap>>
        \/ /\ closing[c].stage = "reads" /\ closing'[c].stage = "task"
           /\ \A b \in readdataqueue' : b.exdata # fd
           /\ UNCHANGED <<conn, fdmap, watched, writequeuemap, socketstates>>
        \/ /\ closing[c].stage \in {"task", "mark"} /\ closing'[c].stage \in {"mark", "queue"}
           /\ UNCHANGED <<conn, fdmap, watched, writequeuemap, socketstates>>
        \/ /\ closing[c].stage = "queue" /\ closing'[c].stage = "close"
           /\ fd \notin writequeuemap' /\ UNCHANGED <<conn, fdmap, watched, socketstates>>
        \/ /\ closing[c].stage = "close" /\ closing'[c].stage = "idle"
           /\ ~IsOpen(fd)' /\ fd \notin watched'
           /\ UNCHANGED <<fdmap, writequeuemap, socketstates, readdataqueue>>
    BY <1>5, CloseStages
  <2>7. IsOpen(fd)' => IsOpen(fd) /\ conn'[fd] = conn[fd]
    BY <2>6 DEF IsOpen
  <2>8. TableOK(fd)'
    <3>1. CASE closing[c].stage = "delfd"
      <4>1. /\ closing[c].stage \notin AfterDelFD /\ closing'[c].stage \in AfterDelFD
            /\ closing[c].stage \notin AfterState /\ closing'[c].stage \notin AfterState
        BY <3>1, <2>6 DEF AfterDelFD, AfterState, AfterReads
      <4> QED
        BY <4>1, <3>1, <2>1, <2>2, <2>5, <2>6 DEF NumberOK, TableOK, IsOpen, Known
    <3>2. CASE closing[c].stage = "state"
      <4>1. /\ closing[c].stage \in AfterDelFD /\ closing'[c].stage \in AfterDelFD
            /\ closing[c].stage \notin AfterState /\ closing'[c].stage \in AfterState
        BY <3>2, <2>6 DEF AfterDelFD, AfterState, AfterReads
      <4> QED
        BY <4>1, <3>2, <2>1, <2>2, <2>5, <2>6 DEF NumberOK, TableOK, IsOpen, Known
    <3>3. CASE closing[c].stage = "reads"
      <4>1. /\ closing[c].stage \in AfterDelFD /\ closing'[c].stage \in AfterDelFD
            /\ closing[c].stage \in AfterState /\ closing'[c].stage \in AfterState
        BY <3>3, <2>6 DEF AfterDelFD, AfterState, AfterReads
      <4> QED
        BY <4>1, <3>3, <2>1, <2>2, <2>5, <2>6 DEF NumberOK, TableOK, IsOpen, Known
    <3>4. CASE closing[c].stage \in {"task", "mark"}
      <4>1. /\ closing[c].stage \in AfterDelFD /\ closing'[c].stage \in AfterDelFD
            /\ closing[c].stage \in AfterState /\ closing'[c].stage \in AfterState
        BY <3>4, <2>6 DEF AfterDelFD, AfterState, AfterReads
      <4> QED
        BY <4>1, <3>4, <2>1, <2>2, <2>5, <2>6 DEF NumberOK, TableOK, IsOpen, Known
    <3>5. CASE closing[c].stage = "queue"
      <4>1. /\ closing[c].stage \in AfterDelFD /\ closing'[c].stage \in AfterDelFD
            /\ closing[c].stage \in AfterState /\ closing'[c].stage \in AfterState
        BY <3>5, <2>6 DEF AfterDelFD, AfterState, AfterReads
      <4> QED
        BY <4>1, <3>5, <2>1, <2>2, <2>5, <2>6 DEF NumberOK, TableOK, IsOpen, Known
    <3>6. CASE closing[c].stage = "close"
      <4>1. /\ closing[c].stage \in AfterDelFD /\ closing'[c].stage \notin AfterDelFD
            /\ closing[c].stage \in AfterState /\ closing'[c].stage \notin AfterState
        BY <3>6, <2>6 DEF AfterDelFD, AfterState, AfterReads
      <4> QED
        BY <4>1, <3>6, <2>1, <2>2, <2>5, <2>6 DEF NumberOK, TableOK, IsOpen, Known
    <3> QED
      BY <2>6, <3>1, <3>2, <3>3, <3>4, <3>5, <3>6
  <2>9. CloseOK(fd)'
    BY <2>2, <2>3, <2>7, <1>1, <1>3 DEF NumberOK, CloseOK, Ended, Broken
  <2>10. EventOK(fd)'
    BY <2>3, <2>7, <1>1 DEF EventOK, Ended
  <2>11. ASSUME NEW b \in readdataqueue', b.exdata = fd
         PROVE  /\ IsOpen(fd)' => origin'[b.seq] \in {conn'[fd], NoConn}
                /\ ~IsOpen(fd)' => origin'[b.seq] = NoConn \/ peer'[origin'[b.seq]] # "open"
                /\ \/ IOIs(fd, {"read"})'
                   \/ Closes("io", fd, BeforeReads)'
                   \/ IsOpen(fd)' /\ ~Gone(fd, AfterReads)'
    <3>1. /\ b \in readdataqueue
          /\ IsOpen(fd) => origin[b.seq] \in {conn[fd], NoConn}
          /\ ~IsOpen(fd) => origin[b.seq] = NoConn \/ peer[origin[b.seq]] # "open"
          /\ \/ IOIs(fd, {"read"})
             \/ Closes("io", fd, BeforeReads)
             \/ IsOpen(fd) /\ ~Gone(fd, AfterReads)
      BY <2>11, <1>1 DEF NumberOK, ReadOK
    <3>2. /\ IsOpen(fd)' => origin'[b.seq] \in {conn'[fd], NoConn}
          /\ ~IsOpen(fd)' => origin'[b.seq] = NoConn \/ peer'[origin'[b.seq]] # "open"
      BY <3>1, <2>3, <2>7, <1>1 DEF Ended
    <3>3. closing'[c].stage # "task"
      BY <2>6, <2>11
    <3>4. CASE c = "io"
      <4>1. ~IOIs(fd, {"read"})
        BY <2>1, <3>4 DEF IOIs
      <4>2. CASE closing["io"].stage \in {"delfd", "state"}
        BY <4>2, <3>4, <2>6, <1>1, <1>5, <3>2 DEF Closes, BeforeReads
      <4>3. CASE closing["io"].stage \notin {"delfd", "state"}
        BY <4>1, <4>3, <3>1, <3>3, <3>4, <2>5, <2>6 DEF Closes, BeforeReads, AfterReads
      <4> QED
        BY <3>2, <4>2, <4>3
    <3>5. CASE c = "writer"
      <4>1. Closes("io", fd, BeforeReads)' <=> Closes("io", fd, BeforeReads)
        BY <3>5, <1>1 DEF Closes, Closer
      <4>2. IsOpen(fd) /\ ~Gone(fd, AfterReads) => IsOpen(fd)' /\ ~Gone(fd, AfterReads)'
        BY <3>3, <2>5, <2>6 DEF AfterReads, IsOpen
      <4> QED
        BY <3>1, <3>2, <4>1, <4>2, <2>2
    <3> QED
      BY <3>4, <3>5 DEF Closer
  <2>12. ReadOK(fd)'
    BY <2>11 DEF ReadOK
  <2> QED
    BY <2>8, <2>9, <2>10, <2>12 DEF NumberOK
<1> QED
  BY <1>4, <1>5

LEMMA NumberStep ==
  ASSUME HostType, Orderly, NEW fd \in Fd \ crossed', NumberOK(fd), [Next]_hostvars, Alive'
  PROVE  NumberOK(fd)'
<1>1. CASE UNCHANGED hostvars \/ Stop
  BY <1>1, QuietNumbers DEF hostvars, poolall, pool, writeronly, iovars, kernelvars, Known,
     PeersGoOn, Broken, Stop, Pool!Stop
<1>2. ASSUME NEW g \in Fd, SocketDrained(g) PROVE NumberOK(fd)'
  BY <1>2, QuietNumbers DEF SocketDrained, Writer!Drain, Writer!mapvars, Writer!queuevars,
     Writer!threadvars, pool, Known, PeersGoOn, Broken
<1>3. ASSUME NEW w \in Worker, Reply(w) PROVE NumberOK(fd)'
  <2>1. UNCHANGED <<pool, iovars, socketstates, writequeuemap, fddead>>
    BY <1>3 DEF Reply, Writer!AddWriteQueue, Writer!Push, Writer!mapvars,
       Writer!threadvars
  <2> QED
    BY <2>1, QuietNumbers DEF pool, iovars, kernelvars, Known, PeersGoOn, Broken
<1>4. CASE IOStep \/ Interrupted
  BY <1>4, LoopNumbers, EpollNumbers, DispatchNumbers, AcceptNumbers, OpenNumbers,
     ReadNumbers, ServeNumbers, CloseNumbers DEF IOStep, Closer
<1>5. CASE WriterStep
  <2>1. ASSUME NEW g \in Fd PROVE ~BrokenPipe(g)
    BY DEF BrokenPipe, Alive
  <2> QED
    BY <1>5, <2>1, WriterNumbers, CloseNumbers DEF WriterStep, Closer
<1> QED
  BY <1>1, <1>2, <1>3, <1>4, <1>5, PeerNumbers, WorkerNumbers DEF Next

LEMMA CrossedGrows ==
  ASSUME HostType, [Next]_hostvars
  PROVE  crossed \subseteq crossed' /\ (Alive' => Alive)
<1>1. crossed \subseteq crossed'
  <2>1. CASE AcceptConnection
    BY <2>1 DEF AcceptConnection
  <2>2. CASE UNCHANGED crossed
    BY <2>2
  <2>3. CASE \/ UNCHANGED hostvars \/ PeerStep \/ Stop \/ (\E fd \in Fd : SocketDrained(fd))
             \/ (\E w \in Worker : WorkerStep(w) \/ SpuriousWakeup(w) \/ Reply(w))
             \/ Interrupted \/ WriterScan
             \/ (\E fd \in Fd : WriteFails(fd) \/ BrokenPipe(fd) \/ WriterCloses(fd))
    BY <2>3 DEF hostvars, iovars, PeerStep, Stop, SocketDrained, WorkerStep,
       SpuriousWakeup, Reply, Interrupted, WriterScan, WriteFails, BrokenPipe, WriterCloses
  <2>4. CASE \E c \in Closer : CloseStep(c)
    BY <2>4 DEF CloseStep, DelFD, CloseState, CloseReads, CloseTask, CloseMark,
       CloseQueue, CloseFd
  <2>5. CASE \/ TestRunning \/ EpollWait \/ DispatchEvent \/ EndBatch
             \/ AcceptFails \/ AddFD \/ InsertState \/ InsertQueue \/ ReadAgain \/ ReadError
             \/ ReadNothing \/ ReadEnd \/ SignalReaders \/ HandleOut \/ HandleErr \/ HandleHup
             \/ LeaveRun \/ JoinWorkers \/ JoinWriter
    BY <2>5 DEF TestRunning, EpollWait, DispatchEvent, EndBatch, AcceptFails, AddFD,
       InsertState, InsertQueue, ReadAgain, ReadError, ReadNothing, ReadEnd,
       SignalReaders, HandleOut, HandleErr, HandleHup, HandleFault, LeaveRun,
       JoinWorkers, JoinWriter, iovars
  <2> QED
    BY <2>1, <2>3, <2>4, <2>5 DEF Next, IOStep, WriterStep, Closer
<1>2. ~Alive => ~Alive'
  <2> SUFFICES ASSUME iopc = "killed" PROVE iopc' = "killed"
    BY DEF Alive
  <2>1. CASE \/ UNCHANGED hostvars \/ JoinWorkers
    BY <2>1 DEF hostvars, iovars, JoinWorkers
  <2>2. CASE \/ TestRunning \/ EpollWait \/ DispatchEvent \/ EndBatch \/ AcceptConnection
             \/ AcceptFails \/ AddFD \/ InsertState \/ InsertQueue \/ ReadAgain \/ ReadError
             \/ ReadNothing \/ ReadEnd \/ SignalReaders \/ HandleOut \/ HandleErr \/ HandleHup
             \/ LeaveRun \/ JoinWriter \/ Interrupted
    BY <2>2 DEF TestRunning, EpollWait, DispatchEvent, EndBatch, AcceptConnection,
       AcceptFails, AddFD, InsertState, InsertQueue, ReadAgain, ReadError, ReadNothing,
       ReadEnd, SignalReaders, HandleOut, HandleErr, HandleHup, HandleFault, LeaveRun,
       JoinWriter, Interrupted, IOAt
  <2>3. CASE \/ PeerStep \/ Stop \/ (\E fd \in Fd : SocketDrained(fd))
             \/ (\E w \in Worker : WorkerStep(w) \/ SpuriousWakeup(w) \/ Reply(w))
             \/ WriterScan
             \/ (\E fd \in Fd : WriteFails(fd) \/ BrokenPipe(fd) \/ WriterCloses(fd))
    BY <2>3 DEF PeerStep, Stop, SocketDrained, WorkerStep, SpuriousWakeup, Reply,
       WriterScan, WriteFails, BrokenPipe, WriterCloses, Alive
  <2>4. CASE \E c \in Closer : CloseStep(c)
    BY <2>4 DEF CloseStep, DelFD, CloseState, CloseReads, CloseTask, CloseMark,
       CloseQueue, CloseFd, AtStage, Alive
  <2> QED
    BY <2>1, <2>2, <2>3, <2>4 DEF Next, IOStep, WriterStep, Closer
<1> QED
  BY <1>1, <1>2

(* SIGPIPE leaves everything as it is, and nothing happens after it.       *)
LEMMA KilledStands ==
  ASSUME HostType, [Next]_hostvars, ~Alive'
  PROVE  UNCHANGED <<conn, readdataqueue, origin, crossed>>
<1>1. CASE UNCHANGED hostvars \/ (\E fd \in Fd : BrokenPipe(fd))
  BY <1>1 DEF hostvars, iovars, kernelvars, poolall, pool, BrokenPipe
<1>2. CASE JoinWorkers
  BY <1>2 DEF JoinWorkers, Pool!JoinWorkers, iovars, kernelvars
<1>3. CASE \/ TestRunning \/ EpollWait \/ EndBatch \/ AcceptConnection
           \/ AcceptFails \/ InsertState \/ InsertQueue \/ ReadAgain \/ ReadError
           \/ ReadNothing \/ ReadEnd \/ SignalReaders \/ HandleOut \/ HandleErr \/ HandleHup
           \/ LeaveRun \/ JoinWriter \/ Interrupted
  BY <1>3 DEF TestRunning, EpollWait, EndBatch, AcceptConnection, AcceptFails,
     InsertState, InsertQueue, ReadAgain, ReadError, ReadNothing, ReadEnd,
     SignalReaders, HandleOut, HandleErr, HandleHup, HandleFault, LeaveRun,
     JoinWriter, Interrupted, IOAt, Alive
<1>4. CASE DispatchEvent
  <2>1. PICK e \in batch : iopc' = IF e.fd = Listen THEN "accept"
                                   ELSE IF e.fd \notin fdmap THEN "dispatch"
                                   ELSE IF "in" \in e.events THEN "read" ELSE "out"
    BY <1>4 DEF DispatchEvent
  <2>2. iopc' \in {"accept", "dispatch", "read", "out"}
    BY <2>1
  <2> QED
    BY <2>2 DEF Alive
<1>5. CASE AddFD
  BY <1>5 DEF AddFD, Alive
<1>6. CASE \/ PeerStep \/ Stop \/ (\E fd \in Fd : SocketDrained(fd))
           \/ (\E w \in Worker : WorkerStep(w) \/ SpuriousWakeup(w) \/ Reply(w))
           \/ WriterScan
           \/ (\E fd \in Fd : WriteFails(fd) \/ WriterCloses(fd))
  BY <1>6 DEF PeerStep, Stop, SocketDrained, WorkerStep, SpuriousWakeup, Reply,
     WriterScan, WriteFails, WriterCloses, Alive, iovars
<1>7. CASE \E c \in Closer : CloseStep(c)
  BY <1>7 DEF CloseStep, DelFD, CloseState, CloseReads, CloseTask, CloseMark,
     CloseQueue, CloseFd, AtStage, Alive
<1> QED
  BY <1>1, <1>2, <1>3, <1>4, <1>5, <1>6, <1>7 DEF Next, IOStep, WriterStep, Closer

LEMMA NumbersAlways == SafeSpec => [](HostType /\ Orderly /\ Numbers)
<1>1. SafeSpec => []HostType
  BY IOInvariant, PoolInHost, WriterInHost, PTL DEF HostType
<1>2. HostType /\ Orderly /\ Numbers /\ [Next]_hostvars => Orderly' /\ Numbers'
  <2> SUFFICES ASSUME HostType, Orderly, Numbers, [Next]_hostvars PROVE Numbers'
    BY OrderlyStep
  <2>1. ASSUME Alive', NEW fd \in Fd \ crossed' PROVE NumberOK(fd)'
    <3>1. Alive /\ fd \notin crossed
      BY <2>1, CrossedGrows
    <3>2. NumberOK(fd)
      BY <3>1 DEF Numbers
    <3> QED
      BY <2>1, <3>2, NumberStep
  <2> QED
    BY <2>1 DEF Numbers
<1> QED
  BY <1>1, <1>2, InitNumbers, PTL DEF SafeSpec

(* A worker finds nothing in the queue that an earlier holder of a number  *)
(* sent, unless the number is crossed: given out again while an event of   *)
(* the batch or the writer's close was still about its earlier holder.     *)
THEOREM ReadsNeverStale == SafeSpec => []NoStaleReads
<1>1. HostType /\ Numbers /\ Alive => NoStaleReads
  <2> SUFFICES ASSUME HostType, Numbers, Alive,
                      NEW b \in readdataqueue, b.exdata \notin crossed, conn[b.exdata] # NoConn
               PROVE  origin[b.seq] \in {conn[b.exdata], NoConn}
    BY DEF NoStaleReads
  <2>1. b.exdata \in Fd \ crossed
    BY DEF HostType, Pool!TypeOK, Pool!Buffer
  <2> QED
    BY <2>1 DEF Numbers, NumberOK, ReadOK, IsOpen
<1>2. Init => NoStaleReads
  BY DEF Init, Pool!Init, NoStaleReads
<1>3. /\ HostType /\ Orderly /\ Numbers /\ [Next]_hostvars
      /\ (HostType /\ Orderly /\ Numbers)' /\ NoStaleReads
      => NoStaleReads'
  <2> SUFFICES ASSUME HostType, [Next]_hostvars, HostType', Numbers', NoStaleReads
               PROVE  NoStaleReads'
    OBVIOUS
  <2>1. CASE Alive'
    <3>1. (HostType /\ Numbers /\ Alive => NoStaleReads)'
      BY <1>1, PTL
    <3> QED
      BY <2>1, <3>1
  <2>2. CASE ~Alive'
    BY <2>2, KilledStands DEF NoStaleReads
  <2> QED
    BY <2>1, <2>2
<1> QED
  BY <1>2, <1>3, NumbersAlways, PTL DEF SafeSpec

(* Whenever the IO thread is in epoll_wait, fdmap, epoll, socketstates and *)
(* writequeuemap have exactly the open connections, but for the numbers    *)
(* that the writer is closing at that moment and the crossed ones.         *)
THEOREM TablesAlwaysAgree == SafeSpec => []TablesAgree
<1>1. Orderly /\ Numbers => TablesAgree
  <2> SUFFICES ASSUME Orderly, Numbers, iopc = "poll", NEW fd \in Fd \ crossed,
                      ~IsClosing(fd)
               PROVE  LET isopen == conn[fd] # NoConn
                      IN /\ fd \in fdmap <=> isopen
                         /\ fd \in watched <=> isopen
                         /\ Known(fd) <=> isopen
                         /\ fd \in writequeuemap <=> isopen
    BY DEF TablesAgree
  <2>1. TableOK(fd)
    BY DEF Numbers, NumberOK, Alive
  <2>2. /\ ~Gone(fd, AfterDelFD) /\ ~Gone(fd, AfterState) /\ ~Gone(fd, {"close"})
    BY DEF IsClosing, Gone, Closes, AfterDelFD, AfterState, AfterReads
  <2>3. ~IOIs(fd, {"addfd"}) /\ ~IOIs(fd, {"addfd", "newstate"}) /\ ~IOIs(fd, Opening)
    BY DEF IOIs, Opening
  <2> QED
    BY <2>1, <2>2, <2>3 DEF TableOK, IsOpen
<1> QED
  BY <1>1, NumbersAlways, PTL

(* A connection that is closed is one whose peer ended it, and a buffer    *)
(* that is thrown away was read from a connection whose peer ended it,     *)
(* unless its number is crossed.                                           *)
THEOREM OnlyEndedConnectionsLose == SafeSpec => OnlyEndedLose
<1> DEFINE Loses ==
      /\ \A fd \in Fd \ crossed :
           conn[fd] # NoConn /\ conn'[fd] # conn[fd] => peer[conn[fd]] # "open"
      /\ \A b \in readdataqueue \ readdataqueue' :
           \/ \E w \in Worker : wpc[w] # "picked" /\ wpc'[w] = "picked" /\ wbuf'[w] = b
           \/ b.exdata \in crossed
           \/ origin[b.seq] = NoConn
           \/ peer[origin[b.seq]] # "open"
<1>1. HostType /\ Orderly /\ Numbers /\ [Next]_hostvars => [Loses]_hostvars
  <2> SUFFICES ASSUME HostType, Orderly, Numbers, Next PROVE Loses
    OBVIOUS
  <2>1. CASE UNCHANGED <<conn, readdataqueue>>
    BY <2>1
  <2>2. ASSUME NEW c \in Closer, CloseStep(c) PROVE Loses
    <3> DEFINE f == closing[c].fd
    <3>1. /\ closing[c].stage # "idle" /\ f \in Fd
          /\ \A g \in Fd : g # f => SameEntries(g)
          /\ \A b \in readdataqueue \ readdataqueue' : b.exdata = f
      BY <2>2, CloseFrame
    <3>2. Alive
      BY <2>2 DEF CloseStep, DelFD, CloseState, CloseReads, CloseTask, CloseMark,
         CloseQueue, CloseFd, AtStage
    <3>3. CASE f \in crossed
      BY <3>1, <3>3 DEF SameEntries
    <3>4. CASE f \notin crossed
      <4>1. NumberOK(f)
        BY <3>1, <3>2, <3>4 DEF Numbers
      <4>2. IsOpen(f) => Ended(f)
        BY <3>1, <4>1 DEF NumberOK, CloseOK, Condemned, Closer, Broken, Ended
      <4>3. \A b \in readdataqueue :
              b.exdata = f => origin[b.seq] = NoConn \/ peer[origin[b.seq]] # "open"
        BY <4>1, <4>2 DEF NumberOK, ReadOK, Ended
      <4> HIDE DEF f
      <4> QED
        BY <3>1, <4>2, <4>3 DEF SameEntries, IsOpen, Ended
    <3> QED
      BY <3>3, <3>4
  <2>3. CASE AcceptConnection
    BY <2>3 DEF AcceptConnection, poolall, pool, HostType, IOInv, KernelType
  <2>4. ASSUME NEW w \in Worker, WorkerStep(w) PROVE Loses
    <3>1. UNCHANGED conn
      BY <2>4 DEF WorkerStep, iovars, kernelvars
    <3>2. CASE Pool!PickBuffer(w)
      <4>1. PICK b \in readdataqueue :
              /\ wbuf' = [wbuf EXCEPT ![w] = b]
              /\ readdataqueue' = readdataqueue \ {b}
              /\ wpc' = [wpc EXCEPT ![w] = "picked"]
              /\ wpc[w] # "picked"
        BY <3>2 DEF Pool!PickBuffer, Pool!Walked, Pool!PickFrom, Pool!Eligible, Pool!GoTo
      <4>2. wbuf'[w] = b /\ wpc'[w] = "picked"
        BY <4>1 DEF HostType, Pool!TypeOK
      <4> QED
        BY <3>1, <4>1, <4>2
    <3>3. CASE ~Pool!PickBuffer(w)
      BY <2>4, <3>1, <3>3, <2>1 DEF WorkerStep, Pool!WorkerStep, Pool!CheckRunning,
         Pool!WaitForReads, Pool!WakeToNothing, Pool!FindNoBuffer, Pool!StartInput,
         Pool!FinishInput, Pool!LeaveInput
    <3> QED
      BY <3>2, <3>3
  <2>5. CASE \/ PeerStep \/ Interrupted \/ Stop
             \/ (\E fd \in Fd : SocketDrained(fd))
             \/ (\E w \in Worker : SpuriousWakeup(w) \/ Reply(w))
    BY <2>5, <2>1 DEF PeerStep, Connect, SendData, Finish, Reset, Interrupted, Stop,
       Pool!Stop, SocketDrained, SpuriousWakeup, Pool!SpuriousWakeup, Reply, poolall,
       pool, iovars, kernelvars
  <2>6. CASE WriterScan \/ (\E fd \in Fd : WriteFails(fd) \/ BrokenPipe(fd) \/ WriterCloses(fd))
    BY <2>6, <2>1 DEF WriterScan, WriteFails, BrokenPipe, WriterCloses, poolall, pool,
       iovars, kernelvars
  <2>7. CASE ReadAgain \/ ReadError
    BY <2>7 DEF ReadAgain, ReadError, Pool!PushRead
  <2>8. CASE \/ TestRunning \/ EpollWait \/ DispatchEvent \/ EndBatch \/ AcceptFails \/ AddFD
             \/ InsertState \/ InsertQueue \/ ReadNothing \/ ReadEnd \/ SignalReaders
             \/ HandleOut \/ HandleErr \/ HandleHup \/ LeaveRun \/ JoinWorkers \/ JoinWriter
    <3>1. UNCHANGED conn
      BY <2>8 DEF TestRunning, EpollWait, DispatchEvent, EndBatch, AcceptFails, AddFD,
         InsertState, InsertQueue, ReadNothing, ReadEnd, SignalReaders, HandleOut,
         HandleErr, HandleHup, HandleFault, LeaveRun, JoinWorkers, JoinWriter, iovars,
         kernelvars
    <3>2. UNCHANGED readdataqueue
      BY <2>8 DEF TestRunning, EpollWait, DispatchEvent, EndBatch, AcceptFails, AddFD,
         InsertState, InsertQueue, ReadNothing, ReadEnd, SignalReaders, HandleOut,
         HandleErr, HandleHup, HandleFault, LeaveRun, JoinWorkers, JoinWriter,
         Pool!SignalReaders, Pool!Broadcast, Pool!LeaveLoop, Pool!JoinWorkers, poolall,
         pool
    <3> QED
      BY <3>1, <3>2, <2>1
  <2> QED
    BY <2>2, <2>3, <2>4, <2>5, <2>6, <2>7, <2>8 DEF Next, IOStep, WriterStep, Closer
<1>2. OnlyEndedLose <=> [][Loses]_hostvars
  BY PTL DEF OnlyEndedLose
<1> QED
  BY <1>1, <1>2, NumbersAlways, PTL DEF SafeSpec
=============================================================================
