------------------------------ MODULE SocketWriter ----------------------------
(***************************************************************************)
(* The write queues of CHttpHost and the thread that empties them          *)
(* (HttpServer.cpp: writeSocketThread, AddWriteQueue, SetCloseAfterSendAll *)
(* and what processListener, processClient and closesocket do to           *)
(* writequeuemap and socketstates).                                        *)
(*                                                                         *)
(* The writer thread holds writequeuemaplock and sokectstatesMutex during  *)
(* its whole walk over socketstates (lines 239-281), so nobody else        *)
(* touches the two maps while its program counter is "scan"; every other   *)
(* critical section is one action.  The wait on SocketWriteWait ends after *)
(* 100 microseconds at the latest, whether it is signalled or not, and is  *)
(* the step from "wait" to "scan".                                         *)
(*                                                                         *)
(* The bytes that AddWriteQueue accepts for one queue are numbered from 1; *)
(* a buffer is the number of its first byte and its datalen.               *)
(***************************************************************************)
EXTENDS Naturals, Sequences

CONSTANTS
  Fd,        \* descriptor numbers of client connections
  Closable,  \* descriptors that the IO thread may call closesocket for
  BufLen,    \* the size of a buffer (1024 in HttpTask::WriteOut)
  SockBuf,   \* the size of the kernel's send buffer
  MaxBytes   \* bound on the bytes accepted for one queue

ASSUME FdAssumption == Fd \subseteq Nat /\ Closable \subseteq Fd
ASSUME SizeAssumption ==
  BufLen \in Nat \ {0} /\ SockBuf \in Nat \ {0} /\ MaxBytes \in Nat

VARIABLES
  running,            \* CHttpHost::running
  socketstates,       \* CHttpHost::socketstates with canwrite of each entry
  writequeuemap,      \* the keys of CHttpHost::writequeuemap
  buffers,            \* the std::queue of each WriteQueue
  lastPos,            \* WriteQueue::lastPos
  closeAfterSendAll,  \* the queues with WriteQueue::closeAfterSendAll
  spc,                \* where the writer thread is in writeSocketThread
  todo,               \* entries of socketstates the walk has not passed
  fddead,             \* its local `fddead'
  space,              \* free bytes in the kernel's send buffer
  accepted,           \* history: bytes accepted for the present queue
  wire                \* history: bytes of it written to the socket, in order

mapvars == <<socketstates, writequeuemap>>
queuevars == <<buffers, lastPos, closeAfterSendAll, accepted, wire>>
threadvars == <<running, spc, todo, fddead>>
writevars == <<mapvars, queuevars, threadvars, space>>

Buffer == [first : Nat \ {0}, datalen : 1..BufLen]
SocketState == {"absent", "cannotwrite", "canwrite"}

Init ==
  /\ running = TRUE
  /\ socketstates = [fd \in Fd |-> "absent"]
  /\ writequeuemap = {}
  /\ buffers = [fd \in Fd |-> <<>>]
  /\ lastPos = [fd \in Fd |-> 0]
  /\ closeAfterSendAll = {}
  /\ spc = "check"
  /\ todo = {}
  /\ fddead = {}
  /\ space = [fd \in Fd |-> SockBuf]
  /\ accepted = [fd \in Fd |-> 0]
  /\ wire = [fd \in Fd |-> <<>>]

Unlocked == spc # "scan"
-----------------------------------------------------------------------------
(* The IO thread: processListener, and EPOLLOUT in processClient.          *)

(* map::insert leaves an entry that is already there as it is.  A new      *)
(* socket has an empty send buffer.                                        *)
InsertState(fd) ==
  /\ Unlocked
  /\ socketstates[fd] = "absent"
  /\ socketstates' = [socketstates EXCEPT ![fd] = "cannotwrite"]
  /\ space' = [space EXCEPT ![fd] = SockBuf]
  /\ UNCHANGED <<writequeuemap, queuevars, threadvars>>

InsertQueue(fd) ==
  /\ Unlocked
  /\ fd \notin writequeuemap
  /\ writequeuemap' = writequeuemap \cup {fd}
  /\ UNCHANGED <<socketstates, queuevars, threadvars, space>>

SetWritable(fd) ==
  /\ Unlocked
  /\ socketstates[fd] = "cannotwrite"
  /\ socketstates' = [socketstates EXCEPT ![fd] = "canwrite"]
  /\ UNCHANGED <<writequeuemap, queuevars, threadvars, space>>

(* The worker threads: AddWriteQueue and SetCloseAfterSendAll, which do    *)
(* nothing when there is no queue.                                         *)
Push(fd, n) ==
  /\ fd \in writequeuemap
  /\ accepted[fd] + n <= MaxBytes
  /\ buffers' = [buffers EXCEPT ![fd] =
                   Append(@, [first |-> accepted[fd] + 1, datalen |-> n])]
  /\ accepted' = [accepted EXCEPT ![fd] = @ + n]
  /\ UNCHANGED <<mapvars, lastPos, closeAfterSendAll, wire, threadvars, space>>

AddWriteQueue(fd) == Unlocked /\ \E n \in 1..BufLen : Push(fd, n)

SetCloseAfterSendAll(fd) ==
  /\ Unlocked
  /\ fd \in writequeuemap
  /\ closeAfterSendAll' = closeAfterSendAll \cup {fd}
  /\ UNCHANGED <<mapvars, buffers, lastPos, accepted, wire, threadvars, space>>
-----------------------------------------------------------------------------
(* The two steps of closesocket that touch this component.  With its entry *)
(* the queue is destroyed, whatever it holds.                              *)

RemoveState(fd) == socketstates' = [socketstates EXCEPT ![fd] = "absent"]

(* Faulty variant of RemoveQueue: what the queue held is not destroyed. *)
RemoveKeyOnly(fd) ==
  /\ writequeuemap' = writequeuemap \ {fd}
  /\ UNCHANGED queuevars

RemoveQueue(fd) ==
  /\ writequeuemap' = writequeuemap \ {fd}
  /\ buffers' = [buffers EXCEPT ![fd] = <<>>]
  /\ lastPos' = [lastPos EXCEPT ![fd] = 0]
  /\ closeAfterSendAll' = closeAfterSendAll \ {fd}
  /\ accepted' = [accepted EXCEPT ![fd] = 0]
  /\ wire' = [wire EXCEPT ![fd] = <<>>]

EraseState(fd) ==
  /\ Unlocked
  /\ RemoveState(fd)
  /\ UNCHANGED <<writequeuemap, queuevars, threadvars, space>>

EraseQueue(fd) ==
  /\ Unlocked
  /\ RemoveQueue(fd)
  /\ UNCHANGED <<socketstates, threadvars, space>>
-----------------------------------------------------------------------------
(* The writer thread: writeSocketThread.                                   *)

CheckRunning ==
  /\ spc = "check"
  /\ spc' = IF running THEN "wait" ELSE "exited"
  /\ UNCHANGED <<running, todo, fddead, mapvars, queuevars, space>>

StartScan ==
  /\ spc = "wait"
  /\ spc' = "scan"
  /\ todo' = {fd \in Fd : socketstates[fd] # "absent"}
  /\ fddead' = {}
  /\ UNCHANGED <<running, mapvars, queuevars, space>>

(* The entry the walk is at: std::map is walked in the order of its keys.  *)
At(fd) == spc = "scan" /\ fd \in todo /\ \A g \in todo : fd <= g
Flushing(fd) == At(fd) /\ socketstates[fd] = "canwrite" /\ fd \in writequeuemap
Pass(fd) == todo' = todo \ {fd}
NowBuf(fd) == Head(buffers[fd])
Remaining(fd) == NowBuf(fd).datalen - lastPos[fd]

SkipSocket(fd) ==
  /\ At(fd)
  /\ ~Flushing(fd)
  /\ Pass(fd)
  /\ UNCHANGED <<running, spc, fddead, mapvars, queuevars, space>>

(* Faulty variant of PopBuffer: lastPos is not reset. *)
PopKeepsLastPos(fd) ==
  /\ Flushing(fd)
  /\ buffers[fd] # <<>>
  /\ lastPos[fd] >= NowBuf(fd).datalen
  /\ buffers' = [buffers EXCEPT ![fd] = Tail(@)]
  /\ UNCHANGED <<lastPos, closeAfterSendAll, accepted, wire, threadvars, mapvars, space>>

PopBuffer(fd) ==
  /\ Flushing(fd)
  /\ buffers[fd] # <<>>
  /\ lastPos[fd] >= NowBuf(fd).datalen
  /\ buffers' = [buffers EXCEPT ![fd] = Tail(@)]
  /\ lastPos' = [lastPos EXCEPT ![fd] = 0]
  /\ UNCHANGED <<closeAfterSendAll, accepted, wire, threadvars, mapvars, space>>

Writing(fd) ==
  Flushing(fd) /\ buffers[fd] # <<>> /\ lastPos[fd] < NowBuf(fd).datalen

(* Faulty variant of WriteSome: lastPos is set to the result of write. *)
WriteRestarts(fd) ==
  /\ Writing(fd)
  /\ \E res \in 1..Remaining(fd) :
       /\ res <= space[fd]
       /\ space' = [space EXCEPT ![fd] = @ - res]
       /\ lastPos' = [lastPos EXCEPT ![fd] = res]
       /\ wire' = [wire EXCEPT ![fd] =
            @ \o [i \in 1..res |-> NowBuf(fd).first + lastPos[fd] + i - 1]]
  /\ UNCHANGED <<buffers, closeAfterSendAll, accepted, threadvars, mapvars>>

(* write() takes what fits into the send buffer, or less.                  *)
WriteSome(fd) ==
  /\ Writing(fd)
  /\ \E res \in 1..Remaining(fd) :
       /\ res <= space[fd]
       /\ space' = [space EXCEPT ![fd] = @ - res]
       /\ lastPos' = [lastPos EXCEPT ![fd] = @ + res]
       /\ wire' = [wire EXCEPT ![fd] =
            @ \o [i \in 1..res |-> NowBuf(fd).first + lastPos[fd] + i - 1]]
  /\ UNCHANGED <<buffers, closeAfterSendAll, accepted, threadvars, mapvars>>

(* EAGAIN: the socket is left for the next walk and stays writable.        *)
WriteBlocked(fd) ==
  /\ Writing(fd)
  /\ space[fd] = 0
  /\ Pass(fd)
  /\ UNCHANGED <<running, spc, fddead, mapvars, queuevars, space>>

(* Any other error of write, whenever the connection is broken.            *)
WriteFails(fd) ==
  /\ Writing(fd)
  /\ Pass(fd)
  /\ fddead' = fddead \cup {fd}
  /\ socketstates' = [socketstates EXCEPT ![fd] = "cannotwrite"]
  /\ UNCHANGED <<running, spc, writequeuemap, queuevars, space>>

(* Faulty variant of FinishSocket: the flag alone condemns the socket. *)
FinishWhenFlagged(fd) ==
  /\ Flushing(fd)
  /\ buffers[fd] = <<>> \/ fd \in closeAfterSendAll
  /\ Pass(fd)
  /\ fddead' = IF fd \in closeAfterSendAll THEN fddead \cup {fd} ELSE fddead
  /\ UNCHANGED <<running, spc, mapvars, queuevars, space>>

FinishSocket(fd) ==
  /\ Flushing(fd)
  /\ buffers[fd] = <<>>
  /\ Pass(fd)
  /\ fddead' = IF fd \in closeAfterSendAll THEN fddead \cup {fd} ELSE fddead
  /\ UNCHANGED <<running, spc, mapvars, queuevars, space>>

EndScan ==
  /\ spc = "scan"
  /\ todo = {}
  /\ spc' = "close"
  /\ UNCHANGED <<running, todo, fddead, mapvars, queuevars, space>>

(* closesocket for the members of fddead, in ascending order.              *)
Closing(fd) == fd \in fddead /\ \A g \in fddead : fd <= g

CloseState(fd) ==
  /\ spc = "close"
  /\ Closing(fd)
  /\ spc' = "closequeue"
  /\ RemoveState(fd)
  /\ UNCHANGED <<running, todo, fddead, writequeuemap, queuevars, space>>

CloseQueue(fd) ==
  /\ spc = "closequeue"
  /\ Closing(fd)
  /\ spc' = "close"
  /\ fddead' = fddead \ {fd}
  /\ RemoveQueue(fd)
  /\ UNCHANGED <<running, todo, socketstates, space>>

EndCloses ==
  /\ spc = "close"
  /\ fddead = {}
  /\ spc' = "check"
  /\ UNCHANGED <<running, todo, fddead, mapvars, queuevars, space>>
-----------------------------------------------------------------------------
(* The peer reads: the kernel frees room in the send buffer.               *)
Drain(fd) ==
  /\ space[fd] < SockBuf
  /\ space' = [space EXCEPT ![fd] = SockBuf]
  /\ UNCHANGED <<mapvars, queuevars, threadvars>>

Stop ==
  /\ running
  /\ running' = FALSE
  /\ UNCHANGED <<spc, todo, fddead, mapvars, queuevars, space>>

Flush(fd) ==
  \/ SkipSocket(fd)
  \/ PopBuffer(fd)
  \/ WriteSome(fd)
  \/ WriteBlocked(fd)
  \/ FinishSocket(fd)
  \/ CloseState(fd)
  \/ CloseQueue(fd)

WriterStep ==
  \/ CheckRunning
  \/ StartScan
  \/ EndScan
  \/ EndCloses
  \/ \E fd \in Fd : Flush(fd)

Next ==
  \/ WriterStep
  \/ \E fd \in Fd :
       \/ InsertState(fd)
       \/ InsertQueue(fd)
       \/ SetWritable(fd)
       \/ AddWriteQueue(fd)
       \/ SetCloseAfterSendAll(fd)
       \/ WriteFails(fd)
       \/ Drain(fd)
  \/ \E fd \in Closable : EraseState(fd) \/ EraseQueue(fd)
  \/ Stop

(* The writer is scheduled, peers read, and the IO thread handles the      *)
(* EPOLLOUT that epoll reports for every new socket; it needs the mutex    *)
(* that the writer takes again and again, hence strong fairness.           *)
Fairness ==
  /\ WF_writevars(WriterStep)
  /\ \A fd \in Fd : WF_writevars(Drain(fd)) /\ SF_writevars(SetWritable(fd))

SafeSpec == Init /\ [][Next]_writevars
Spec == SafeSpec /\ Fairness
-----------------------------------------------------------------------------
TypeOK ==
  /\ running \in BOOLEAN
  /\ socketstates \in [Fd -> SocketState]
  /\ writequeuemap \subseteq Fd
  /\ buffers \in [Fd -> Seq(Buffer)]
  /\ lastPos \in [Fd -> Nat]
  /\ closeAfterSendAll \subseteq writequeuemap
  /\ spc \in {"check", "wait", "scan", "close", "closequeue", "exited"}
  /\ todo \subseteq Fd
  /\ fddead \subseteq Fd
  /\ space \in [Fd -> 0..SockBuf]
  /\ accepted \in [Fd -> Nat]
  /\ wire \in [Fd -> Seq(Nat)]

(* The bytes of a queue reach its socket in order and without a gap,       *)
(* whatever the sizes of the buffers and of the partial writes: what was   *)
(* written is a prefix of what was accepted.                               *)
SentInOrder ==
  \A fd \in Fd : /\ Len(wire[fd]) <= accepted[fd]
                 /\ \A i \in 1..Len(wire[fd]) : wire[fd][i] = i

(* When the writer condemns a socket without an error of write, because of *)
(* closeAfterSendAll, all that was accepted for it has been written.       *)
CloseWhenAllSent ==
  \A fd \in fddead :
    spc = "scan" /\ socketstates[fd] = "canwrite" => Len(wire[fd]) = accepted[fd]

(* The write queues implement the streams of OutStream.                    *)
Stream == INSTANCE OutStream WITH open <- writequeuemap
StreamSpec == Stream!Spec

(* While the server runs, every accepted byte is written or its connection *)
(* is closed.                                                              *)
EveryByteSent ==
  \A fd \in Fd : \A n \in 1..MaxBytes :
    (fd \in writequeuemap /\ n <= accepted[fd])
      ~> \/ n <= Len(wire[fd])
         \/ fd \notin writequeuemap \/ socketstates[fd] = "absent"
         \/ ~running
=============================================================================
