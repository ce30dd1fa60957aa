-------------------------------- MODULE HttpHost ------------------------------
(***************************************************************************)
(* CHttpHost as a whole: the IO thread (Run, IOLoop::run_once,             *)
(* processListener, processClient), the worker threads of WorkerPool, the  *)
(* writer thread of SocketWriter, and closesocket, which the IO thread and *)
(* the writer run step by step over the state of all of them.              *)
(*                                                                         *)
(* Around the program is what it asks of the kernel: the descriptor table, *)
(* in which a number is reused as soon as it is closed, and an             *)
(* edge-triggered epoll.  The kernel puts a watched descriptor on the      *)
(* ready list when something happens to it; epoll_wait takes descriptors   *)
(* off the list and reports the state each one is in at that moment.       *)
(*                                                                         *)
(* The IO thread does nothing else while it is in closesocket: its program *)
(* counter iopc is where it goes on afterwards.  Connections are numbered  *)
(* in the order in which they are accepted.                                *)
(***************************************************************************)
EXTENDS Naturals, Sequences, FiniteSets

CONSTANTS
  Fd,         \* descriptor numbers accept may return
  Listen,     \* listenfd
  Worker,     \* the worker threads
  MaxEvents,  \* events per epoll_wait (20 in run_once)
  MaxConns,   \* bound on the connections that arrive
  MaxReads,   \* bound on the buffers read
  MaxSent,    \* bound on the pieces of data that peers send
  Resettable, \* connections that a peer may reset
  Stoppable,  \* whether SIGINT may arrive
  NoBuffer, BufLen, SockBuf, MaxBytes   \* as in WorkerPool and SocketWriter

ASSUME HostAssumption ==
  /\ Fd \subseteq Nat /\ Listen \notin Fd
  /\ MaxEvents \in Nat \ {0}
  /\ MaxConns \in Nat /\ MaxReads \in Nat /\ MaxSent \in Nat
  /\ Resettable \subseteq 1..MaxConns
  /\ Stoppable \in BOOLEAN
  /\ Worker # {}
  /\ BufLen \in Nat \ {0} /\ SockBuf \in Nat \ {0} /\ MaxBytes \in Nat

VARIABLES
  \* of WorkerPool
  running, mainpc, nread, readsome, readdataqueue, taskpoll, processingFile,
  wpc, wbuf, wtask, missed,
  \* of SocketWriter
  socketstates, writequeuemap, buffers, lastPos, closeAfterSendAll, spc, todo,
  fddead, space, accepted, wire,
  \* of the IO thread
  iopc,     \* where the IO thread is
  iofd,     \* the descriptor it accepted or serves
  ioevents, \* the `events' of processClient
  batch,    \* `events' of run_once, without those already dispatched
  fdmap,    \* the keys of IOLoop::fdmap, without listenfd
  closing,  \* how far the IO thread and the writer are in closesocket
  \* of the kernel and the peers
  conn,     \* the descriptor table: a connection, NoConn where closed
  nconn,    \* connections accepted
  arrived,  \* connections that have arrived
  watched,  \* the descriptors registered with epoll
  ready,    \* epoll's ready list
  inbox,    \* unread data of each connection
  sent,     \* pieces of data that peers have sent
  peer,     \* what each connection's peer has done
  \* history
  origin,   \* the connection that each buffer was read from
  crossed   \* numbers given out while an earlier use was still pending

Closable == Fd
Pool == INSTANCE WorkerPool
Writer == INSTANCE SocketWriter

writeronly == <<socketstates, writequeuemap, buffers, lastPos, closeAfterSendAll,
                spc, todo, fddead, space, accepted, wire>>
pool == <<mainpc, nread, readsome, readdataqueue, taskpoll, processingFile,
          wpc, wbuf, wtask, missed>>
poolall == <<running, pool>>
loopvars == <<iofd, ioevents, batch>>
kernelvars == <<conn, nconn, arrived, watched, ready, inbox, sent, peer>>
history == <<origin, crossed>>
iovars == <<iopc, loopvars, fdmap, closing, kernelvars, history>>
hostvars == <<poolall, writeronly, iovars>>

NoConn == 0
Conn == 1..MaxConns
Closer == {"io", "writer"}
CloseStage == {"idle", "delfd", "state", "reads", "task", "mark", "queue", "close"}

Init ==
  /\ Pool!Init
  /\ Writer!Init
  /\ iopc = "check"
  /\ iofd = Listen
  /\ ioevents = {}
  /\ batch = {}
  /\ fdmap = {}
  /\ closing = [c \in Closer |-> [stage |-> "idle", fd |-> Listen]]
  /\ conn = [fd \in Fd |-> NoConn]
  /\ nconn = 0
  /\ arrived = 0
  /\ watched = {}
  /\ ready = {}
  /\ inbox = [c \in Conn |-> 0]
  /\ sent = 0
  /\ peer = [c \in Conn |-> "open"]
  /\ origin = [n \in 1..MaxReads |-> NoConn]
  /\ crossed = {}
-----------------------------------------------------------------------------
(* The kernel and the peers. *)

(* SIGPIPE kills the process: the IO thread is then "killed", and with it  *)
(* every thread stops.                                                     *)
Alive == iopc # "killed"

(* Something happened to connection c: its descriptor goes on the list.    *)
Notify(c) == ready' = ready \cup {fd \in watched : conn[fd] = c}

Connect ==
  /\ arrived < MaxConns
  /\ arrived' = arrived + 1
  /\ ready' = ready \cup {Listen}
  /\ UNCHANGED <<conn, nconn, watched, inbox, sent, peer>>

SendData(c) ==
  /\ c <= arrived
  /\ peer[c] = "open"
  /\ sent < MaxSent
  /\ sent' = sent + 1
  /\ inbox' = [inbox EXCEPT ![c] = @ + 1]
  /\ Notify(c)
  /\ UNCHANGED <<conn, nconn, arrived, watched, peer>>

Finish(c) ==
  /\ c <= arrived
  /\ peer[c] = "open"
  /\ peer' = [peer EXCEPT ![c] = "finished"]
  /\ Notify(c)
  /\ UNCHANGED <<conn, nconn, arrived, watched, inbox, sent>>

Reset(c) ==
  /\ c <= arrived
  /\ peer[c] \in {"open", "finished"}
  /\ peer' = [peer EXCEPT ![c] = "reset"]
  /\ Notify(c)
  /\ UNCHANGED <<conn, nconn, arrived, watched, inbox, sent>>

PeerStep ==
  /\ Alive
  /\ \/ Connect
     \/ \E c \in Conn : SendData(c) \/ Finish(c)
     \/ \E c \in Resettable : Reset(c)
  /\ UNCHANGED <<poolall, writeronly, iopc, loopvars, fdmap, closing, history>>

(* Room in a send buffer that was full is an edge for EPOLLOUT. *)
SocketDrained(fd) ==
  /\ Alive
  /\ conn[fd] # NoConn
  /\ Writer!Drain(fd)
  /\ Notify(conn[fd])
  /\ UNCHANGED <<pool, iopc, loopvars, fdmap, closing, conn, nconn, arrived,
                 watched, inbox, sent, peer, history>>

Broken(c) == peer[c] \in {"reset", "dead"}
Events(fd) ==
  LET c == conn[fd]
  IN (IF inbox[c] > 0 \/ peer[c] # "open" THEN {"in"} ELSE {})
       \cup (IF space[fd] > 0 \/ Broken(c) THEN {"out"} ELSE {})
       \cup (IF peer[c] = "reset" THEN {"err"} ELSE {})
       \cup (IF Broken(c) THEN {"hup"} ELSE {})
-----------------------------------------------------------------------------
(* closesocket, by the IO thread or by the writer: one step per critical   *)
(* section, in the order of the code.                                      *)

StartClose(c, fd) == closing' = [closing EXCEPT ![c] = [stage |-> "delfd", fd |-> fd]]
IOFree == closing["io"].stage = "idle"
AtStage(c, stage, next) ==
  /\ Alive
  /\ closing[c].stage = stage
  /\ closing' = [closing EXCEPT ![c].stage = next]

DelFD(c) ==
  /\ AtStage(c, "delfd", "state")
  /\ fdmap' = fdmap \ {closing[c].fd}
  /\ watched' = watched \ {closing[c].fd}
  /\ ready' = ready \ {closing[c].fd}
  /\ UNCHANGED <<poolall, writeronly, iopc, loopvars, conn, nconn, arrived,
                 inbox, sent, peer, history>>

CloseState(c) ==
  /\ AtStage(c, "state", "reads")
  /\ IF c = "io" THEN Writer!EraseState(closing[c].fd) ELSE Writer!CloseState(closing[c].fd)
  /\ UNCHANGED <<pool, iopc, loopvars, fdmap, kernelvars, history>>

(* Faulty variants of CloseReads: queued buffers are not thrown away, or   *)
(* only the first of them is.                                              *)
CloseKeepsReads(c) ==
  /\ AtStage(c, "reads", "task")
  /\ UNCHANGED <<poolall, writeronly, iopc, loopvars, fdmap, kernelvars, history>>

CloseFirstRead(c) ==
  /\ AtStage(c, "reads", "task")
  /\ LET mine == {b \in readdataqueue : b.exdata = closing[c].fd}
     IN readdataqueue' = readdataqueue \ {b \in mine : \A d \in mine : b.seq <= d.seq}
  /\ UNCHANGED <<running, mainpc, nread, readsome, taskpoll, processingFile, wpc,
                 wbuf, wtask, missed, writeronly, iopc, loopvars, fdmap,
                 kernelvars, history>>

CloseReads(c) ==
  /\ AtStage(c, "reads", "task")
  /\ Pool!DiscardReads(closing[c].fd)
  /\ UNCHANGED <<writeronly, iopc, loopvars, fdmap, kernelvars, history>>

CloseTask(c) ==
  /\ AtStage(c, "task", "mark")
  /\ Pool!DropTask(closing[c].fd)
  /\ UNCHANGED <<writeronly, iopc, loopvars, fdmap, kernelvars, history>>

CloseMark(c) ==
  /\ AtStage(c, "mark", "queue")
  /\ Pool!Unmark(closing[c].fd)
  /\ UNCHANGED <<writeronly, iopc, loopvars, fdmap, kernelvars, history>>

(* Faulty variant of CloseQueue: the IO thread leaves the queue behind. *)
CloseKeepsQueue(c) ==
  /\ AtStage(c, "queue", "close")
  /\ IF c = "io" THEN UNCHANGED <<running, writeronly>> ELSE Writer!CloseQueue(closing[c].fd)
  /\ UNCHANGED <<pool, iopc, loopvars, fdmap, kernelvars, history>>

CloseQueue(c) ==
  /\ AtStage(c, "queue", "close")
  /\ IF c = "io" THEN Writer!EraseQueue(closing[c].fd) ELSE Writer!CloseQueue(closing[c].fd)
  /\ UNCHANGED <<pool, iopc, loopvars, fdmap, kernelvars, history>>

(* close(fd): whatever connection has the number now, and its watch, go.   *)
CloseFd(c) ==
  /\ AtStage(c, "close", "idle")
  /\ conn' = [conn EXCEPT ![closing[c].fd] = NoConn]
  /\ watched' = watched \ {closing[c].fd}
  /\ ready' = ready \ {closing[c].fd}
  /\ UNCHANGED <<poolall, writeronly, iopc, loopvars, fdmap, nconn, arrived,
                 inbox, sent, peer, history>>

CloseStep(c) ==
  \/ DelFD(c)
  \/ CloseState(c)
  \/ CloseReads(c)
  \/ CloseTask(c)
  \/ CloseMark(c)
  \/ CloseQueue(c)
  \/ CloseFd(c)
-----------------------------------------------------------------------------
(* The IO thread: Run and run_once. *)

IOAt(label, next) == IOFree /\ iopc = label /\ iopc' = next

(* Faulty variant of TestRunning: the flag is not read again. *)
TestNothing ==
  /\ IOAt("check", "poll")
  /\ UNCHANGED <<poolall, writeronly, loopvars, fdmap, closing, kernelvars, history>>

TestRunning ==
  /\ running
  /\ IOAt("check", "poll")
  /\ UNCHANGED <<poolall, writeronly, loopvars, fdmap, closing, kernelvars, history>>

(* epoll_wait has nothing to report and is interrupted; the idle callback  *)
(* only counts and prints.                                                 *)
Interrupted ==
  /\ ready = {}
  /\ IOAt("poll", "check")
  /\ UNCHANGED <<poolall, writeronly, loopvars, fdmap, closing, kernelvars, history>>

EpollWait ==
  /\ IOAt("poll", "dispatch")
  /\ \E taken \in SUBSET ready \ {{}} :
       /\ Cardinality(taken) <= MaxEvents
       /\ taken = ready \/ Cardinality(taken) = MaxEvents
       /\ ready' = ready \ taken
       /\ batch' = {[fd |-> fd, events |-> IF fd = Listen THEN {"in"} ELSE Events(fd)] :
                     fd \in taken}
  /\ UNCHANGED <<poolall, writeronly, iofd, ioevents, fdmap, closing, conn,
                 nconn, arrived, watched, inbox, sent, peer, history>>

(* One round of the loop over the events: the callback of a descriptor     *)
(* that is still in fdmap.                                                 *)
DispatchEvent ==
  /\ IOFree
  /\ iopc = "dispatch"
  /\ \E e \in batch :
       /\ batch' = batch \ {e}
       /\ iofd' = e.fd
       /\ ioevents' = e.events
       /\ iopc' = IF e.fd = Listen THEN "accept"
                  ELSE IF e.fd \notin fdmap THEN "dispatch"
                  ELSE IF "in" \in e.events THEN "read" ELSE "out"
  /\ UNCHANGED <<poolall, writeronly, fdmap, closing, kernelvars, history>>

EndBatch ==
  /\ batch = {}
  /\ IOAt("dispatch", "check")
  /\ UNCHANGED <<poolall, writeronly, loopvars, fdmap, closing, kernelvars, history>>
-----------------------------------------------------------------------------
(* processListener. *)

(* Something of an earlier connection is still under way for a number that *)
(* the writer has closed, or is about to: an event in the batch, or the    *)
(* writer's closesocket.                                                   *)
Pending(fd) ==
  \/ fd \in fddead
  \/ closing["writer"].stage # "idle" /\ closing["writer"].fd = fd
  \/ \E e \in batch : e.fd = fd

AcceptConnection ==
  /\ nconn < arrived
  /\ IOAt("accept", "addfd")
  /\ nconn' = nconn + 1
  /\ \E fd \in Fd : /\ conn[fd] = NoConn
                    /\ conn' = [conn EXCEPT ![fd] = nconn']
                    /\ iofd' = fd
                    /\ crossed' = IF Pending(fd) THEN crossed \cup {fd} ELSE crossed
  /\ UNCHANGED <<poolall, writeronly, ioevents, batch, fdmap, closing, arrived,
                 watched, ready, inbox, sent, peer, origin>>

(* EAGAIN, or no free descriptor: either ends the loop. *)
AcceptFails ==
  /\ nconn = arrived \/ \A fd \in Fd : conn[fd] # NoConn
  /\ IOAt("accept", "dispatch")
  /\ UNCHANGED <<poolall, writeronly, loopvars, fdmap, closing, kernelvars, history>>

(* AddFD refuses a number that it still has, and epoll_ctl one that was    *)
(* closed meanwhile; either way closesocket follows.                       *)
AddFD ==
  /\ IOFree
  /\ iopc = "addfd"
  /\ IF iofd \in fdmap \/ conn[iofd] = NoConn
     THEN /\ iopc' = "accept"
          /\ StartClose("io", iofd)
          /\ UNCHANGED <<fdmap, watched, ready>>
     ELSE /\ iopc' = "newstate"
          /\ fdmap' = fdmap \cup {iofd}
          /\ watched' = watched \cup {iofd}
          /\ ready' = ready \cup {iofd}
          /\ UNCHANGED closing
  /\ UNCHANGED <<poolall, writeronly, loopvars, conn, nconn, arrived, inbox,
                 sent, peer, history>>

InsertState ==
  /\ IOAt("newstate", "newqueue")
  /\ \/ Writer!InsertState(iofd)
     \/ Writer!Unlocked /\ socketstates[iofd] # "absent" /\ UNCHANGED <<running, writeronly>>
  /\ UNCHANGED <<pool, loopvars, fdmap, closing, kernelvars, history>>

InsertQueue ==
  /\ IOAt("newqueue", "accept")
  /\ \/ Writer!InsertQueue(iofd)
     \/ Writer!Unlocked /\ iofd \in writequeuemap /\ UNCHANGED <<running, writeronly>>
  /\ UNCHANGED <<pool, loopvars, fdmap, closing, kernelvars, history>>
-----------------------------------------------------------------------------
(* processClient. *)

(* Faulty variants of ReadAgain: one read per event; EAGAIN is not noticed. *)
ReadOnce ==
  /\ Pool!PushRead(iofd)
  /\ IOAt("read", "signal")
  /\ conn[iofd] # NoConn /\ inbox[conn[iofd]] > 0
  /\ inbox' = [inbox EXCEPT ![conn[iofd]] = @ - 1]
  /\ origin' = [origin EXCEPT ![nread'] = conn[iofd]]
  /\ UNCHANGED <<writeronly, loopvars, fdmap, closing, conn, nconn, arrived,
                 watched, ready, sent, peer, crossed>>

ReadUnchecked ==
  /\ Pool!PushRead(iofd)
  /\ IOAt("read", "read")
  /\ conn[iofd] # NoConn
  /\ inbox' = [inbox EXCEPT ![conn[iofd]] = @ - 1]
  /\ origin' = [origin EXCEPT ![nread'] = conn[iofd]]
  /\ UNCHANGED <<writeronly, loopvars, fdmap, closing, conn, nconn, arrived,
                 watched, ready, sent, peer, crossed>>

ReadAgain ==
  /\ Pool!PushRead(iofd)
  /\ IOAt("read", "read")
  /\ conn[iofd] # NoConn /\ inbox[conn[iofd]] > 0
  /\ inbox' = [inbox EXCEPT ![conn[iofd]] = @ - 1]
  /\ origin' = [origin EXCEPT ![nread'] = conn[iofd]]
  /\ UNCHANGED <<writeronly, loopvars, fdmap, closing, conn, nconn, arrived,
                 watched, ready, sent, peer, crossed>>

(* An error other than EAGAIN (the number was closed meanwhile, or the     *)
(* connection was reset) is pushed like data, and the loop goes on.        *)
ReadError ==
  /\ Pool!PushRead(iofd)
  /\ IOAt("read", "read")
  /\ \/ conn[iofd] = NoConn /\ UNCHANGED peer
     \/ /\ conn[iofd] # NoConn
        /\ inbox[conn[iofd]] = 0
        /\ peer[conn[iofd]] = "reset"
        /\ peer' = [peer EXCEPT ![conn[iofd]] = "dead"]
  /\ origin' = [origin EXCEPT ![nread'] = conn[iofd]]
  /\ UNCHANGED <<writeronly, loopvars, fdmap, closing, conn, nconn, arrived,
                 watched, ready, inbox, sent, crossed>>

(* Faulty variant of ReadNothing: EAGAIN is taken for the end. *)
ReadNothingCloses ==
  /\ IOAt("read", "signal")
  /\ conn[iofd] # NoConn
  /\ inbox[conn[iofd]] = 0
  /\ peer[conn[iofd]] = "open"
  /\ StartClose("io", iofd)
  /\ UNCHANGED <<poolall, writeronly, loopvars, fdmap, kernelvars, history>>

ReadNothing ==
  /\ IOAt("read", "signal")
  /\ conn[iofd] # NoConn
  /\ inbox[conn[iofd]] = 0
  /\ peer[conn[iofd]] = "open"
  /\ UNCHANGED <<poolall, writeronly, loopvars, fdmap, closing, kernelvars, history>>

(* Faulty variant of ReadEnd: the connection is left alone. *)
ReadEndIgnored ==
  /\ IOAt("read", "signal")
  /\ conn[iofd] # NoConn
  /\ inbox[conn[iofd]] = 0
  /\ peer[conn[iofd]] \in {"finished", "dead"}
  /\ UNCHANGED <<poolall, writeronly, loopvars, fdmap, closing, kernelvars, history>>

ReadEnd ==
  /\ IOAt("read", "signal")
  /\ conn[iofd] # NoConn
  /\ inbox[conn[iofd]] = 0
  /\ peer[conn[iofd]] \in {"finished", "dead"}
  /\ StartClose("io", iofd)
  /\ UNCHANGED <<poolall, writeronly, loopvars, fdmap, kernelvars, history>>

SignalReaders ==
  /\ IOAt("signal", "out")
  /\ \/ Pool!SignalReaders
     \/ ~readsome /\ UNCHANGED poolall
  /\ UNCHANGED <<writeronly, loopvars, fdmap, closing, kernelvars, history>>

(* Faulty variant of HandleOut: without sokectstatesMutex. *)
HandleOutUnlocked ==
  /\ IOAt("out", "err")
  /\ IF "out" \in ioevents /\ socketstates[iofd] = "cannotwrite"
     THEN socketstates' = [socketstates EXCEPT ![iofd] = "canwrite"]
     ELSE UNCHANGED socketstates
  /\ UNCHANGED <<running, writequeuemap, buffers, lastPos, closeAfterSendAll, spc,
                 todo, fddead, space, accepted, wire, pool, loopvars, fdmap,
                 closing, kernelvars, history>>

HandleOut ==
  /\ IOAt("out", "err")
  /\ \/ "out" \in ioevents /\ Writer!SetWritable(iofd)
     \/ /\ "out" \in ioevents /\ Writer!Unlocked /\ socketstates[iofd] # "cannotwrite"
        /\ UNCHANGED <<running, writeronly>>
     \/ "out" \notin ioevents /\ UNCHANGED <<running, writeronly>>
  /\ UNCHANGED <<pool, loopvars, fdmap, closing, kernelvars, history>>

HandleFault(label, event, next) ==
  /\ IOAt(label, next)
  /\ IF event \in ioevents THEN StartClose("io", iofd) ELSE UNCHANGED closing
  /\ UNCHANGED <<poolall, writeronly, loopvars, fdmap, kernelvars, history>>

HandleErr == HandleFault("err", "err", "hup")
HandleHup == HandleFault("hup", "hup", "dispatch")
-----------------------------------------------------------------------------
(* The end of Run, and SIGINT. *)

LeaveRun ==
  /\ IOAt("check", "left")
  /\ Pool!Broadcast
  /\ ready' = ready \ {Listen}
  /\ UNCHANGED <<writeronly, loopvars, fdmap, closing, conn, nconn, arrived,
                 watched, inbox, sent, peer, history>>

JoinWorkers ==
  /\ iopc = "left"
  /\ Pool!JoinWorkers
  /\ UNCHANGED <<writeronly, iovars>>

JoinWriter ==
  /\ mainpc = "done"
  /\ spc = "exited"
  /\ IOAt("left", "returned")
  /\ UNCHANGED <<poolall, writeronly, loopvars, fdmap, closing, kernelvars, history>>

Stop ==
  /\ Alive
  /\ Stoppable
  /\ Pool!Stop
  /\ UNCHANGED <<writeronly, iovars>>

IOStep ==
  \/ TestRunning \/ EpollWait \/ DispatchEvent \/ EndBatch
  \/ AcceptConnection \/ AcceptFails \/ AddFD \/ InsertState \/ InsertQueue
  \/ ReadAgain \/ ReadError \/ ReadNothing \/ ReadEnd
  \/ SignalReaders \/ HandleOut \/ HandleErr \/ HandleHup
  \/ CloseStep("io")
  \/ LeaveRun \/ JoinWorkers \/ JoinWriter
-----------------------------------------------------------------------------
(* The workers; datainput may hand bytes to AddWriteQueue. *)

WorkerStep(w) ==
  Alive /\ Pool!WorkerStep(w) /\ UNCHANGED <<writeronly, iovars>>
SpuriousWakeup(w) ==
  Alive /\ Pool!SpuriousWakeup(w) /\ UNCHANGED <<writeronly, iovars>>

Reply(w) ==
  /\ Alive
  /\ wpc[w] = "input"
  /\ Writer!AddWriteQueue(wbuf[w].exdata)
  /\ UNCHANGED <<pool, iovars>>

(* The writer.  write() fails on a number that was closed; on a connection *)
(* that was reset it reports the reset once, or there is nothing left to   *)
(* report and it raises SIGPIPE, which the program neither handles nor     *)
(* ignores.                                                                *)
Writable(fd) == conn[fd] # NoConn /\ ~Broken(conn[fd])

WriteFails(fd) ==
  /\ Alive
  /\ Writer!WriteFails(fd)
  /\ \/ conn[fd] = NoConn /\ UNCHANGED peer
     \/ /\ conn[fd] # NoConn /\ peer[conn[fd]] = "reset"
        /\ peer' = [peer EXCEPT ![conn[fd]] = "dead"]
  /\ UNCHANGED <<pool, iopc, loopvars, fdmap, closing, conn, nconn, arrived,
                 watched, ready, inbox, sent, history>>

BrokenPipe(fd) ==
  /\ Alive
  /\ Writer!Writing(fd)
  /\ conn[fd] # NoConn /\ Broken(conn[fd])
  /\ iopc' = "killed"
  /\ UNCHANGED <<poolall, writeronly, loopvars, fdmap, closing, kernelvars, history>>

WriterScan ==
  /\ Alive
  /\ \/ Writer!CheckRunning
     \/ Writer!StartScan
     \/ Writer!EndScan
     \/ closing["writer"].stage = "idle" /\ Writer!EndCloses
     \/ \E fd \in Fd :
          \/ Writer!SkipSocket(fd)
          \/ Writer!PopBuffer(fd)
          \/ Writable(fd) /\ (Writer!WriteSome(fd) \/ Writer!WriteBlocked(fd))
          \/ Writer!FinishSocket(fd)
  /\ UNCHANGED <<pool, iovars>>

WriterCloses(fd) ==
  /\ Alive
  /\ spc = "close"
  /\ closing["writer"].stage = "idle"
  /\ Writer!Closing(fd)
  /\ StartClose("writer", fd)
  /\ UNCHANGED <<poolall, writeronly, iopc, loopvars, fdmap, kernelvars, history>>

WriterStep ==
  \/ WriterScan
  \/ \E fd \in Fd : WriteFails(fd) \/ BrokenPipe(fd) \/ WriterCloses(fd)
  \/ CloseStep("writer")

Next ==
  \/ PeerStep
  \/ \E fd \in Fd : SocketDrained(fd)
  \/ IOStep
  \/ Interrupted
  \/ Stop
  \/ \E w \in Worker : WorkerStep(w) \/ SpuriousWakeup(w) \/ Reply(w)
  \/ WriterStep

(* Each thread is scheduled.  The IO thread needs mutexes that the writer  *)
(* takes again and again: strong fairness says that it gets them.  Peers,  *)
(* replies, interrupts and the stop request are owed to nobody.            *)
Fairness ==
  /\ SF_hostvars(IOStep)
  /\ \A w \in Worker : WF_hostvars(WorkerStep(w))
  /\ WF_hostvars(WriterStep)

SafeSpec == Init /\ [][Next]_hostvars
Spec == SafeSpec /\ Fairness
-----------------------------------------------------------------------------
TypeOK ==
  /\ Pool!TypeOK
  /\ Writer!TypeOK
  /\ iopc \in {"check", "poll", "dispatch", "accept", "addfd", "newstate",
               "newqueue", "read", "signal", "out", "err", "hup", "left",
               "returned", "killed"}
  /\ iofd \in Fd \cup {Listen}
  /\ ioevents \subseteq {"in", "out", "err", "hup"}
  /\ batch \subseteq [fd : Fd \cup {Listen}, events : SUBSET {"in", "out", "err", "hup"}]
  /\ fdmap \subseteq Fd
  /\ closing \in [Closer -> [stage : CloseStage, fd : Fd \cup {Listen}]]
  /\ conn \in [Fd -> Conn \cup {NoConn}]
  /\ nconn \in 0..MaxConns /\ arrived \in nconn..MaxConns
  /\ watched \subseteq Fd
  /\ ready \subseteq watched \cup {Listen}
  /\ inbox \in [Conn -> 0..MaxSent]
  /\ sent \in 0..MaxSent
  /\ peer \in [Conn -> {"open", "finished", "reset", "dead"}]
  /\ origin \in [1..MaxReads -> Conn \cup {NoConn}]
  /\ crossed \subseteq Fd

IsClosing(fd) == \E c \in Closer : closing[c].stage # "idle" /\ closing[c].fd = fd

(* Edge-triggered epoll reports news once.  Unread data, or the end of the *)
(* data, of an open connection is therefore always on its way to read():   *)
(* the descriptor is on the ready list, in the batch, or the IO thread is  *)
(* before or in its read loop (or the connection is being closed).         *)
NoStrandedInput ==
  \A fd \in Fd :
    /\ Alive
    /\ conn[fd] # NoConn
    /\ inbox[conn[fd]] > 0 \/ peer[conn[fd]] # "open"
    => \/ fd \in ready
       \/ \E e \in batch : e.fd = fd /\ "in" \in e.events
       \/ iofd = fd /\ iopc \in {"addfd", "read"}
       \/ IsClosing(fd)

(* A worker finds nothing in the queue that the earlier holder of a number *)
(* sent: closesocket throws the queued buffers away before close(fd) lets  *)
(* the kernel give the number to the next connection.  Errors of read() on *)
(* a closed number are queued as well (NoConn).  The writer's close, or an *)
(* event in the batch, that is still under way when the number is given    *)
(* out again belongs to the wrong connection: such numbers are crossed.    *)
NoStaleReads ==
  \A b \in readdataqueue :
    LET c == conn[b.exdata]
    IN b.exdata \notin crossed /\ c # NoConn => origin[b.seq] \in {c, NoConn}

(* Whenever the IO thread is in epoll_wait, its tables, epoll and the      *)
(* kernel's descriptor table agree on which connections there are, but for *)
(* the numbers that the writer is closing at that moment and the crossed   *)
(* ones.                                                                   *)
Known(fd) == socketstates[fd] # "absent"
TablesAgree ==
  iopc = "poll" =>
    \A fd \in Fd \ crossed :
      LET isopen == conn[fd] # NoConn
      IN IsClosing(fd) \/ /\ fd \in fdmap <=> isopen
                          /\ fd \in watched <=> isopen
                          /\ Known(fd) <=> isopen
                          /\ fd \in writequeuemap <=> isopen

(* A connection that is closed is one whose peer ended it, and what was    *)
(* read leaves the queue to a worker, or is thrown away because the peer   *)
(* ended that very connection: closesocket also discards what was read     *)
(* just before the end (HttpServer.cpp:179, 378-387), but never what a     *)
(* connection sends that goes on.  Where a connection is mistaken for      *)
(* another, its number was crossed: given out again between two events of  *)
(* a batch, or during the writer's slower close of the same number.        *)
OnlyEndedLose ==
  [][/\ \A fd \in Fd \ crossed :
          conn[fd] # NoConn /\ conn'[fd] # conn[fd] => peer[conn[fd]] # "open"
     /\ \A b \in readdataqueue \ readdataqueue' :
          \/ \E w \in Worker : wpc[w] # "picked" /\ wpc'[w] = "picked" /\ wbuf'[w] = b
          \/ b.exdata \in crossed
          \/ origin[b.seq] = NoConn
          \/ peer[origin[b.seq]] # "open"]_hostvars

(* HttpHost takes only steps that its two components allow.                *)
PoolSpec == Pool!SafeSpec
WriterSpec == Writer!SafeSpec

(* The read loop takes EBADF for data: once the writer has closed the      *)
(* descriptor under it, it goes round for ever (HttpServer.cpp:156-177).   *)
ReadsForever == iopc = "read" /\ conn[iofd] = NoConn

(* What a peer sends is read, and a connection that it ends is closed,     *)
(* while the server runs and the IO thread is not caught in that loop.  A  *)
(* connection that is reset may be closed with data unread, and writing to *)
(* it twice ends the process.                                              *)
Seen(c) ==
  \/ inbox[c] = 0 /\ peer[c] = "open"
  \/ /\ c <= nconn /\ \A fd \in Fd : conn[fd] # c
     /\ inbox[c] = 0 \/ Broken(c)
EveryEventSeen ==
  \A c \in Conn :
    (inbox[c] > 0 \/ peer[c] # "open")
      ~> (Seen(c) \/ ~running \/ ~Alive \/ ReadsForever)

(* A stop request that comes while the IO thread handles events is seen at *)
(* the next test of running: it can be overlooked in epoll_wait, between   *)
(* the test and epoll_wait (HttpServer.cpp:84-86), and in the endless read *)
(* loop, but nowhere else.                                                 *)
StopSeen ==
  (~running /\ iopc # "poll")
    ~> (iopc \in {"left", "returned", "killed"} \/ ReadsForever)
=============================================================================
