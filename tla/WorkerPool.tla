------------------------------ MODULE WorkerPool ------------------------------
(***************************************************************************)
(* The read queue of CHttpHost and the worker threads that serve it        *)
(* (HttpServer.cpp: processthread, the queue half of processClient, the    *)
(* purges of closesocket, the broadcast and the joins at the end of Run).  *)
(*                                                                         *)
(* Every critical section is one action: each of the mutexes below is      *)
(* taken, used and released within it, and where two are nested            *)
(* (readdataqueuelock or taskpollLock, then procFileLock) the outer one    *)
(* hides the state between the two acquisitions.                           *)
(*                                                                         *)
(* readdataqueue, a std::list with push_back and erase, is the set of its  *)
(* elements: a buffer carries the number `seq' of the read that filled it, *)
(* so "nearer to begin()" is "smaller seq".  A FileTask is named by the    *)
(* seq of the buffer it was created for; 0 stands for no task.             *)
(***************************************************************************)
EXTENDS Naturals, FiniteSets

CONSTANTS
  Fd,         \* descriptor numbers of client connections
  Worker,     \* the worker threads (workThreadCount = 5 in Run)
  Closable,   \* descriptors that closesocket may be called for
  MaxReads,   \* bound on the number of buffers read
  NoBuffer    \* a null LPCBUFFER

ASSUME WorkerAssumption == Worker # {}
ASSUME ClosableAssumption == Closable \subseteq Fd
ASSUME MaxReadsAssumption == MaxReads \in Nat

VARIABLES
  running,         \* CHttpHost::running
  mainpc,          \* phase of Run: event loop, joining the threads, returned
  nread,           \* number of buffers pushed so far (names the next one)
  readsome,        \* the IO thread pushed and has not signalled readqueueWait
  readdataqueue,   \* CHttpHost::readdataqueue
  taskpoll,        \* CHttpHost::taskpoll, NoTask where the map has no entry
  processingFile,  \* CHttpHost::processingFile
  wpc,             \* where each worker is in processthread
  wbuf,            \* its local `buffer'
  wtask,           \* its local `fdtask'
  missed           \* history: workers between the test of running and the
                   \* wait when readqueueWait was broadcast

poolvars == <<running, mainpc, nread, readsome, readdataqueue, taskpoll,
              processingFile, wpc, wbuf, wtask, missed>>

Buffer == [exdata : Fd, seq : Nat \ {0}]
NoTask == 0
Task == Nat

(* The program counters of a worker: "check" is the test of while(running),*)
(* "lock" is after it, "waiting" and "woken" are in readqueueWait.Wait,    *)
(* "picked" holds a buffer and no task, "input" is inside datainput.       *)
WorkerPC == {"check", "lock", "waiting", "woken", "picked", "input", "exited"}
Holding(w) == wpc[w] \in {"picked", "input"}

Init ==
  /\ running = TRUE
  /\ mainpc = "loop"
  /\ nread = 0
  /\ readsome = FALSE
  /\ readdataqueue = {}
  /\ taskpoll = [fd \in Fd |-> NoTask]
  /\ processingFile = {}
  /\ wpc = [w \in Worker |-> "check"]
  /\ wbuf = [w \in Worker |-> NoBuffer]
  /\ wtask = [w \in Worker |-> NoTask]
  /\ missed = {}

GoTo(w, label) == wpc' = [wpc EXCEPT ![w] = label]
-----------------------------------------------------------------------------
(* The IO thread: processClient pushes one buffer per successful read and  *)
(* signals once after its read loop.  That one call reads one descriptor   *)
(* only, and that closesocket takes its steps in order, is HttpHost's      *)
(* business: here every order is allowed.                                  *)

PushRead(fd) ==
  /\ mainpc = "loop"
  /\ nread < MaxReads
  /\ nread' = nread + 1
  /\ readdataqueue' = readdataqueue \cup {[exdata |-> fd, seq |-> nread']}
  /\ readsome' = TRUE
  /\ UNCHANGED <<running, mainpc, taskpoll, processingFile, wpc, wbuf, wtask, missed>>

(* Faulty variant of SignalReaders: the signal is lost. *)
SignalNobody ==
  /\ readsome
  /\ readsome' = FALSE
  /\ UNCHANGED <<running, mainpc, nread, readdataqueue, taskpoll,
                 processingFile, wpc, wbuf, wtask, missed>>

SignalReaders ==
  /\ readsome
  /\ readsome' = FALSE
  /\ \/ /\ \A w \in Worker : wpc[w] # "waiting"
        /\ UNCHANGED wpc
     \/ \E w \in Worker : wpc[w] = "waiting" /\ GoTo(w, "woken")
  /\ UNCHANGED <<running, mainpc, nread, readdataqueue, taskpoll,
                 processingFile, wbuf, wtask, missed>>
-----------------------------------------------------------------------------
(* The three steps of closesocket that touch this component, each under a  *)
(* lock of its own, by the IO thread or by the writer thread.              *)

DiscardReads(fd) ==
  /\ readdataqueue' = {b \in readdataqueue : b.exdata # fd}
  /\ UNCHANGED <<running, mainpc, nread, readsome, taskpoll, processingFile,
                 wpc, wbuf, wtask, missed>>

DropTask(fd) ==
  /\ taskpoll' = [taskpoll EXCEPT ![fd] = NoTask]
  /\ UNCHANGED <<running, mainpc, nread, readsome, readdataqueue,
                 processingFile, wpc, wbuf, wtask, missed>>

Unmark(fd) ==
  /\ processingFile' = processingFile \ {fd}
  /\ UNCHANGED <<running, mainpc, nread, readsome, readdataqueue, taskpoll,
                 wpc, wbuf, wtask, missed>>
-----------------------------------------------------------------------------
(* The worker threads: processthread.                                      *)

CheckRunning(w) ==
  /\ wpc[w] = "check"
  /\ GoTo(w, IF running THEN "lock" ELSE "exited")
  /\ UNCHANGED <<running, mainpc, nread, readsome, readdataqueue, taskpoll,
                 processingFile, wbuf, wtask, missed>>

WaitForReads(w) ==
  /\ wpc[w] = "lock"
  /\ readdataqueue = {}
  /\ GoTo(w, "waiting")
  /\ UNCHANGED <<running, mainpc, nread, readsome, readdataqueue, taskpoll,
                 processingFile, wbuf, wtask, missed>>

(* pthread_cond_wait may return without a signal. *)
SpuriousWakeup(w) ==
  /\ wpc[w] = "waiting"
  /\ GoTo(w, "woken")
  /\ UNCHANGED <<running, mainpc, nread, readsome, readdataqueue, taskpoll,
                 processingFile, wbuf, wtask, missed>>

WakeToNothing(w) ==
  /\ wpc[w] = "woken"
  /\ readdataqueue = {}
  /\ GoTo(w, "check")
  /\ UNCHANGED <<running, mainpc, nread, readsome, readdataqueue, taskpoll,
                 processingFile, wbuf, wtask, missed>>

Eligible == {b \in readdataqueue : b.exdata \notin processingFile}

(* The walk over the list: the first buffer whose descriptor no worker has *)
(* marked leaves the queue; without one the worker goes round its loop.    *)
Walked(w) ==
  /\ wpc[w] \in {"lock", "woken"}
  /\ readdataqueue # {}
  /\ UNCHANGED <<running, mainpc, nread, readsome, taskpoll, processingFile,
                 wtask, missed>>

PickFrom(w, candidates) ==
  \E b \in candidates :
    /\ wbuf' = [wbuf EXCEPT ![w] = b]
    /\ readdataqueue' = readdataqueue \ {b}
    /\ GoTo(w, "picked")

(* Faulty variants of PickBuffer and FindNoBuffer: the walk runs from the  *)
(* back of the list; a null buffer is not noticed.                         *)
PickNewest(w) ==
  Walked(w) /\ PickFrom(w, {b \in Eligible : \A c \in Eligible : c.seq <= b.seq})

PickBuffer(w) ==
  Walked(w) /\ PickFrom(w, {b \in Eligible : \A c \in Eligible : b.seq <= c.seq})

PickNullBuffer(w) ==
  Walked(w) /\ Eligible = {} /\ GoTo(w, "picked") /\ UNCHANGED <<wbuf, readdataqueue>>

FindNoBuffer(w) ==
  Walked(w) /\ Eligible = {} /\ GoTo(w, "check") /\ UNCHANGED <<wbuf, readdataqueue>>

(* Under taskpollLock: find or create the task, then mark the descriptor.  *)
StartInput(w) ==
  /\ wpc[w] = "picked"
  /\ LET fd == wbuf[w].exdata
         task == IF taskpoll[fd] # NoTask THEN taskpoll[fd] ELSE wbuf[w].seq
     IN /\ taskpoll' = [taskpoll EXCEPT ![fd] = task]
        /\ wtask' = [wtask EXCEPT ![w] = task]
        /\ processingFile' = processingFile \cup {fd}
  /\ GoTo(w, "input")
  /\ UNCHANGED <<running, mainpc, nread, readsome, readdataqueue, wbuf, missed>>

LeaveInput(w) ==
  /\ wpc[w] = "input"
  /\ GoTo(w, "check")
  /\ wbuf' = [wbuf EXCEPT ![w] = NoBuffer]
  /\ wtask' = [wtask EXCEPT ![w] = NoTask]
  /\ UNCHANGED <<running, mainpc, nread, readsome, readdataqueue, taskpoll, missed>>

(* Faulty variant of FinishInput: the mark is not erased. *)
FinishKeepsMark(w) == LeaveInput(w) /\ UNCHANGED processingFile

FinishInput(w) ==
  LeaveInput(w) /\ processingFile' = processingFile \ {wbuf[w].exdata}
-----------------------------------------------------------------------------
(* The end of Run: SIGINT's handler clears running at any time; the main   *)
(* thread leaves its loop, broadcasts and joins.                           *)

Stop ==
  /\ running
  /\ running' = FALSE
  /\ UNCHANGED <<mainpc, nread, readsome, readdataqueue, taskpoll,
                 processingFile, wpc, wbuf, wtask, missed>>

LeaveLoop ==
  /\ mainpc = "loop"
  /\ ~running
  /\ ~readsome
  /\ mainpc' = "join"
  /\ missed' = {w \in Worker : wpc[w] = "lock"}
  /\ UNCHANGED <<running, nread, readsome, readdataqueue, taskpoll,
                 processingFile, wbuf, wtask>>

(* Faulty variant of Broadcast: pthread_cond_signal instead. *)
BroadcastToOne ==
  /\ LeaveLoop
  /\ \/ (\A w \in Worker : wpc[w] # "waiting") /\ UNCHANGED wpc
     \/ \E w \in Worker : wpc[w] = "waiting" /\ GoTo(w, "woken")

Broadcast ==
  /\ LeaveLoop
  /\ wpc' = [w \in Worker |-> IF wpc[w] = "waiting" THEN "woken" ELSE wpc[w]]

JoinWorkers ==
  /\ mainpc = "join"
  /\ \A w \in Worker : wpc[w] = "exited"
  /\ mainpc' = "done"
  /\ UNCHANGED <<running, nread, readsome, readdataqueue, taskpoll,
                 processingFile, wpc, wbuf, wtask, missed>>
-----------------------------------------------------------------------------
WorkerStep(w) ==
  \/ CheckRunning(w)
  \/ WaitForReads(w)
  \/ WakeToNothing(w)
  \/ PickBuffer(w)
  \/ FindNoBuffer(w)
  \/ StartInput(w)
  \/ FinishInput(w)

CloseStep(fd) == DiscardReads(fd) \/ DropTask(fd) \/ Unmark(fd)

Next ==
  \/ \E fd \in Fd : PushRead(fd)
  \/ SignalReaders
  \/ \E fd \in Closable : CloseStep(fd)
  \/ \E w \in Worker : WorkerStep(w) \/ SpuriousWakeup(w)
  \/ Stop
  \/ Broadcast
  \/ JoinWorkers

(* The threads are scheduled, datainput returns and the mutexes do not     *)
(* starve; reads, closes, the stop request and spurious wakeups are owed   *)
(* to nobody.                                                              *)
Fairness ==
  /\ \A w \in Worker : WF_poolvars(WorkerStep(w))
  /\ WF_poolvars(SignalReaders)
  /\ WF_poolvars(Broadcast)
  /\ WF_poolvars(JoinWorkers)

SafeSpec == Init /\ [][Next]_poolvars
Spec == SafeSpec /\ Fairness
-----------------------------------------------------------------------------
TypeOK ==
  /\ running \in BOOLEAN
  /\ mainpc \in {"loop", "join", "done"}
  /\ nread \in Nat
  /\ readsome \in BOOLEAN
  /\ readdataqueue \subseteq Buffer
  /\ taskpoll \in [Fd -> Task]
  /\ processingFile \subseteq Fd
  /\ wpc \in [Worker -> WorkerPC]
  /\ wbuf \in [Worker -> Buffer \cup {NoBuffer}]
  /\ wtask \in [Worker -> Task]
  /\ missed \subseteq Worker
  /\ \A w \in Worker : Holding(w) => wbuf[w] \in Buffer

(* A mark in processingFile has an owner: some worker is inside datainput  *)
(* with a buffer of that descriptor.  A mark without one would shut the    *)
(* descriptor's buffers out of the walk for ever while every worker spins  *)
(* over a queue that is not empty (HttpServer.cpp:311-324, 340, 345).      *)
NoOrphanMark ==
  \A fd \in processingFile :
    \E w \in Worker : wpc[w] = "input" /\ wbuf[w].exdata = fd

(* While the server runs, a queue that is not empty always has somebody    *)
(* coming for it: the IO thread still owes a signal, or a worker is out of *)
(* the wait.  Wait is entered under the lock after an emptiness test, and  *)
(* the signal follows the push outside it (HttpServer.cpp:189-196,         *)
(* 302-308); one signal may stand for many buffers.                        *)
NoLostWakeup ==
  running /\ readdataqueue # {} /\ ~readsome
    => \E w \in Worker : wpc[w] \notin {"waiting", "exited"}

(* Buffers of one descriptor leave the queue in the order they were read,  *)
(* however many workers walk it and whatever is purged meanwhile: what a   *)
(* worker holds is older than all that is still queued for the descriptor. *)
TakenInOrder ==
  \A w \in Worker : Holding(w) =>
    \A b \in readdataqueue : b.exdata = wbuf[w].exdata => wbuf[w].seq < b.seq

(* No read is handed out twice: two workers never hold the same buffer.    *)
HandedOutOnce ==
  \A v, w \in Worker :
    v # w /\ Holding(v) /\ Holding(w) => wbuf[v].seq # wbuf[w].seq

(* Both: every read is handed out in order and once (HttpServer.cpp:310-334). *)
InOrderOnce == TakenInOrder /\ HandedOutOnce

(* The comment over the walk (HttpServer.cpp:312, "thread synchronisation, *)
(* so that several threads do not process the same filetask"): two workers *)
(* are never inside datainput of one task.                                 *)
OneWorkerPerTask ==
  \A v, w \in Worker :
    v # w /\ wpc[v] = "input" /\ wpc[w] = "input" => wtask[v] # wtask[w]

(* Every buffer that is read is picked or purged, unless the server stops. *)
Queued(n) == \E b \in readdataqueue : b.seq = n
EveryReadTaken ==
  \A n \in 1..MaxReads : Queued(n) ~> (~Queued(n) \/ ~running)

(* Shutdown.  The broadcast is sent without readdataqueuelock              *)
(* (HttpServer.cpp:92) and the wait does not test running (303-305), so a  *)
(* worker that is between its test of running and the wait misses it and   *)
(* pthread_join hangs.  Nobody else does: while Run joins, only a worker   *)
(* that missed the broadcast is in the wait.                               *)
OnlyMissedWait ==
  mainpc = "join" => \A w \in Worker : wpc[w] = "waiting" => w \in missed

(* And when no worker missed the broadcast, Run returns.                   *)
CleanShutdown == (mainpc = "join" /\ missed = {}) ~> (mainpc = "done")
=============================================================================
