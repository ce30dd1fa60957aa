# A formal model of epoolhttp

epoolhttp is a small HTTP server for geographic points: one thread runs an
edge-triggered epoll loop, five workers parse requests and run them against a
Berkeley DB environment, and one thread writes the replies.  This directory
models its concurrency and its protocol logic in TLA+, checks the models with
TLC on small instances and proves the main invariants with TLAPS for every
instance.  Source paths below are relative to the repository root; line numbers
refer to the commit the model was written from.

## 1. Inventory

| Part | State | Operations | Interacts through |
| --- | --- | --- | --- |
| IO loop (`src/Http/IOLoop.cpp`) | `fdmap`, the epoll set, idle callbacks | `AddFD`, `DelFD`, `run_once` | callbacks `processListener`, `processClient` |
| Host (`src/Http/HttpServer.cpp`, IO thread) | `running`, the descriptor table of the process | `Run`, `Stop`, `processListener`, `processClient`, `closesocket`, `idelProcess` | the maps and queues below, two condition variables |
| Read queue and workers (same file) | `readdataqueue`, `taskpoll`, `processingFile` | push and signal, `processthread`, the purges of `closesocket` | `FileTask::datainput` |
| Write queues and writer (same file) | `writequeuemap`, `socketstates` | `AddWriteQueue`, `SetCloseAfterSendAll`, `writeSocketThread` | `closesocket` from the writer thread |
| HTTP task (`src/Http/HttpTask.cpp`) | `request`, `writeoutbuffer` | `datainput`, `WriteOut`, `WriteOutFlush` | `AddWriteQueue` |
| Request parser (`src/Http/HttpServerRequest.cpp`) | parser state, lines, heads, body | `InputBuffer`, `InputChar`, `Init`; `UriSplit::Decode` | `ByteStream` |
| Response (`src/Http/HttpServerResponse.cpp`) | code, heads | `Message`, `SaveHead` | |
| Geo requests (`src/GeoHttpDb`) | none | `ProcessRequest`, `ProcessGeoPoint` | `CBackDb` |
| Database (`src/db`) | `canwrite`, the record store, its geographic index, replication | `AddPoint`, `ReadAreaPoint`, event callback | Berkeley DB, its replication threads |
| Morton codes (`src/db/geofunction.cpp`) | none | `Combine`, `Split` | |
| Reference counts (`src/tools/IPtr.h`) | `m_ref` of every shared object | copy, assignment, destructor of `CIPtr` | every container above |
| Configuration (`src/config`), other tools (`src/tools`) | key-value map; byte streams, locks | | |

What is hard about it:

* seven threads share six containers under five mutexes, and most operations
  take several critical sections: pick and mark of a buffer, the seven steps of
  `closesocket`, condemning a socket and closing it;
* the kernel reuses a descriptor number as soon as it is closed, while the
  program names connections by that number in every table;
* epoll is edge-triggered, so an event that is not used up is lost;
* two threads close sockets;
* shutdown needs every blocked thread to be woken;
* what is saved is acknowledged before it is on disk, by a site that may lose the
  role of master at any time.

The properties that make each part correct are stated in the modules; the list
of hazards with the properties aimed at them is in `PROJECT.json`.

## 2. Modules

### WorkerPool

The read queue and the worker threads.  One action is one critical section of
`HttpServer.cpp`.  `PushRead` and `SignalReaders` are the queue half of
`processClient` (174-196); `DiscardReads`, `DropTask` and `Unmark` are the three
purges of `closesocket` (378-395); `CheckRunning`, `WaitForReads`,
`WakeToNothing`, `PickBuffer`, `FindNoBuffer`, `StartInput` and `FinishInput`
are `processthread` (297-348); `Stop`, `Broadcast` and `JoinWorkers` are the end
of `Run` (84-98).  Condition variables are wait sets: a signal moves one waiting
worker, a broadcast all of them, and a wakeup may be spurious.  Here closes and
reads come in any order; `HttpHost` adds the order the IO thread gives them.
Nested locks (`readdataqueuelock` or `taskpollLock` around `procFileLock`,
`writequeuemaplock` around `sokectstatesMutex`) never form a cycle and the outer
lock hides the intermediate states, so nothing is lost by making the section
atomic.

### SocketWriter and OutStream

The write queues and the writer thread.  While the writer is in its walk (`spc =
"scan"`) it holds both locks and every action of another thread on the two maps
is disabled.  `PopBuffer`, `WriteSome`, `WriteBlocked`, `WriteFails` and
`FinishSocket` are the body of the walk (243-279).  Bytes are numbered in the
order `AddWriteQueue` accepts them, so `wire` shows any byte that is skipped,
repeated or overtaken.  `OutStream` is what the write side promises: an in-order
stream per descriptor that ends only by being dropped.

### HttpHost

The composition.  It instantiates both components and adds the IO thread
(`iopc`), `closesocket` as seven steps that either thread can be in the middle
of (`closing`), and a model of the kernel: the descriptor table `conn`, the
epoll set `watched`, the edge-triggered ready list, unread input per
connection, and peers that send, finish or reset.  `epoll_wait` takes
descriptors off the ready list and reports the state of each at that moment.
After a reset, the first `read` or `write` reports it (`"reset"` becomes
`"dead"`), later reads see the end, later writes raise SIGPIPE, which ends the
process.  `PoolSpec` and `WriterSpec` say that the composite, projected on a
component's variables, is a behaviour of the component: the invariants proved
for the components hold inside the host.

The kernel gives a number out again as soon as it is closed, while the program
may still have something to do with its earlier holder: an event in the batch,
an entry in `fddead`, or the writer in the middle of `closesocket`.  The history
variable `crossed` holds the numbers for which `AcceptConnection` found this to
be so (`Pending`).

### HttpRequest

`CHttpServerRequest` and the `HttpTask` around it, for one connection whose
reads are processed one after the other (the run `pool_one_worker` shows that
the code does not guarantee that).  A connection carries a sequence of messages;
`DataInput` is the call of `datainput` with the next read, cut at any place the
constant `Pieces` allows; one action is one round of its loop: `InputChar`,
`EndLine`, `EndHead` for a byte of a head, `InputBody` for as much of a body as
the read holds, `WriteOut` for a round of the copy loop, `ClearRequest` for
`Init`, `WriteOutFlush` at the end.  A byte is a character the parser looks for
or stands for a word it passes on whole, so that messages are short and no cut
can split what the parser tells apart.  A message is its lines and what follows
them, and says which request it means, which is the reference the parser is
compared with.  It must agree with reading the message at once (`Whole`,
`TooLong`, `Unended` in `MessageAssumption`), which TLC evaluates for the
messages of the run.

### UriSplit

`HttpDecodeUri` and `UriSplit::Decode`, one action per round of a loop, over
character codes.  `Encode` is how a client must write a form (path, parameters,
fragment) for these two decoders; the repository states no convention, and this
one, values escaped twice, is what the code inverts.

The body of a request is a `ByteStream`, the module of that name, which holds
its bytes and its position.

### GeoFun, BackDb and GeoHttp

`GeoFun` holds the codes of points as operators on integers, with the width of a
coordinate and of a byte as constants.  A float is an integer (some steps to a
unit of a code), an infinity or `NaN`; `Less` and `AtMost` are its comparisons.
A sum of floats is rounded (`FloatSum`), so is a unit that becomes a float again
(`ToFloat`). `CombineForGeo` is the set of what it may return: a conversion to
`unsigned int` that does not fit is undefined.

`BackDb` is `CBackDb`, without a next-state relation of its own: `AddPoint`,
`Put`, `Commit` and `Checkpoint` are the steps of `AddPoint` (154-174),
`ReadAreaPoint`, `NextEntry`, `PgetFails` and `Return` the reading of an area,
one action per move of the cursor (176-227), `OnDbEnent` the replication
callback.  Berkeley DB is outside the repository and modelled from how it is
used: a put becomes visible with its commit, a cursor without a transaction sees
what is committed when it moves, and each call may fail.  The index is a set of
entries, each with the place at which it came in: it has `DB_DUP` without
`DB_DUPSORT` (131-132), so a cursor walks the entries of one key in that order
(`Follows`), and an id that is moved away and back comes behind the cursor once
more. The index is declared `DB_IMMUTABLE_KEY` (138) but its key, the position,
changes: when a stored id is saved again elsewhere, the index may follow, stay
as it is, or get the new entry and keep the old one (`Reindexed`), and earlier
runs may have left such entries (`Init`). The results of `put` and `pget` are
returned and ignored; `txn_begin`, `commit`, `txn_checkpoint` and `cursor`
throw, nothing catches it, and the process ends (`Die`); so it does at an
assertion, when a request needs databases that could not be opened (`opened`),
or for any other reason (`Crash`).  `Restart` is the next start: the environment
was opened with `DB_TXN_NOSYNC`, so that recovery finds the databases as they
were after some commit since the last checkpoint (`since`).

`GeoHttp` extends `BackDb` with `GeoHttpTask`: one action per kind of request,
from the uri (as `UriSplit` leaves it) to the reply, which is a code and a
content.  `SavePoint` and `ReadArea` call into the database, `SaveReturns` and
`AreaReturns` come back from it, `WriteReply` writes.  Numbers come from `atof`
and nothing checks them: points and corners are any floats.  Its properties are
about what clients are told: `OkMeansStored`, `AreaComplete`, `AreaSound`.  The
latter two are about entries of the index, because an id may have several:
`AreaComplete` about areas with their corners on the globe and replies that were
read without an error, `AreaSound` about all areas but those with an infinite
longitude.

### RefPointer

`CIPtr` and the count in `IPtrBase`, by which every object that threads share is
kept alive.  Every change of a pointer goes through the steps of `operator=`:
`Release` the old object (decrement; `Delete` where it reached 0), `Assign`,
`AddRef` the new one; a copy begins with a null pointer and the destructor ends
with one.  A step is one access to shared memory, and other threads may run
between any two.  A pointer in a map or list may only be used under its mutex
(`Lock`, `Unlock`); that is how the containers of `CHttpHost` are used.
Addresses of deleted objects are given out again.

### StatusLookup

`GetHttpCodeMessage` with the binary search it uses (`stdext.h:28-55`), one
action per round, over any table; `MCStatusLookup` gives it the codes of
`HttpServerResponse.cpp:56-100`.

## 3. Runs

| Run | Instance | Shows |
| --- | --- | --- |
| `pool` | 2 descriptors, 2 workers, 3 reads | `NoOrphanMark`, `NoLostWakeup`, `InOrderOnce`, `OnlyMissedWait`, `EveryReadTaken`, `CleanShutdown` |
| `pool_one_worker` | 1 descriptor, 2 workers, no closes | `OneWorkerPerTask` is violated |
| `writer` | 2 queues, buffers of 1 or 2 bytes, a send buffer of 1, 2 bytes accepted per queue | `CloseWhenAllSent`, `StreamSpec`, `EveryByteSent` |
| `host_reuse` | 1 descriptor number, 2 connections, the first may be reset, 2 pieces of data, 1 byte of replies | `NoStaleReads`, `TablesAgree`, `OnlyEndedLose` |
| `host_reset` | the same with 1 piece of data | `NoStrandedInput`, `PoolSpec`, `WriterSpec` |
| `host_live` | 1 connection that may be reset, 2 pieces of data, 3 reads, SIGINT at any time | `EveryEventSeen`, `StopSeen` |
| `http_request` | up to 2 of 9 messages and a last one of 3, reads of 1, 5 or all bytes | `ServedAsSent`, `RepliesInOrder`, `InputEnds` |
| `uri_split` | forms of up to 2 parameters; all strings of up to 4 characters behind `/` | `FormRead`, `EndsInside`, `RefusedForCause` |
| `geo_codes` | all pairs of coordinates of 4 bits | `KeyRecovers`, `KeysAscend` |
| `geo_http` | 2 workers, 2 ids, 2 points, 6 areas, an index of at most 1 entry, 2 saves and 1 other request, 1 change of the master, 1 restart, symmetry | `GeoTypeOK`, `OkMeansStored`, `AreaComplete`, `AreaSound`, `CheckpointedSurvives` |
| `ref_pointer` | 2 threads with 2 variables each, 1 shared pointer, 2 addresses, symmetry | `RefIsCount`, `NoUseAfterFree`, `NoLeak` |
| `status_lookup` | every code from 0 to 600 in the table of the code | `LookupRight` |

Bounds.  Two workers and three reads are the least with which a worker holds a
buffer of a descriptor while another one walks the list, skips a marked
descriptor and a buffer is still queued; two descriptors are needed for a buffer
to be skipped.  The writer needs a send buffer smaller than a buffer, for
partial writes, and a second buffer behind the first; that what it writes stays
in order for any sizes and any number of bytes is proved.  One descriptor number
is the worst case for reuse: every new connection gets the number of the last
one.  The first of two connections may be reset, so that both threads close the
number, in either order and with the second connection accepted in between or
after both; the second one shows what the slower close meets.  `host_live` reads
three times: the data and one error of the endless loop, which is at its bound
then and stays there.  `MaxConns`, `MaxReads`, `MaxSent` and `MaxBytes` bound
how often peers act and how much is read or accepted; a thread that meets a
bound waits where it is, which only removes behaviours after that point.

`http_request` needs two messages, so that one follows every other, and a last
one without an end, or the rest of a line that was too long.  Reads of one byte
visit every state of the parser, a read of everything carries several messages
and the border of a body in one buffer, reads of five bytes cut heads and bodies
unevenly.  The limits of a line and of a reply buffer are small so that both are
passed.  `uri_split` has two parameters with equal names in different case, with
every separator in a value.

The areas of `geo_http` lie east of the zero meridian, across it, around the
back of the globe, with a corner off it, with zero times infinity as the product
of the longitudes, and with a corner that is not a number; their corners come in
three of the four orders.  The globe is 24 by 48 steps (`HalfLat` 12, `HalfLng`
24); coordinates have five bits and two steps to a unit (`Grain`), sums are
rounded to three steps (`SumStep`) and units on the way back to two
(`FloatStep`), so that every rounding loses something of the longitudes of both
points.  `Infinity` is 110, beyond whatever a code can mean, and a conversion
that does not fit gives the least or the greatest unit (`Undefined` is `{0,
31}`). Two ids can share a position.  At most one entry is there from earlier
runs, so that one request can replace it while another adds the second.  With
two saves and one other request, an area is read while one or two points are
saved, while an entry that was listed is moved away and saved back behind the
cursor, or both workers save the same id.  One change of the master comes before
or after its event is seen.  One restart follows a crash at any step.  The run
takes two minutes for 1.8 million states.

Two variables of each thread and one shared pointer are enough for every pair of
operations to meet on one object: both threads copy out of the map, one of them
replaces the entry, and the last of four pointers goes.

Deadlock checking is off: the server may stop, a bound may be reached, and the
missed broadcast below is a deadlock that the code really has.

Fairness.  Threads that run, and a worker inside `datainput`, are scheduled
(weak fairness of each thread's steps).  Where a thread needs a mutex that
another takes and releases for ever (the IO thread against the writer's walk),
strong fairness says that the mutex does not starve it.  Nothing is assumed of
peers, of SIGINT, of spurious wakeups or of closes; `writer` assumes that peers
read and that the EPOLLOUT of a new socket is handled. `HttpRequest` assumes
that a worker inside `datainput` goes on; `geo_http`, `ref_pointer` and
`status_lookup` check no liveness and assume nothing.

### What the runs found

* **Two workers in one task.**  The comment at `src/Http/HttpServer.cpp:312`
  says the walk keeps several threads from processing one `FileTask`.  The test
  of `processingFile` and the insertion into it are in different critical
  sections (309-321 and 327-341).  Two workers that pick two buffers of one
  connection one after the other both call `datainput` on the same task
  (`pool_one_worker`), concurrently and in either order.
* **The missed broadcast.**  `Run` broadcasts without `readdataqueuelock` (92),
  and a worker tests `running` before it locks (299) and does not test it again
  before the wait (303-305).  A worker in between waits for ever and
  `pthread_join` with it.  The model has this behaviour; `OnlyMissedWait` proves
  that it is the only way to be left waiting and `CleanShutdown` that without it
  the shutdown ends.
* **The second close.**  After a reset both the IO thread (214, 218) and the
  writer (285) call `closesocket`.  When the first close lets the kernel give
  the number out again before the second has come to its end, the second tears
  down the new connection; likewise an event that is still in the batch goes to
  the new connection.  For such numbers, the `crossed` ones, `TablesAgree`,
  `OnlyEndedLose` and `NoStaleReads` do not hold, and the repository promises
  nothing about it, so it is listed as a hazard.  `host_reuse` shows that they
  hold for all others, with resets and with two closes, and `host_reset` what
  holds for crossed numbers too.
* **The endless read.**  When the writer closes a descriptor while the IO thread
  is in its read loop, `read` fails with EBADF, which the loop takes for data
  (173-177), for ever: the server neither serves nor stops.  `EveryEventSeen`
  and `StopSeen` name this as their exception (`ReadsForever`).
* **The index.**  A point that is saved again may be listed at its old position,
  its new one, or both, and a point that moves while an area is read may be
  listed twice or not at all.  What holds is about entries.
* **What is not a number.**  `area` with `lng2=nan` ends the process at the
  assertion of `ReadAreaPoint` (179), because `MIN` and `MAX` both return it;
  with any other corner that is not a number the area is empty.  `GeoTypeOK`
  states the condition.

## 4. Proofs

All theorems hold for every value of the constants, under the assumptions named
in the modules (`WorkerAssumption`, `ClosableAssumption`, `MaxReadsAssumption`,
`FdAssumption`, `SizeAssumption`, `HostAssumption`, `PointerAssumption`,
`TableAssumption`, `CodesAssumption`, `MessageAssumption`, `LimitAssumption`,
`InputAssumption`, `FormAssumption`, `GlobeAssumption`, `FloatAssumption`,
`PointsAssumption`, `AreasAssumption`).  They give the constants their types and
say that there are finitely many pointers; TLC evaluates each of them in a run.
`GlobeAssumption` says that the globe fits the width of a coordinate,
`FloatAssumption` that infinity lies beyond every code and that a conversion
that does not fit gives some unit.  Points and areas are any floats, infinities
and `NaN` included, and peers may reset any connections (`Resettable`).
`FormAssumption` says which forms can be written for `UriSplit` at all, since
names and segments are not escaped: a path has a segment, no segment holds a "/"
or "?", no name a "=", and a fragment comes only behind parameters (without them
the code takes a "#" for a part of the path).  Values and the fragment may hold
any characters. `MessageAssumption` says what a message is: lines of words and
what follows them. It is whole (a head, of which only the last line is blank,
and as much body as the head announces), too long (its last line has the one
byte that the parser does not take), or, as the last of a stream only, breaks
off.  Which request a whole message stands for is said by reading it at once
(`WholeHead`, `BodyLen`), without a stream, a buffer or a request before it; the
messages of the run also spell it out.

`WorkerPoolProofs`.  `TypeCorrect` is inductive as it stands.  `MarksOwned`
(`NoOrphanMark`) needs only the types: each step that sets a mark puts its
worker into `input`, and each step that leaves `input` erases the mark.
`NoWakeupLost` needs `NoneExited`: while `running` holds no worker has left.
`ReadsInOrderOnce` needs a strengthening, `OrderInv`: sequence numbers are
bounded by `nread`, no two queued buffers share one, and what a worker holds is
no longer queued.  `ShutdownReachesTheRest` needs `ShutdownInv`: once `Run`
joins, `running` is false, so a worker can reach the wait only from the place
where it missed the broadcast.

`SocketWriterProofs`.  `StreamInv` says of each queue that its buffers are
adjacent intervals of byte numbers that end at `accepted`, that `wire` ends
where the first buffer is at `lastPos`, and that `lastPos` is within that
buffer.  From it follow `SentInOrderAlways`, `CloseWhenAllSentAlways` (with
`CondemnedInv`: during a walk a condemned entry has been passed) and
`ImplementsOutStream`, a step-by-step simulation of `OutStream`.

`RefPointerProofs`.  `Invariance` proves `Inv`, of which `CountCorrect`,
`NothingFreedInUse` and `NothingForgotten` are consequences.  The counts alone
are not inductive: a decrement to 0 must mean that no other thread is on its way
to the object.  `SourceOK` says why it is not: what a thread is about to point
to was copied from a pointer that the thread holds and that counts, or is an
object that it created and nobody else knows.  `DeleteOK` says that an object to
be deleted is counted by nobody, deleted by nobody else and wanted by nobody,
and `WorkOK` that a thread works on a pointer that it holds.
`PointerAssumption` says that there are finitely many pointers and that shared
ones have no home; what the theorems assume of the program is in the model:
shared pointers are used under their mutex.

`StatusLookupProofs`.  `Narrowed` says that everything in front of the rest of
the search is smaller than the code and nothing behind it is; with the bounds of
`TypeOK` it gives `InsideTable` and `MessageRight` for every ascending table
(`TableAssumption`; TLC evaluates it for the table of the code).

`HttpHostProofs`.  `IOInv` types the variables of the IO thread and the kernel
and says that whoever serves or closes a descriptor has a client's (`InFd`).
With it each step of the server is a step of `WorkerPool` and of `SocketWriter`
or leaves their variables alone (`ImplementsPool`, `ImplementsWriter`: the
properties `PoolSpec` and `WriterSpec`), so that what is proved of the two alone
holds in the server; `PoolInHost` and `WriterInHost` instantiate their theorems
and carry them over.  `NothingStranded` needs `EdgeInv`, which follows the news
about a connection from the edge of epoll over the batch to `read()`.
`ReadsNeverStale`, `TablesAlwaysAgree` and `OnlyEndedConnectionsLose` hold with
any resets, for every number that is not crossed (see "The second close").
Their invariant is `Numbers`, with `Orderly` for the rest of the server.  For
such a number it says in which stages of an accept and of the two closes each
table holds it (`TableOK`: the tables lose a number before the kernel does and
get it after the kernel); that whoever closes it, or condemned it, or has an
event of its failure, found its connection ended, or no connection (`CloseOK`,
`EventOK`); and that a buffer is queued under it only while its own connection
is open, is being closed, or from an error of `read` on the closed number
(`ReadOK`).  A number that `AcceptConnection` gives out without crossing it has
nobody who is still closing it and no event in the batch, so that it starts
afresh.

`HttpRequestProofs`.  `RequestTypeCorrect` needs that the rest of the stream is
what follows `pos` (`StreamOK`), wherever the reads cut it.  `RepliesAreInOrder`
needs `ReplyOK`: the buffers handed over carry the bytes without a gap, the
pending one begins where they end, and what `WriteOut` has left to write is all
that is missing.

`MessagesServedAsSent` (`ServedAsSent`) says that nothing depends on where the
reads cut the stream, nor on what was parsed before.  Its invariant, `SentInv`:
the first `n` messages are served, each with its meaning, and the parser is in
the next one, either behind `i` lines and `j` bytes, with the lines in
`headlines` and the bytes in `inputbuffer`, or behind `j` bytes of the body,
with these in `body`.  In the head every member of `Request` but one has the
value that reading the message at once gives it.  The one is `torecvbody`, which
`Init` does not reset: it may be left over from the request before, and the
proof shows that it is set before it is read (`WithType` and the lemmas behind
it).  A message is served on its last byte and on no other (`Proceeds`), so the
next begins where it should.

`HttpRequestProofs` also holds the proofs about `UriSplit`.  `WalkEndsInside`
and `RefusedOnlyForCause` are about where a walk over a C string may stand:
`ResWalk` says that what a loop of `Decode` has left behind holds no terminator,
`SrcWalk` that only the three characters of an escape can carry `HttpDecodeUri`
over one. `FormsAreRead` (`FormRead`) is about what the two decoders make of a
form together, for forms of any size.  Its invariant, `FormInv`, compares with
the text of the form: `HttpDecodeUri` stands behind the escapes of as many
characters as it has pushed, and each loop of `Decode` behind as many characters
of its segment, name, value or fragment as it has collected, while the parts
before are stored as the form means them (`GivenTo`: the last value that the
parameters before give a name).  It rests on lemmas about where the pieces lie
in what `FlattenSeq` joins (`PieceAt`) and on the digits of an escape being read
as they are written.

`GeoHttpProofs`.  `GeoInv` is about every database that recovery may find
(`since`), not only about the present one: each is well formed, whatever the
index made of keys that changed, and holds the ids in `safe`.  From it follow
`OkIsStored` and `SafeSurvives`. `GeoTypeCorrect` and `ListedLiesInside`
(`AreaSound`) need `SoundInv`, which relates what a worker has listed to the
boxes that are left and to the place of its cursor: an entry that lies in the
present box is the last one found or one that the cursor has passed, and none
lies in a later box.  An entry that is put back under the same key gets a new
place, so it is another one.  `SoundInv` rests on lemmas about the parts: codes
and keys are numbers for any width (`CombineType`, `ByteToLongType`, ...)
whatever an undefined conversion gives, the order of a cursor is total on
entries with places of their own, so that there is a first entry wherever there
is one ahead (`FirstIsAhead`), corners that are numbers are ordered by `MIN` and
`MAX` and the others leave nothing between them, and the boxes of an area lie
inside it and apart.

`NothingMissed` (`AreaComplete`) is the converse, and needs `CompleteInv`
besides: an entry that was in the index when the read began, is still there and
lies in the area for sure, is listed already or lies, as stored and as rounded,
in one of the boxes that are left, ahead of the cursor if it is the first of
them.  The theorem assumes nothing of points and areas: that an area has its
corners on the globe is a condition of `AreaComplete`, under which each corner
of its boxes has exactly one code (`UnitsOnGlobe`).  It holds because the code
of a point of a box lies between the codes of two of its corners
(`CodeBetween`), where the rounding of a sum moves a corner by less than a step
(`SumWithin`).  "For sure" leaves out what the code leaves out: points within
the rounding of an edge, and on the zero meridian where an area crosses it.

`GeoFunProofs`.  Codes and keys are numbers written in some base: a coordinate in
base 2, a code in base 4 with a pair of bits as a digit, a key in base 2 to the
`ByteBits`.  Of such numbers it is proved once that the digits add up to the
number, that each digit can be read from the sum, and that the most significant
digit in which two of them differ decides which is greater.  From this follow
`NothingLost` (`KeyRecovers`: `Split` inverts `Combine`, `ByteToLong` inverts
`LongToByte`), `KeysGrow` (`KeysAscend`: the order of keys, byte by byte, is
that of codes) and that `Combine` ascends with each coordinate.  `Bits` and
`ByteBits` are any numbers above 0, 32 and 8 in the code.

Induction.  The sums of `GeoFun` and `FlattenSeq` are recursive functions of the
community modules.  Where a proof needs something of them for every argument, it
takes the least one for which it fails (`LeastMember`, `LeastSet`, from the
theorems about well-founded orders) and derives a contradiction, or collects
those for which it holds in a set of which it shows that it is all there is
(`UpTo`).

Model-checked only: liveness (`EveryReadTaken`, `CleanShutdown`,
`EveryByteSent`, `EveryEventSeen`, `StopSeen`, `InputEnds`), which is out of the
reach of the prover. Every invariant and every action property of the runs is
stated by a theorem.
## 5. Not modelled

* The data race on `IOLoop::fdmap` and the missing `return` statements of
  `DelFD`, `run_once` and the callbacks: undefined behaviour of the language,
  not of the design.
* The start of `Run` before its loop, up to the creation of the threads; a stop
  request that comes before `running` is set (73) is overwritten by it.
* The statistics of `SocketState` and the printing of `idelProcess`.
* `SelfPath` (`src/tools/gtools.cpp`): one `readlink`.  The configuration file:
  it is read once, before any thread starts, into settings of Berkeley DB.
* `MySem`, `AutoMyMutexTryLock`, `ByteStream::Read`, most wrappers of
  `db_cpp.h`: no caller.
* What other sites write while this one is a replication client, and the orderly
  close of the environment: both are Berkeley DB's.
* The text of the heads of replies (`SaveHead`) and of the JSON, memory that runs
  out.
* The composition of the parser (`HttpRequest`, `UriSplit`) with `GeoHttp` and of
  either with the host.  They share no state: a task passes values down and
  bytes up, and each module takes as its inputs what the one before it can
  produce.

## 6. Plan

1. Done: `WorkerPool`, `SocketWriter` (with `OutStream`), `HttpHost`,
   `HttpRequest` (with `ByteStream`), `UriSplit`, `GeoFun`, `BackDb`, `GeoHttp`,
   `RefPointer`, `StatusLookup`; the proofs of section 4, which state every invariant
   and every action property of the runs.
2. Left: the hazards of `PROJECT.json` without a property, each with its reason.
   Liveness stays with TLC.
