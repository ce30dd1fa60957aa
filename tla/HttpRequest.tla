------------------------------ MODULE HttpRequest -----------------------------
(***************************************************************************)
(* CHttpServerRequest and the HttpTask around it: datainput feeds the      *)
(* buffers of a connection to the parser, serves each request the parser   *)
(* ends, and hands the replies to AddWriteQueue in buffers.                *)
(*                                                                         *)
(* A byte is a member of Char.  Line end, space, carriage return and colon *)
(* stand for themselves; every other one stands for a word that the parser *)
(* passes on whole or compares with a constant ("GET" for GET, "length"    *)
(* for Content-Length, "two" for 2): the parser reads single bytes, so no  *)
(* cut of the stream can split what it tells apart.                        *)
(*                                                                         *)
(* A connection carries msgs, and TCP cuts that stream anywhere.  Memory   *)
(* is taken to suffice.  datainput also sets an error flag, which nothing  *)
(* reads (HttpTask.cpp:39-41); it is left out.                             *)
(***************************************************************************)
EXTENDS Integers, Sequences, FiniteSets, SequencesExt, ByteStream

CONSTANTS
  Messages,  \* what peers send: [lines, tail, meaning], see MessageAssumption
  MaxMsgs,   \* bound on the messages of a connection before the last one
  Lasts,     \* the last message; it may have no end
  Pieces,    \* bytes of a read, less where the stream ends
  MaxLine,   \* bytes of a line (1024 in InputChar)
  BufLen,    \* bytes of a buffer (1024 in WriteOut)
  ReplyLen   \* bytes of a reply

ASSUME LimitAssumption ==
  /\ MaxMsgs \in Nat /\ MaxLine \in Nat
  /\ Pieces \subseteq Nat \ {0}
  /\ BufLen \in Nat \ {0} /\ ReplyLen \in Nat \ {0}

VARIABLES
  msgs,            \* what the connection carries
  pos,             \* bytes of the stream that have been parsed
  start,           \* where the request that is being parsed began
  rest,            \* the part of datainput's buffer that is not yet parsed
  request,         \* HttpTask::request
  tpc,             \* where datainput is
  served,          \* history: the requests ProcessRequest was called for
  len,             \* bytes that WriteOut has left to write
  written,         \* history: bytes that WriteOut was called for
  writeoutbuffer,  \* HttpTask::writeoutbuffer, NoBuffer for NULL
  handed           \* history: the buffers given to AddWriteQueue

parsevars == <<msgs, pos, start, rest, request, served>>
replyvars == <<len, written, writeoutbuffer, handed>>
reqvars == <<parsevars, tpc, replyvars>>

(* The lines of a message, each with its end, and what follows them: the   *)
(* body, or a line that does not end.                                      *)
Bytes(m) == FlattenSeq([i \in 1..Len(m.lines) |-> Append(m.lines[i], "nl")]) \o m.tail
Said(n) == FlattenSeq([i \in 1..n |-> Bytes(msgs[i])])
Meant(n) == FlattenSeq([i \in 1..n |-> msgs[i].meaning])
stream == Said(Len(msgs))
Blank == {"cr", "nl", "sp"}
Number == [zero |-> 0, two |-> 2, minus |-> -1]
NoBuffer == [first |-> 0, datalen |-> 0]
-----------------------------------------------------------------------------
(* CHttpServerRequest. *)

Fresh ==
  [state |-> "RecvFirstLine", act |-> <<>>, uri |-> <<>>, vision |-> <<>>,
   headmap |-> <<>>, headlines |-> <<>>, inputbuffer |-> <<>>, body |-> NewStream,
   torecvbody |-> 0, resault |-> FALSE]

(* Faulty variant of Cleared: headmap and the body are forgotten. *)
ClearedInPart(r) == [r EXCEPT !.state = "RecvFirstLine", !.act = <<>>, !.uri = <<>>,
                              !.vision = <<>>, !.headlines = <<>>,
                              !.inputbuffer = <<>>, !.resault = FALSE]

(* Init() resets everything but torecvbody. *)
Cleared(r) == [Fresh EXCEPT !.torecvbody = r.torecvbody]

(* trim: without the characters of chars at both ends. *)
Trim(line, chars) ==
  LET kept == {i \in DOMAIN line : line[i] \notin chars}
  IN IF kept = {} THEN <<>> ELSE SubSeq(line, Min(kept), Max(kept))

(* string::find: the first c at `from' or later, 0 where there is none. *)
Find(line, c, from) ==
  LET at == {i \in from..Len(line) : line[i] = c}
  IN IF at = {} THEN 0 ELSE Min(at)

(* An escape, here one byte, becomes the byte it names. *)
HttpDecodeUri(uri) ==
  [i \in DOMAIN uri |-> IF uri[i] = "escaped" THEN "plain" ELSE uri[i]]

(* The heads of the lines 2..n: a later head replaces an earlier one.      *)
HeadName(line) == Trim(SubSeq(line, 1, Find(line, "colon", 1) - 1), {"sp"})
HeadValue(line) == Trim(SubSeq(line, Find(line, "colon", 1) + 1, Len(line)), {"sp"})
HeadMap(lines, n) ==
  [k \in {HeadName(lines[i]) : i \in 2..n} |->
    HeadValue(lines[Max({i \in 2..n : HeadName(lines[i]) = k})])]

(* getContentLength: no value where the head is missing or empty; atoi.    *)
Length(r) == IF <<"length">> \in DOMAIN r.headmap THEN r.headmap[<<"length">>] ELSE <<>>
Atoi(value) == IF value[1] \in DOMAIN Number THEN Number[value[1]] ELSE 0

(* What the first line says, as far as it can be told. *)
FirstLine(r) ==
  LET line == r.headlines[1]
      i == Find(line, "sp", 1)
      j == Find(line, "sp", i + 1)
      withact == [r EXCEPT !.act = SubSeq(line, 1, i - 1)]
  IN IF i = 0 THEN r
     ELSE IF j \in {0, i + 1} THEN withact
     ELSE [withact EXCEPT !.uri = HttpDecodeUri(SubSeq(line, i + 1, j - 1)),
                          !.vision = SubSeq(line, j + 1, Len(line))]

(* The heads up to the first line without a colon. *)
BadHeads(r) == {i \in 2..Len(r.headlines) : Find(r.headlines[i], "colon", 1) = 0}
WithHeads(r) ==
  LET n == IF BadHeads(r) = {} THEN Len(r.headlines) ELSE Min(BadHeads(r)) - 1
  IN [r EXCEPT !.headmap = HeadMap(r.headlines, n)]
-----------------------------------------------------------------------------
(* What a message means when it is read at once: it is one request, or the *)
(* beginning of one.                                                       *)

HeadEnds(m) == m.lines # <<>> /\ Trim(Last(m.lines), Blank) = <<>>
HeadOf(m, n) == [Fresh EXCEPT !.headlines = [i \in 1..n |-> Trim(m.lines[i], Blank)]]
WellFormed(r) == Len(r.headlines) >= 2 /\ r.uri # <<>> /\ BadHeads(r) = {}
WholeHead(m) ==
  LET r == HeadOf(m, Len(m.lines) - 1)
  IN IF Len(r.headlines) < 2 THEN r
     ELSE IF FirstLine(r).uri = <<>> THEN FirstLine(r)
     ELSE WithHeads(FirstLine(r))
BodyLen(r) ==
  IF WellFormed(r) /\ r.act = <<"POST">> /\ Length(r) # <<>> THEN Atoi(Length(r)) ELSE 0

(* A request with the body its head announces.                             *)
Whole(m) ==
  LET r == WholeHead(m)
  IN /\ HeadEnds(m)
     /\ Len(m.tail) = BodyLen(r)
     /\ m.meaning = << [uri |-> r.uri, body |-> m.tail,
                        resault |-> WellFormed(r) /\ r.act \in {<<"GET">>, <<"POST">>}] >>

(* A head whose last line has the one byte that the parser does not take.  *)
TooLong(m) ==
  /\ ~HeadEnds(m)
  /\ Len(m.tail) = MaxLine + 2
  /\ m.meaning = << [uri |-> <<>>, body |-> <<>>, resault |-> FALSE] >>

(* A request that breaks off in its head or in its body. *)
Unended(m) ==
  /\ m.meaning = <<>>
  /\ IF HeadEnds(m)
     THEN BodyLen(WholeHead(m)) < 0 \/ Len(m.tail) < BodyLen(WholeHead(m))
     ELSE Len(m.tail) <= MaxLine + 1

(* Only the last line is blank, if any: behind it the head has ended.      *)
ASSUME MessageAssumption ==
  /\ \A m \in Messages \cup Lasts :
       /\ m.lines \in Seq(Seq(STRING \ {"nl"})) /\ m.tail \in Seq(STRING)
       /\ \A i \in 1..Len(m.lines) : Len(m.lines[i]) <= MaxLine + 1
       /\ \A i \in 1..(Len(m.lines) - 1) : Trim(m.lines[i], Blank) # <<>>
       /\ ~HeadEnds(m) => \A i \in 1..Len(m.tail) : m.tail[i] # "nl"
  /\ \A m \in Messages : Whole(m) \/ TooLong(m)
  /\ \A m \in Lasts : Whole(m) \/ TooLong(m) \/ Unended(m)
-----------------------------------------------------------------------------
(* HttpTask. *)

Init ==
  /\ \E n \in 0..MaxMsgs : \E some \in [1..n -> Messages], last \in Lasts :
       msgs = Append(some, last)
  /\ pos = 0
  /\ start = 0
  /\ rest = <<>>
  /\ request = Fresh
  /\ tpc = "idle"
  /\ served = <<>>
  /\ len = 0
  /\ written = 0
  /\ writeoutbuffer = NoBuffer
  /\ handed = <<>>

(* A worker calls datainput with the next piece of the stream. *)
DataInput ==
  /\ tpc = "idle"
  /\ tpc' = "input"
  /\ pos < Len(stream)
  /\ \E n \in Pieces :
       rest' = SubSeq(stream, pos + 1, Min({pos + n, Len(stream)}))
  /\ UNCHANGED <<msgs, pos, start, request, served, replyvars>>

Consume(n) ==
  /\ rest' = SubSeq(rest, n + 1, Len(rest))
  /\ pos' = pos + n

(* Where InputBuffer returns false, ProcessRequest is called, whatever     *)
(* Resault() says.  A uri that UriSplit refuses, as it does the empty one, *)
(* or whose path is too short gets no reply.                               *)
Served(r) == [uri |-> r.uri, body |-> r.body.bytes, resault |-> r.resault]
ProcessRequest(r) ==
  /\ request' = r
  /\ tpc' = "reply"
  /\ served' = Append(served, Served(r))
  /\ len' \in IF r.uri = <<>> THEN {0} ELSE {0, ReplyLen}
  /\ written' = written + len'
Continue(r) ==
  /\ request' = r
  /\ UNCHANGED <<tpc, served, len, written>>
Accept(r) == ProcessRequest([r EXCEPT !.resault = TRUE])

(* InputBuffer and InputChar, one byte of a head. *)
HeadByte(isnewline) ==
  /\ tpc = "input"
  /\ rest # <<>>
  /\ request.state = "RecvFirstLine"
  /\ isnewline <=> rest[1] = "nl"
  /\ Consume(1)
  /\ UNCHANGED <<msgs, start, writeoutbuffer, handed>>
Line == Trim(request.inputbuffer, Blank)

(* Faulty variant of InputChar: a line has no limit. *)
InputCharUnlimited ==
  /\ HeadByte(FALSE)
  /\ Continue([request EXCEPT !.inputbuffer = Append(@, rest[1])])

InputChar ==
  /\ HeadByte(FALSE)
  /\ IF Len(request.inputbuffer) > MaxLine THEN ProcessRequest(request)
     ELSE Continue([request EXCEPT !.inputbuffer = Append(@, rest[1])])

EndLine ==
  /\ HeadByte(TRUE)
  /\ Line # <<>>
  /\ Continue([request EXCEPT !.headlines = Append(@, Line), !.inputbuffer = <<>>])

(* Faulty variant of Post: Content-Length: 0 is not told apart. *)
PostAlwaysBody(r) ==
  IF Length(r) = <<>> THEN Accept(r)
  ELSE Continue([r EXCEPT !.torecvbody = Atoi(Length(r)), !.state = "RecvBody"])

Post(r) ==
  IF Length(r) = <<>> THEN Accept(r)
  ELSE IF Atoi(Length(r)) = 0 THEN Accept([r EXCEPT !.torecvbody = 0])
  ELSE Continue([r EXCEPT !.torecvbody = Atoi(Length(r)), !.state = "RecvBody"])

(* The empty line after the head.  (The quantifiers name values.)          *)
(* inputbuffer also serves as scratch there, until Init clears it.         *)
HeadFound(r) ==
  \/ BadHeads(r) # {} /\ ProcessRequest(r)
  \/ BadHeads(r) = {} /\ r.act = <<"GET">> /\ Accept(r)
  \/ BadHeads(r) = {} /\ r.act = <<"POST">> /\ Post(r)
  \/ BadHeads(r) = {} /\ r.act \notin {<<"GET">>, <<"POST">>} /\ ProcessRequest(r)

EndHead ==
  /\ HeadByte(TRUE)
  /\ Line = <<>>
  /\ LET ended == [request EXCEPT !.inputbuffer = <<>>]
     IN \/ Len(request.headlines) < 2 /\ ProcessRequest(ended)
        \/ /\ Len(request.headlines) >= 2
           /\ \E r \in {FirstLine(ended)} :
                \/ r.uri = <<>> /\ ProcessRequest(r)
                \/ r.uri # <<>> /\ \E found \in {WithHeads(r)} : HeadFound(found)

(* InputBuffer, the body: as much as the buffer holds and the body lacks.  *)
(* A negative torecvbody is a very large size_t.                           *)
TakeBody(towrite) ==
  LET r == [request EXCEPT !.body = Write(@, SubSeq(rest, 1, towrite)),
                           !.torecvbody = @ - towrite]
  IN /\ Consume(towrite)
     /\ IF towrite > 0 /\ r.torecvbody = 0 THEN Accept(r) ELSE Continue(r)

InputBody ==
  /\ tpc = "input"
  /\ rest # <<>>
  /\ request.state = "RecvBody"
  /\ TakeBody(IF request.torecvbody < 0 THEN Len(rest)
              ELSE Min({Len(rest), request.torecvbody}))
  /\ UNCHANGED <<msgs, start, writeoutbuffer, handed>>

(* One round of the loop in WriteOut. *)
Pending == writeoutbuffer # NoBuffer
Full == writeoutbuffer.datalen = BufLen
WriteOut ==
  /\ tpc = "reply"
  /\ len > 0
  /\ LET used == IF Pending /\ ~Full THEN writeoutbuffer.datalen ELSE 0
         towrite == Min({BufLen - used, len})
         first == IF used > 0 THEN writeoutbuffer.first ELSE written - len + 1
     IN /\ writeoutbuffer' = [first |-> first, datalen |-> used + towrite]
        /\ len' = len - towrite
  /\ handed' = IF Pending /\ Full THEN Append(handed, writeoutbuffer) ELSE handed
  /\ UNCHANGED <<parsevars, tpc, written>>

ClearRequest ==
  /\ tpc = "reply"
  /\ len = 0
  /\ tpc' = "input"
  /\ request' = Cleared(request)
  /\ start' = pos
  /\ UNCHANGED <<msgs, pos, rest, served, replyvars>>

(* Faulty variant of WriteOutFlush: only a full buffer is handed over. *)
FlushFull ==
  /\ tpc = "input"
  /\ rest = <<>>
  /\ tpc' = "idle"
  /\ handed' = IF Pending /\ Full THEN Append(handed, writeoutbuffer) ELSE handed
  /\ writeoutbuffer' = IF Pending /\ Full THEN NoBuffer ELSE writeoutbuffer
  /\ UNCHANGED <<parsevars, len, written>>

WriteOutFlush ==
  /\ tpc = "input"
  /\ rest = <<>>
  /\ tpc' = "idle"
  /\ handed' = IF Pending THEN Append(handed, writeoutbuffer) ELSE handed
  /\ writeoutbuffer' = NoBuffer
  /\ UNCHANGED <<parsevars, len, written>>

DataInputStep ==
  InputChar \/ EndLine \/ EndHead \/ InputBody \/ WriteOut \/ ClearRequest \/ WriteOutFlush
Next == DataInput \/ DataInputStep

(* A worker that is inside datainput goes on. *)
SafeSpec == Init /\ [][Next]_reqvars
Spec == SafeSpec /\ WF_reqvars(DataInputStep)
-----------------------------------------------------------------------------
TypeOK ==
  /\ pos \in 0..Len(stream) /\ start \in 0..pos
  /\ tpc \in {"idle", "input", "reply"}
  /\ rest = <<>> \/ rest = SubSeq(stream, pos + 1, pos + Len(rest))
  /\ request.state \in {"RecvFirstLine", "RecvBody"}
  /\ Len(request.inputbuffer) <= MaxLine + 1
  /\ request.resault => tpc = "reply"
  /\ len \in 0..ReplyLen
  /\ written \in Nat
  /\ writeoutbuffer = NoBuffer \/ writeoutbuffer.datalen \in 1..BufLen

(* What a connection says is understood as it was meant, and in order,     *)
(* wherever TCP cuts it into buffers (HttpTask.cpp:29-37): each message is *)
(* served with its own uri and body and nothing of the one before it, and  *)
(* one that is not understood fails alone.  A line that is too long is     *)
(* refused where the limit is met, and what follows is read as a message.  *)
ServedAsSent ==
  /\ IsPrefix(served, Meant(Len(msgs)))
  /\ \A n \in DOMAIN msgs : pos >= Len(Said(n)) => IsPrefix(Meant(n), served)

(* The replies reach AddWriteQueue byte for byte, in order, in buffers     *)
(* that are not empty, and none is kept back when datainput returns.       *)
RepliesInOrder ==
  LET given == IF Pending THEN Append(handed, writeoutbuffer) ELSE handed
      before(i) == IF i = 1 THEN 0 ELSE given[i - 1].first + given[i - 1].datalen - 1
  IN /\ \A i \in DOMAIN given : /\ given[i].first = before(i) + 1
                                /\ given[i].datalen \in 1..BufLen
     /\ before(Len(given) + 1) = written - len
     /\ tpc = "idle" => handed = given

(* Every call of datainput returns. *)
InputEnds == (tpc # "idle") ~> (tpc = "idle")
=============================================================================
