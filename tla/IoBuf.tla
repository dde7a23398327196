------------------------------- MODULE IoBuf --------------------------------
(***************************************************************************)
(* The buffers of a socket (net/jetnet_iobuf.c): the list of what the      *)
(* kernel brought and the protocol has not read, and the list of what was  *)
(* to be sent and the kernel has not taken.  A byte is its number in its   *)
(* stream, so a wrong copy shows, and a run of bytes in one piece of       *)
(* memory is its first byte and its length.  A turn of a loop is a step.   *)
(***************************************************************************)
EXTENDS Integers, Sequences

CONSTANTS
  MaxStream,    \* bound: bytes of both streams
  MaxRun,       \* bound: bytes of a read buffer, or of a call
  MaxVec,       \* JETNET_MAX_IOVEC
  Batch         \* IOVEC_NUM_PER_SEND

ASSUME IoBufAssumption ==
  MaxStream \in Nat /\ MaxRun \in Nat /\ MaxVec \in Nat /\ Batch \in Nat \ {0}

VARIABLES
  received, taken, queued, sent,   \* history: the lengths of the streams
  result,       \* what the last call was asked for, and returned
  rb,           \* the read buffers, from head to tail
  roff, rsize,  \* rbl->offset, rbl->size
  wb,           \* the write buffers: their io vectors, and an offset
  call          \* the call that is in its loop, with its local variables

streams == <<received, taken, queued, sent>>
rbl == <<rb, roff, rsize>>
vars == <<streams, result, rbl, wb, call>>

Idle == [op |-> "none"]
Returned(op, asked, bytes) == [op |-> op, asked |-> asked, bytes |-> bytes]
Nothing == Returned("none", <<>>, <<>>)

\* A run of bytes, the byte behind it, and n of its bytes from an offset on.
Run(b, n) == [first |-> b, len |-> n]
End(r) == r.first + r.len
Bytes(r, from, n) == [i \in 1 .. n |-> r.first + from + (i - 1)]

Least(a, b) == IF a < b THEN a ELSE b

Init ==
  /\ received = 0 /\ taken = 0 /\ queued = 0 /\ sent = 0
  /\ result = Nothing /\ call = Idle
  /\ rb = <<>> /\ roff = 0 /\ rsize = 0
  /\ wb = <<>>

-----------------------------------------------------------------------------
(* The read buffer list.                                                   *)

\* jetnet_rbl_appen of what a recv brought.
Receive(n) ==
  /\ call = Idle /\ received + queued + n <= MaxStream
  /\ received' = received + n
  /\ rb' = Append(rb, Run(received + 1, n))
  /\ roff' = IF rb = <<>> THEN 0 ELSE roff
  /\ rsize' = IF rb = <<>> THEN n ELSE rsize + n
  /\ result' = Nothing
  /\ UNCHANGED <<taken, queued, sent, wb, call>>

\* jetnet_rbl_read, and its loop.
Read(len) ==
  /\ call = Idle
  /\ call' = [op |-> "read", len |-> len, out |-> <<>>]
  /\ result' = Nothing
  /\ UNCHANGED <<streams, rbl, wb>>

Reading == call.op = "read"
Unread == Head(rb).len - roff

\* Mutant of Drained: the offset stays behind the buffer that is gone.
Drained_KeepsOffset == roff

\* The offset in the next buffer.
Drained == roff - Head(rb).len

ReadDrop ==
  /\ Reading /\ rb # <<>> /\ Unread <= 0
  /\ roff' = Drained
  /\ rb' = Tail(rb)
  /\ UNCHANGED <<streams, result, rsize, wb, call>>

ReadCopy ==
  LET n == Least(Unread, call.len - Len(call.out)) IN
  /\ Reading /\ rb # <<>> /\ Unread > 0 /\ Len(call.out) < call.len
  /\ call' = [call EXCEPT !.out = @ \o Bytes(Head(rb), roff, n)]
  /\ taken' = taken + n
  /\ roff' = roff + n
  /\ rsize' = rsize - n
  /\ UNCHANGED <<received, queued, sent, result, rb, wb>>

ReadReturn ==
  /\ Reading
  /\ rb # <<>> => Unread > 0 /\ Len(call.out) >= call.len
  /\ result' = Returned("read", <<call.len>>, call.out)
  /\ call' = Idle
  /\ UNCHANGED <<streams, rbl, wb>>

\* jetnet_rbl_peek, and its loop: buffer b begins n1 bytes behind the head's
\* begin, and n3 is the next byte to copy, up to n4 (Until).
Peek(at, size) ==
  /\ call = Idle
  /\ IF rsize < at + size
     THEN result' = Returned("peek", <<at, size>>, <<>>) /\ call' = Idle
     ELSE /\ result' = Nothing
          /\ call' = [op |-> "peek", at |-> at, size |-> size, b |-> 1, n1 |-> 0,
                      n3 |-> at + roff, out |-> <<>>]
  /\ UNCHANGED <<streams, rbl, wb>>

Peeking == call.op = "peek"
Until == call.at + roff + call.size - 1

PeekBuffer ==
  LET r == rb[call.b]
      n2 == call.n1 + r.len - 1
      till == Least(n2, Until)
      n == IF n2 < call.n3 THEN 0 ELSE till + 1 - call.n3
  IN
  /\ Peeking /\ call.b <= Len(rb) /\ call.n3 <= Until
  /\ call' = [call EXCEPT !.b = @ + 1, !.n1 = @ + r.len, !.n3 = @ + n,
                          !.out = @ \o Bytes(r, call.n3 - call.n1, n)]
  /\ UNCHANGED <<streams, result, rbl, wb>>

PeekReturn ==
  /\ Peeking /\ (call.b > Len(rb) \/ call.n3 > Until)
  /\ result' = Returned("peek", <<call.at, call.size>>, call.out)
  /\ call' = Idle
  /\ UNCHANGED <<streams, rbl, wb>>

-----------------------------------------------------------------------------
(* The write buffer list.                                                  *)

\* The bytes of a write buffer end where its last io vector does.
Last(w) == w.vec[Len(w.vec)]
SizeOf(w) == End(Last(w)) - w.vec[1].first

\* The io vectors of a message whose first byte is b, cut at the bytes in c: a
\* header that is not empty and up to MaxVec - 1 more, any of which may be.
Cuts(b, k) ==
  {c \in [1 .. k -> b .. b + MaxStream] :
     c[1] > b /\ \A i \in 1 .. k, j \in 1 .. k : i <= j => c[i] <= c[j]}
Vector(b, c) ==
  [i \in DOMAIN c |-> LET from == IF i = 1 THEN b ELSE c[i - 1]
                      IN Run(from, c[i] - from)]

\* jetnet_wbl_appen by jetnet_tcp_send or _sendv_; only when nothing waits may
\* the kernel have taken a part of the message already.
Queue(v, k) ==
  LET w == [vec |-> v, offset |-> k] IN
  /\ call = Idle /\ received + queued + SizeOf(w) <= MaxStream
  /\ k < SizeOf(w) /\ (k > 0 => wb = <<>>)
  /\ wb' = Append(wb, w)
  /\ queued' = queued + SizeOf(w) /\ sent' = sent + k
  /\ result' = Nothing
  /\ UNCHANGED <<received, taken, rbl, call>>

\* Mutant of Skip: what was sent already is gathered again.
Skip_Not(b) == 0

\* jetnet_wbl_get_iovec, and its loops: io vector i of buffer b, of which the
\* first off bytes are to be skipped.
Skip(b) == IF b <= Len(wb) THEN wb[b].offset ELSE 0

Gather ==
  /\ call = Idle
  /\ call' = [op |-> "gather", b |-> 1, i |-> 1, off |-> Skip(1), cur |-> 0,
              out |-> <<>>]
  /\ result' = Nothing
  /\ UNCHANGED <<streams, rbl, wb>>

Gathering == call.op = "gather"
More == call.b <= Len(wb) /\ call.cur < Batch

\* What is left to skip behind an io vector that is skipped whole.
Skipped(r) == call.off - r.len

GatherVec ==
  LET r == wb[call.b].vec[call.i] IN
  /\ Gathering /\ More /\ call.i <= Len(wb[call.b].vec)
  /\ call' = IF call.off < r.len
             THEN [call EXCEPT !.i = @ + 1, !.off = 0, !.cur = @ + 1,
                               !.out = @ \o Bytes(r, call.off, r.len - call.off)]
             ELSE [call EXCEPT !.i = @ + 1, !.off = Skipped(r)]
  /\ UNCHANGED <<streams, result, rbl, wb>>

GatherNext ==
  /\ Gathering /\ More /\ call.i > Len(wb[call.b].vec)
  /\ call' = [call EXCEPT !.b = @ + 1, !.i = 1, !.off = Skip(call.b + 1)]
  /\ UNCHANGED <<streams, result, rbl, wb>>

GatherReturn ==
  /\ Gathering /\ ~More
  /\ result' = Returned("gather", <<>>, call.out)
  /\ call' = Idle
  /\ UNCHANGED <<streams, rbl, wb>>

\* The send or writev of jetnet_send_buffer_list took k bytes:
\* jetnet_wbl_drop, and its loop.
Took(k) ==
  /\ call = Idle /\ result.op = "gather" /\ k <= Len(result.bytes)
  /\ sent' = sent + k
  /\ call' = [op |-> "drop", size |-> k]
  /\ result' = Nothing
  /\ UNCHANGED <<received, taken, queued, rbl, wb>>

Dropping == call.op = "drop"
Left == SizeOf(Head(wb)) - Head(wb).offset

DropBuffer ==
  /\ Dropping /\ wb # <<>> /\ call.size > 0 /\ Left <= call.size
  /\ call' = [call EXCEPT !.size = @ - Left]
  /\ wb' = Tail(wb)
  /\ UNCHANGED <<streams, result, rbl>>

DropPart ==
  /\ Dropping /\ wb # <<>> /\ call.size > 0 /\ Left > call.size
  /\ wb' = [wb EXCEPT ![1].offset = @ + call.size]
  /\ call' = Idle
  /\ UNCHANGED <<streams, result, rbl>>

DropReturn ==
  /\ Dropping /\ (wb = <<>> \/ call.size <= 0)
  /\ call' = Idle
  /\ UNCHANGED <<streams, result, rbl, wb>>

-----------------------------------------------------------------------------
\* jetnet_rbl_free and jetnet_wbl_free, when the socket is freed.
Free ==
  /\ call = Idle
  /\ rb' = <<>> /\ roff' = 0 /\ rsize' = 0 /\ wb' = <<>>
  /\ taken' = received /\ sent' = queued
  /\ result' = Nothing
  /\ UNCHANGED <<received, queued, call>>

Loop ==
  \/ ReadDrop \/ ReadCopy \/ ReadReturn \/ PeekBuffer \/ PeekReturn
  \/ GatherVec \/ GatherNext \/ GatherReturn
  \/ DropBuffer \/ DropPart \/ DropReturn

Next ==
  \/ \E n \in 1 .. MaxRun : Receive(n) \/ Read(n) \/ Took(n)
  \/ \E at \in 0 .. MaxRun, n \in 1 .. MaxRun : Peek(at, n)
  \/ \E n \in 1 .. MaxVec : \E c \in Cuts(queued + 1, n) :
       \E k \in 0 .. MaxStream : Queue(Vector(queued + 1, c), k)
  \/ Gather \/ Free \/ Loop

Spec == Init /\ [][Next]_vars

-----------------------------------------------------------------------------
(* What the lists and the loops keep to, at every turn.                    *)

Runs == [first : Nat, len : Nat]
Is(s, b) == \A i \in 1 .. Len(s) : s[i] = b + i
Adjacent(s) == \A i \in 1 .. Len(s) - 1 : s[i + 1].first = End(s[i])

Calls ==
  {Idle}
    \cup [op : {"read"}, len : Nat, out : Seq(Nat)]
    \cup [op : {"peek"}, at : Nat, size : Nat, b : Nat, n1 : Nat, n3 : Nat,
          out : Seq(Nat)]
    \cup [op : {"gather"}, b : Nat, i : Nat, off : Nat, cur : Nat, out : Seq(Nat)]
    \cup [op : {"drop"}, size : Nat]

\* The bytes in the read buffers are those between taken and received, and a
\* buffer is freed as soon as it is read.
ReadList ==
  /\ rb \in Seq(Runs) /\ roff \in Nat /\ rsize = received - taken
  /\ \A i \in 1 .. Len(rb) : rb[i].len > 0 /\ End(rb[i]) <= received + 1
  /\ Adjacent(rb)
  /\ IF rb = <<>> THEN taken = received
     ELSE /\ rb[1].first + roff = taken + 1
          /\ roff <= rb[1].len /\ (~Reading => roff < rb[1].len)
          /\ End(rb[Len(rb)]) = received + 1

\* The bytes that a drop has still to take out of the write buffers.
ToDrop == IF Dropping THEN call.size ELSE 0

WriteBuffer(w) ==
  /\ w.vec \in Seq(Runs) /\ w.vec # <<>> /\ w.vec[1].len > 0 /\ Adjacent(w.vec)
  /\ \A i \in 1 .. Len(w.vec) : End(w.vec[i]) <= End(Last(w))
  /\ w.offset \in Nat /\ w.offset < SizeOf(w)

\* And those in the write buffers are between sent and queued.
WriteList ==
  /\ wb \in Seq([vec : Seq(Runs), offset : Nat])
  /\ \A i \in 1 .. Len(wb) : WriteBuffer(wb[i]) /\ End(Last(wb[i])) <= queued + 1
  /\ \A i \in 2 .. Len(wb) :
       wb[i].offset = 0 /\ wb[i].vec[1].first = End(Last(wb[i - 1]))
  /\ IF wb = <<>> THEN sent = queued /\ ToDrop = 0
     ELSE /\ wb[1].vec[1].first + wb[1].offset + ToDrop = sent + 1
          /\ End(Last(wb[Len(wb)])) = queued + 1

ReadLoop ==
  Reading => Is(call.out, taken - Len(call.out)) /\ Len(call.out) <= taken
               /\ Len(call.out) <= call.len

\* Where buffer b begins.
Begin(b) == IF b <= Len(rb) THEN rb[b].first ELSE received + 1

PeekLoop ==
  Peeking =>
    /\ call.at + call.size <= received - taken /\ call.size > 0
    /\ call.b \in 1 .. Len(rb) + 1 /\ call.n1 = Begin(call.b) - Begin(1)
    /\ Is(call.out, taken + call.at)
    /\ call.n3 = call.at + roff + Len(call.out)
    /\ Len(call.out) <= call.size
    /\ call.n3 <= Until => call.n1 <= call.n3

\* Where io vector i of write buffer b begins, or the next one.
Begins(b, i) ==
  IF b > Len(wb) THEN queued + 1
  ELSE IF i > Len(wb[b].vec) THEN End(Last(wb[b])) ELSE wb[b].vec[i].first

GatherLoop ==
  Gathering =>
    /\ call.b \in 1 .. Len(wb) + 1 /\ call.i \in Nat \ {0}
    /\ call.b <= Len(wb) => call.i <= Len(wb[call.b].vec) + 1
    /\ Is(call.out, sent)
    /\ Begins(call.b, call.i) + call.off = sent + Len(call.out) + 1
    /\ Begins(call.b, call.i) + call.off
         <= IF call.b <= Len(wb) THEN End(Last(wb[call.b])) ELSE queued + 1
    /\ call.cur > 0 => call.out # <<>>

\* At every turn of every loop the lists hold exactly the bytes that have not
\* been taken, no freed or read buffer stays, and what a loop has copied are the
\* next bytes of the stream (jetnet_iobuf.c, all of it).
BufferInv ==
  /\ received \in Nat /\ taken \in 0 .. received
  /\ queued \in Nat /\ sent \in 0 .. queued
  /\ call \in Calls
  /\ ReadList /\ WriteList /\ ReadLoop /\ PeekLoop /\ GatherLoop
  /\ result.op = "gather" =>
       /\ call = Idle
       /\ result.bytes \in Seq(Nat) /\ Is(result.bytes, sent)
       /\ sent + Len(result.bytes) <= queued

Stream ==
  INSTANCE ByteStream
    WITH taken <- IF Reading THEN taken - Len(call.out) ELSE taken

\* The lists are the two streams of ByteStream, wherever reads, peeks, io vectors,
\* batches and partial sends cut them: "return the actual read byte count", "get
\* io vector from write buffer list", "drop data" (jetnet_iobuf.h).
StreamSpec == Stream!Spec
=============================================================================
