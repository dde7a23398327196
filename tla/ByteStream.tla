----------------------------- MODULE ByteStream -----------------------------
(***************************************************************************)
(* What the buffers of a socket promise to the protocol above and to the   *)
(* socket server: two streams of bytes.  A byte is its number in its       *)
(* stream.                                                                 *)
(***************************************************************************)
EXTENDS Integers, Sequences

CONSTANT MaxRun   \* bound: bytes that a call is about

VARIABLES
  received,     \* bytes that came from the kernel
  taken,        \* how many of them the protocol has read
  queued,       \* bytes given to the socket to send
  sent,         \* how many of them the kernel took
  result        \* what the last call was asked for, and returned

vars == <<received, taken, queued, sent, result>>

\* The n bytes behind byte b of a stream.
After(b, n) == [i \in 1 .. n |-> b + i]

Returned(op, asked, bytes) == [op |-> op, asked |-> asked, bytes |-> bytes]
Nothing == Returned("none", <<>>, <<>>)

Least(a, b) == IF a < b THEN a ELSE b

Init ==
  received = 0 /\ taken = 0 /\ queued = 0 /\ sent = 0 /\ result = Nothing

Receive ==
  /\ \E n \in 1 .. MaxRun : received' = received + n
  /\ result' = Nothing /\ UNCHANGED <<taken, queued, sent>>

\* A read takes what is there, as far as it is asked for.
Read ==
  /\ \E len \in 1 .. MaxRun :
       LET n == Least(len, received - taken) IN
       /\ taken' = taken + n
       /\ result' = Returned("read", <<len>>, After(taken, n))
  /\ UNCHANGED <<received, queued, sent>>

\* A peek shows bytes further on, or none when they have not all come.
Peek ==
  /\ \E at \in 0 .. MaxRun, n \in 1 .. MaxRun :
       result' = Returned("peek", <<at, n>>,
                   IF at + n <= received - taken THEN After(taken + at, n) ELSE <<>>)
  /\ UNCHANGED <<received, taken, queued, sent>>

\* A message is queued, of which the kernel took k bytes before; only behind
\* nothing else may it have taken any.
Queue ==
  /\ queued' \in Nat /\ sent' \in sent .. sent + (queued' - queued) - 1
  /\ sent' # sent => queued = sent
  /\ result' = Nothing /\ UNCHANGED <<received, taken>>

\* The next bytes to send are shown, some if there are any.
Gather ==
  /\ \E n \in 0 .. queued - sent :
       /\ n = 0 => queued = sent
       /\ result' = Returned("gather", <<>>, After(sent, n))
  /\ UNCHANGED <<received, taken, queued, sent>>

\* The kernel takes the first of them.
Took ==
  /\ result.op = "gather"
  /\ \E k \in 1 .. Len(result.bytes) : sent' = sent + k
  /\ result' = Nothing /\ UNCHANGED <<received, taken, queued>>

\* The socket is freed, with what is left in either stream.
Free ==
  /\ taken' = received /\ sent' = queued
  /\ result' = Nothing /\ UNCHANGED <<received, queued>>

\* The next call begins, and what the last one returned is used up.
Next ==
  \/ Receive \/ Read \/ Peek \/ Queue \/ Gather \/ Took \/ Free
  \/ result' = Nothing /\ UNCHANGED <<received, taken, queued, sent>>

Spec == Init /\ [][Next]_vars
=============================================================================
