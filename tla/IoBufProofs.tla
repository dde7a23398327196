---------------------------- MODULE IoBufProofs -----------------------------
(***************************************************************************)
(* Proofs about module IoBuf, for streams, calls, io vectors and batches   *)
(* of any length: the lists hold what they should at every turn of every   *)
(* loop, and are the two streams of module ByteStream.                     *)
(***************************************************************************)
EXTENDS IoBuf, SequenceTheorems, TLAPS

-----------------------------------------------------------------------------
(* Runs, and the calls that are in their loops.                            *)

LEMMA RunIs ==
  ASSUME NEW b \in Nat, NEW n \in Nat
  PROVE  Run(b, n) \in Runs /\ Run(b, n).first = b /\ Run(b, n).len = n
  BY DEF Run, Runs

LEMMA RunFields ==
  ASSUME NEW r \in Runs
  PROVE  r.first \in Nat /\ r.len \in Nat /\ End(r) \in Nat /\ End(r) = r.first + r.len
  BY DEF Runs, End

LEMMA LeastIs ==
  ASSUME NEW a \in Nat \ {0}, NEW b \in Nat \ {0}
  PROVE  Least(a, b) \in Nat \ {0} /\ Least(a, b) <= a /\ Least(a, b) <= b
  BY DEF Least

\* n bytes of a run are n numbers.
LEMMA BytesIs ==
  ASSUME NEW r \in Runs, NEW from \in Nat, NEW n \in Nat
  PROVE  /\ Bytes(r, from, n) \in Seq(Nat) /\ Len(Bytes(r, from, n)) = n
         /\ \A i \in 1 .. n : Bytes(r, from, n)[i] = r.first + from + (i - 1)
<1>1. \A i \in 1 .. n : r.first + from + (i - 1) \in Nat
  BY RunFields
<1>2. Bytes(r, from, n) \in [1 .. n -> Nat]
  BY <1>1 DEF Bytes
<1>3. QED
  BY <1>2 DEF Bytes

\* More bytes come behind those that are there.
LEMMA MoreBytes ==
  ASSUME NEW s \in Seq(Nat), NEW b \in Int, Is(s, b), NEW r \in Runs,
         NEW from \in Nat, NEW n \in Nat, r.first + from = b + Len(s) + 1
  PROVE  /\ s \o Bytes(r, from, n) \in Seq(Nat)
         /\ Len(s \o Bytes(r, from, n)) = Len(s) + n
         /\ Is(s \o Bytes(r, from, n), b)
<1> DEFINE t == Bytes(r, from, n)
<1>1. /\ t \in Seq(Nat) /\ Len(t) = n
      /\ \A i \in 1 .. n : t[i] = r.first + from + (i - 1)
  BY BytesIs
<1> HIDE DEF t
<1>2. s \o t \in Seq(Nat) /\ Len(s \o t) = Len(s) + n
  BY <1>1, ConcatProperties
<1>3. \A i \in 1 .. Len(s) + n :
        (s \o t)[i] = IF i <= Len(s) THEN s[i] ELSE t[i - Len(s)]
  BY <1>1
<1>4. ASSUME NEW i \in 1 .. Len(s) + n PROVE (s \o t)[i] = b + i
  <2>1. CASE i <= Len(s)
    BY <1>3, <2>1 DEF Is
  <2>2. CASE ~(i <= Len(s))
    <3>1. i - Len(s) \in 1 .. n
      BY <2>2
    <3>2. t[i - Len(s)] = r.first + from + (i - Len(s) - 1)
      BY <1>1, <3>1
    <3>3. r.first + from + (i - Len(s) - 1) = b + i
      <4>1. r.first \in Nat /\ Len(s) \in Nat
        BY RunFields
      <4>2. QED
        BY <4>1
    <3>4. (s \o t)[i] = t[i - Len(s)]
      BY <1>3, <2>2
    <3>5. QED
      BY <3>2, <3>3, <3>4
  <2>3. QED
    BY <2>1, <2>2
<1>5. QED
  BY <1>2, <1>4 DEF t, Is

\* The local variables of a call, by its kind.
LEMMA CallKinds ==
  ASSUME call \in Calls
  PROVE  /\ call.op \in {"none", "read", "peek", "gather", "drop"}
         /\ call.op = "none" <=> call = Idle
         /\ Reading => call \in [op : {"read"}, len : Nat, out : Seq(Nat)]
         /\ Peeking => call \in [op : {"peek"}, at : Nat, size : Nat, b : Nat, n1 : Nat,
                                 n3 : Nat, out : Seq(Nat)]
         /\ Gathering => call \in [op : {"gather"}, b : Nat, i : Nat, off : Nat,
                                   cur : Nat, out : Seq(Nat)]
         /\ Dropping => call \in [op : {"drop"}, size : Nat]
<1> USE DEF Reading, Peeking, Gathering, Dropping, Idle
<1>1. CASE call = Idle
  BY <1>1
<1>2. CASE call \in [op : {"read"}, len : Nat, out : Seq(Nat)]
  BY <1>2
<1>3. CASE call \in [op : {"peek"}, at : Nat, size : Nat, b : Nat, n1 : Nat, n3 : Nat,
                     out : Seq(Nat)]
  BY <1>3
<1>4. CASE call \in [op : {"gather"}, b : Nat, i : Nat, off : Nat, cur : Nat,
                     out : Seq(Nat)]
  BY <1>4
<1>5. CASE call \in [op : {"drop"}, size : Nat]
  BY <1>5
<1>6. QED
  BY <1>1, <1>2, <1>3, <1>4, <1>5 DEF Calls

-----------------------------------------------------------------------------
(* The read half of the invariant.                                         *)

ReadHalf ==
  /\ received \in Nat /\ taken \in 0 .. received
  /\ ReadList /\ ReadLoop /\ PeekLoop

\* The queue of the write half, and what was gathered.
WriteHalf ==
  /\ queued \in Nat /\ sent \in 0 .. queued
  /\ WriteList /\ GatherLoop
  /\ result.op = "gather" =>
       /\ call = Idle
       /\ result.bytes \in Seq(Nat) /\ Is(result.bytes, sent)
       /\ sent + Len(result.bytes) <= queued

LEMMA Halves == BufferInv <=> ReadHalf /\ WriteHalf /\ call \in Calls
  BY DEF BufferInv, ReadHalf, WriteHalf

\* A step that is about the other list keeps it.
LEMMA ReadFrame ==
  ASSUME ReadHalf, UNCHANGED <<received, taken, rbl>>,
         ~Reading, ~Reading', ~Peeking'
  PROVE  ReadHalf'
<1>1. ReadList'
  BY DEF ReadHalf, ReadList, rbl
<1>2. QED
  BY <1>1 DEF ReadHalf, ReadLoop, PeekLoop, rbl

LEMMA WriteFrame ==
  ASSUME WriteHalf, UNCHANGED <<queued, sent, wb>>,
         ~Dropping, ~Dropping', ~Gathering', result'.op # "gather"
  PROVE  WriteHalf'
<1>1. ToDrop = 0 /\ ToDrop' = 0
  BY DEF ToDrop
<1>2. WriteList'
  BY <1>1 DEF WriteHalf, WriteList
<1>3. QED
  BY <1>2 DEF WriteHalf, GatherLoop

LEMMA ReceiveStep ==
  ASSUME ReadHalf, NEW n \in Nat \ {0}, Receive(n)
  PROVE  ReadHalf'
<1> DEFINE r == Run(received + 1, n)
<1>1. /\ received' = received + n /\ rb' = Append(rb, r)
      /\ roff' = IF rb = <<>> THEN 0 ELSE roff
      /\ rsize' = IF rb = <<>> THEN n ELSE rsize + n
      /\ call = Idle /\ UNCHANGED <<taken, call>>
  BY DEF Receive
<1>2. r \in Runs /\ r.first = received + 1 /\ r.len = n /\ End(r) = received + n + 1
  <2>1. received \in Nat /\ received + 1 \in Nat
    BY DEF ReadHalf
  <2>2. r \in Runs /\ r.first = received + 1 /\ r.len = n
    BY <2>1, RunIs
  <2> HIDE DEF r
  <2>3. QED
    BY <2>1, <2>2, RunFields
<1> HIDE DEF r
<1>3. rb \in Seq(Runs) /\ Len(rb) \in Nat /\ received \in Nat /\ taken \in 0 .. received
  BY DEF ReadHalf, ReadList
<1>4. /\ rb' \in Seq(Runs) /\ Len(rb') = Len(rb) + 1 /\ rb'[Len(rb) + 1] = r
      /\ \A i \in 1 .. Len(rb) : rb'[i] = rb[i]
  BY <1>1, <1>2, <1>3
<1>5. ~Reading /\ ~Reading' /\ ~Peeking'
  BY <1>1 DEF Reading, Peeking, Idle
<1>6. ReadList'
  <2>1. \A i \in 1 .. Len(rb') : rb'[i].len > 0 /\ End(rb'[i]) <= received' + 1
    <3>1. \A i \in 1 .. Len(rb) : rb[i].len > 0 /\ End(rb[i]) <= received + 1 /\ rb[i] \in Runs
      BY <1>3 DEF ReadHalf, ReadList
    <3>2. \A i \in 1 .. Len(rb) : End(rb[i]) <= received' + 1
      BY <1>1, <1>3, <3>1, RunFields
    <3>3. QED
      BY <1>1, <1>2, <1>3, <1>4, <3>1, <3>2
  <2>2. Adjacent(rb')
    <3>1. \A i \in 1 .. Len(rb) - 1 : rb[i + 1].first = End(rb[i])
      BY DEF ReadHalf, ReadList, Adjacent
    <3>2. rb # <<>> => End(rb[Len(rb)]) = received + 1
      BY DEF ReadHalf, ReadList
    <3>3. ASSUME NEW i \in 1 .. Len(rb') - 1
          PROVE  rb'[i + 1].first = End(rb'[i])
      <4>1. i \in 1 .. Len(rb) /\ rb'[i] = rb[i]
        BY <1>3, <1>4
      <4>2. CASE i = Len(rb)
        <5>1. rb # <<>>
          BY <4>1
        <5>2. End(rb[i]) = received + 1 /\ rb'[i + 1] = r
          BY <1>4, <3>2, <4>2, <5>1
        <5>3. QED
          BY <1>2, <4>1, <5>2
      <4>3. CASE i # Len(rb)
        <5>1. i \in 1 .. Len(rb) - 1 /\ i + 1 \in 1 .. Len(rb)
          BY <1>3, <4>1, <4>3
        <5>2. QED
          BY <1>4, <3>1, <4>1, <5>1
      <4>4. QED
        BY <4>2, <4>3
    <3>4. QED
      BY <3>3 DEF Adjacent
  <2>3. rsize' = received' - taken'
    BY <1>1, <1>3 DEF ReadHalf, ReadList
  <2>4. roff' \in Nat /\ rb' # <<>>
    BY <1>1, <1>3, <1>4 DEF ReadHalf, ReadList
  <2>5. /\ rb'[1].first + roff' = taken' + 1
        /\ roff' < rb'[1].len
        /\ End(rb'[Len(rb')]) = received' + 1
    <3>1. End(rb'[Len(rb')]) = received' + 1
      BY <1>1, <1>2, <1>3, <1>4
    <3>2. CASE rb = <<>>
      BY <1>1, <1>2, <1>3, <1>4, <3>1, <3>2 DEF ReadHalf, ReadList
    <3>3. CASE rb # <<>>
      BY <1>1, <1>3, <1>4, <1>5, <3>1, <3>3 DEF ReadHalf, ReadList
    <3>4. QED
      BY <3>2, <3>3
  <2>6. roff' <= rb'[1].len
    <3>1. rb'[1] \in Runs
      BY <1>3, <1>4
    <3>2. QED
      BY <2>4, <2>5, <3>1, RunFields
  <2>7. QED
    BY <1>4, <2>1, <2>2, <2>3, <2>4, <2>5, <2>6 DEF ReadList
<1>7. QED
  BY <1>1, <1>3, <1>5, <1>6 DEF ReadHalf, ReadLoop, PeekLoop

\* The begin of a read, and its end.
LEMMA ReadEnds ==
  ASSUME ReadHalf, call \in Calls,
         (\E len \in Nat : Read(len)) \/ ReadReturn
  PROVE  ReadHalf' /\ call' \in Calls
<1>1. CASE \E len \in Nat : Read(len)
  <2>1. PICK len \in Nat : Read(len)
    BY <1>1
  <2>2. /\ call' = [op |-> "read", len |-> len, out |-> <<>>] /\ call = Idle
        /\ UNCHANGED <<received, taken, rb, roff, rsize>>
    BY <2>1 DEF Read, streams, rbl
  <2>3. call' \in Calls
    BY <2>2 DEF Calls
  <2>4. ReadList'
    BY <2>2 DEF ReadHalf, ReadList, Reading, Idle
  <2>5. ReadLoop' /\ PeekLoop'
    BY <2>2 DEF ReadHalf, ReadLoop, PeekLoop, Reading, Peeking, Is
  <2>6. QED
    BY <2>2, <2>3, <2>4, <2>5 DEF ReadHalf
<1>2. CASE ReadReturn
  <2>1. /\ call' = Idle
        /\ rb # <<>> => Unread > 0
        /\ UNCHANGED <<received, taken, rb, roff, rsize>>
    BY <1>2 DEF ReadReturn, streams, rbl
  <2>2. ReadList'
    <3>1. rb # <<>> => roff < rb[1].len
      <4>1. rb \in Seq(Runs) /\ roff \in Nat
        BY DEF ReadHalf, ReadList
      <4>2. rb # <<>> => Head(rb) = rb[1] /\ rb[1] \in Runs
        BY <4>1
      <4>3. QED
        BY <2>1, <4>1, <4>2, RunFields DEF Unread
    <3>2. QED
      BY <2>1, <3>1 DEF ReadHalf, ReadList
  <2>3. ReadLoop' /\ PeekLoop' /\ call' \in Calls
    BY <2>1 DEF ReadLoop, PeekLoop, Reading, Peeking, Idle, Calls
  <2>4. QED
    BY <2>1, <2>2, <2>3 DEF ReadHalf
<1>3. QED
  BY <1>1, <1>2

\* What is at the head, for the steps that read there.
LEMMA HeadRun ==
  ASSUME ReadHalf, rb # <<>>
  PROVE  /\ rb \in Seq(Runs) /\ Len(rb) \in Nat \ {0}
         /\ Head(rb) = rb[1] /\ rb[1] \in Runs
         /\ roff \in Nat /\ roff <= rb[1].len
         /\ rb[1].len \in Nat /\ rb[1].first \in Nat
         /\ rb[1].first + roff = taken + 1
         /\ End(rb[1]) = rb[1].first + rb[1].len /\ End(rb[1]) <= received + 1
         /\ received \in Nat /\ taken \in 0 .. received
         /\ End(rb[Len(rb)]) = received + 1
<1>1. rb \in Seq(Runs) /\ Len(rb) \in Nat \ {0} /\ Head(rb) = rb[1] /\ rb[1] \in Runs
  BY DEF ReadHalf, ReadList
<1>2. QED
  BY <1>1, RunFields DEF ReadHalf, ReadList

LEMMA ReadDropStep ==
  ASSUME ReadHalf, call \in Calls, ReadDrop
  PROVE  ReadHalf' /\ call' \in Calls
<1>1. /\ Reading /\ rb # <<>> /\ roff' = roff - rb[1].len /\ rb' = Tail(rb)
      /\ rb[1].len - roff <= 0
      /\ UNCHANGED <<received, taken, rsize, call>>
  BY HeadRun DEF ReadDrop, Unread, Drained, streams
<1>h. /\ rb \in Seq(Runs) /\ Len(rb) \in Nat \ {0} /\ Head(rb) = rb[1] /\ rb[1] \in Runs
      /\ roff \in Nat /\ roff <= rb[1].len /\ rb[1].len \in Nat /\ rb[1].first \in Nat
      /\ rb[1].first + roff = taken + 1
      /\ End(rb[1]) = rb[1].first + rb[1].len /\ End(rb[1]) <= received + 1
      /\ received \in Nat /\ taken \in 0 .. received
      /\ End(rb[Len(rb)]) = received + 1
  BY <1>1, HeadRun
<1>2. roff = rb[1].len /\ roff' = 0
  BY <1>1, <1>h
<1>3. /\ rb' \in Seq(Runs) /\ Len(rb') = Len(rb) - 1
      /\ \A i \in 1 .. Len(rb') : rb'[i] = rb[i + 1]
      /\ Len(rb) \in Nat \ {0}
  BY <1>1, <1>h, HeadTailProperties
<1>4. /\ \A i \in 1 .. Len(rb) : rb[i].len > 0 /\ End(rb[i]) <= received + 1
      /\ \A i \in 1 .. Len(rb) - 1 : rb[i + 1].first = End(rb[i])
  BY DEF ReadHalf, ReadList, Adjacent
<1>5. \A i \in 1 .. Len(rb') : rb'[i].len > 0 /\ End(rb'[i]) <= received + 1
  BY <1>3, <1>4
<1>6. Adjacent(rb')
  <2>1. \A i \in 1 .. Len(rb') - 1 : rb'[i + 1].first = End(rb'[i])
    BY <1>3, <1>4
  <2>2. QED
    BY <2>1 DEF Adjacent
<1>7. CASE rb' = <<>>
  <2>1. Len(rb) = 1
    BY <1>3, <1>7
  <2>2. taken' = received'
    BY <1>1, <1>2, <2>1, <1>h
  <2>3. ReadList'
    BY <1>1, <1>2, <1>3, <1>5, <1>6, <1>7, <2>2 DEF ReadHalf, ReadList
  <2>4. QED
    BY <1>1, <2>3 DEF ReadHalf, ReadLoop, PeekLoop, Reading, Peeking
<1>8. CASE rb' # <<>>
  <2>1. Len(rb') \in Nat \ {0} /\ Len(rb) > 1
    BY <1>3, <1>8
  <2>2. rb'[1] = rb[2] /\ rb[2].first = End(rb[1])
    BY <1>3, <1>4, <2>1
  <2>3. rb'[1].first + roff' = taken' + 1
    <3>1. rb'[1].first = rb[1].first + rb[1].len /\ roff' = 0 /\ taken' = taken
      BY <1>1, <1>2, <2>2, <1>h, Zenon
    <3>2. rb[1].first + rb[1].len = taken + 1
      BY <1>2, <1>h
    <3>3. QED
      BY <1>h, <3>1, <3>2
  <2>4. rb'[Len(rb')] = rb[Len(rb)]
    BY <1>3, <2>1
  <2>5. rb'[1] \in Runs /\ rb'[1].len > 0
    BY <1>3, <1>5, <2>1
  <2>6. ReadList'
    <3>1. rsize = received - taken
      BY DEF ReadHalf, ReadList
    <3>2. roff' <= rb'[1].len
      BY <1>2, <2>5, RunFields
    <3>3. call' = call /\ Reading'
      BY <1>1 DEF Reading
    <3>4. rsize' = received' - taken' /\ End(rb'[Len(rb')]) = received' + 1
      BY <1>1, <1>h, <2>4, <3>1
    <3>5. roff' \in Nat /\ rb' \in Seq(Runs)
      BY <1>2, <1>3
    <3>6. IF rb' = <<>> THEN taken' = received'
          ELSE /\ rb'[1].first + roff' = taken' + 1
               /\ roff' <= rb'[1].len /\ (~Reading' => roff' < rb'[1].len)
               /\ End(rb'[Len(rb')]) = received' + 1
      BY <1>8, <2>3, <3>2, <3>3, <3>4
    <3>7. rsize' = received' - taken' /\ received' = received
      BY <1>1, <3>4
    <3>8. QED
      BY <1>5, <1>6, <3>5, <3>6, <3>7 DEF ReadList
  <2>7. QED
    BY <1>1, <2>6 DEF ReadHalf, ReadLoop, PeekLoop, Reading, Peeking
<1>9. QED
  BY <1>7, <1>8

\* How much a copy copies.
Share == Least(Unread, call.len - Len(call.out))

LEMMA ReadCopyStep ==
  ASSUME ReadHalf, call \in Calls, ReadCopy
  PROVE  /\ ReadHalf' /\ call' \in Calls
         /\ Reading' /\ call'.len = call.len
         /\ taken' - Len(call'.out) = taken - Len(call.out)
<1> DEFINE n == Share
           r == rb[1]
<1>1. Reading /\ rb # <<>> /\ Unread > 0 /\ Len(call.out) < call.len
  BY DEF ReadCopy
<1>c. call' = [call EXCEPT !.out = @ \o Bytes(Head(rb), roff, n)]
  BY DEF ReadCopy, Share
<1>u. /\ taken' = taken + n /\ roff' = roff + n /\ rsize' = rsize - n
      /\ received' = received /\ rb' = rb
  BY DEF ReadCopy, Share
<1>h. /\ rb \in Seq(Runs) /\ Len(rb) \in Nat \ {0} /\ Head(rb) = rb[1] /\ rb[1] \in Runs
      /\ roff \in Nat /\ roff <= rb[1].len /\ rb[1].len \in Nat /\ rb[1].first \in Nat
      /\ rb[1].first + roff = taken + 1
      /\ End(rb[1]) = rb[1].first + rb[1].len /\ End(rb[1]) <= received + 1
      /\ received \in Nat /\ taken \in 0 .. received
      /\ End(rb[Len(rb)]) = received + 1
  BY <1>1, HeadRun
<1>2. /\ call \in [op : {"read"}, len : Nat, out : Seq(Nat)] /\ call.op = "read"
      /\ call.len \in Nat /\ call.out \in Seq(Nat) /\ Len(call.out) \in Nat
  BY <1>1, CallKinds DEF Reading
<1>3. n \in Nat \ {0} /\ n <= r.len - roff /\ n <= call.len - Len(call.out)
  <2>1. n = Least(r.len - roff, call.len - Len(call.out))
    BY <1>h DEF Share, Unread
  <2>2. r.len - roff \in Nat \ {0}
    BY <1>1, <1>h DEF Unread
  <2>3. call.len - Len(call.out) \in Nat \ {0}
    BY <1>1, <1>2
  <2> HIDE DEF n
  <2>4. QED
    BY <2>1, <2>2, <2>3, LeastIs
<1> HIDE DEF n
<1>4. /\ Is(call.out, taken - Len(call.out)) /\ Len(call.out) <= taken
  BY <1>1 DEF ReadHalf, ReadLoop
<1>5. /\ call.out \o Bytes(r, roff, n) \in Seq(Nat)
      /\ Len(call.out \o Bytes(r, roff, n)) = Len(call.out) + n
      /\ Is(call.out \o Bytes(r, roff, n), taken - Len(call.out))
  <2>1. taken - Len(call.out) \in Int /\ r \in Runs /\ roff \in Nat /\ n \in Nat
    BY <1>1, <1>2, <1>3, <1>h
  <2>2. r.first + roff = (taken - Len(call.out)) + Len(call.out) + 1
    BY <1>1, <1>2, <1>h
  <2>3. QED
    BY <1>2, <1>4, <2>1, <2>2, MoreBytes
<1>6. /\ call' \in [op : {"read"}, len : Nat, out : Seq(Nat)] /\ call'.op = "read"
      /\ call'.len = call.len /\ call'.out = call.out \o Bytes(r, roff, n)
  BY <1>c, <1>2, <1>5, <1>h
<1>7. taken' - Len(call'.out) = taken - Len(call.out)
  <2>1. Len(call'.out) = Len(call.out) + n
    BY <1>5, <1>6
  <2>2. QED
    BY <1>u, <1>2, <1>3, <1>h, <2>1
<1>8. call' \in Calls /\ Reading' /\ ~Peeking'
  BY <1>6 DEF Calls, Reading, Peeking
<1>9. taken' \in 0 .. received'
  <2>1. taken + (r.len - roff) <= received /\ r.len - roff \in Int
    <3> DEFINE f == r.first
               k == r.len
    <3>1. /\ f \in Nat /\ k \in Nat /\ roff \in Nat /\ f + roff = taken + 1
          /\ f + k <= received + 1 /\ received \in Nat /\ taken \in Nat
      BY <1>h
    <3> HIDE DEF f, k
    <3>2. taken + (k - roff) <= received /\ k - roff \in Int
      BY <3>1
    <3>3. QED
      BY <3>2 DEF k
  <2>2. taken \in Nat /\ received \in Nat
    BY <1>h
  <2>3. taken + n \in 0 .. received
    BY <1>3, <2>1, <2>2
  <2>4. QED
    BY <1>u, <2>3
<1>10. ReadList'
  <2>1. rsize' = received' - taken'
    <3>1. rsize = received - taken
      BY DEF ReadHalf, ReadList
    <3>2. QED
      BY <1>u, <1>3, <1>h, <3>1
  <2>2. /\ rb'[1].first + roff' = taken' + 1 /\ roff' \in Nat /\ roff' <= rb'[1].len
    <3> DEFINE f == r.first
               k == r.len
    <3>1. /\ f \in Nat /\ k \in Nat /\ roff \in Nat /\ taken \in Nat
          /\ f + roff = taken + 1 /\ n \in Nat /\ n <= k - roff
      BY <1>3, <1>h
    <3>2. roff' = roff + n /\ taken' = taken + n /\ rb'[1].first = f /\ rb'[1].len = k
      BY <1>u
    <3> HIDE DEF f, k
    <3>3. QED
      BY <3>1, <3>2
  <2>3. QED
    BY <1>1, <1>u, <1>8, <2>1, <2>2, <1>h DEF ReadHalf, ReadList
<1>11. ReadLoop'
  <2>1. Len(call'.out) = Len(call.out) + n
    BY <1>5, <1>6
  <2>2. Is(call'.out, taken' - Len(call'.out))
    BY <1>5, <1>6, <1>7
  <2>3. Len(call'.out) <= taken' /\ Len(call'.out) <= call'.len
    <3>1. taken' = taken + n /\ taken \in Nat
      BY <1>u, <1>h
    <3>2. Len(call.out) + n <= taken + n /\ Len(call.out) + n <= call.len
      BY <1>2, <1>3, <1>4, <3>1
    <3>3. QED
      BY <1>6, <2>1, <3>1, <3>2
  <2>4. QED
    BY <2>2, <2>3 DEF ReadLoop
<1>12. QED
  BY <1>u, <1>6, <1>7, <1>8, <1>9, <1>10, <1>11, <1>h DEF ReadHalf, PeekLoop

LEMMA PeekBegins ==
  ASSUME ReadHalf, call \in Calls, NEW at \in Nat, NEW size \in Nat \ {0}, Peek(at, size)
  PROVE  ReadHalf' /\ call' \in Calls
<1>1. /\ call = Idle /\ ~Reading
      /\ UNCHANGED <<received, taken, rb, roff, rsize>>
  BY DEF Peek, streams, rbl, Reading, Idle
<1>2. CASE rsize < at + size
  <2>1. call' = Idle
    BY <1>2 DEF Peek
  <2>2. ~Reading' /\ ~Peeking' /\ call' \in Calls
    BY <2>1 DEF Reading, Peeking, Idle, Calls
  <2>3. QED
    BY <1>1, <2>2, ReadFrame DEF rbl
<1>3. CASE ~(rsize < at + size)
  <2>1. call' = [op |-> "peek", at |-> at, size |-> size, b |-> 1, n1 |-> 0,
                 n3 |-> at + roff, out |-> <<>>]
    BY <1>3 DEF Peek
  <2>2. rb \in Seq(Runs) /\ roff \in Nat /\ rsize = received - taken /\ received \in Nat
    BY DEF ReadHalf, ReadList
  <2>3. call' \in Calls
    BY <2>1, <2>2 DEF Calls
  <2>4. ~Reading'
    BY <2>1 DEF Reading
  <2>5. ReadList'
    BY <1>1, <2>4 DEF ReadHalf, ReadList
  <2>6. PeekLoop'
    <3>1. Begin(1) \in Int
      <4>1. 1 <= Len(rb) => rb[1] \in Runs
        BY <2>2
      <4>2. QED
        BY <2>2, <4>1, RunFields DEF Begin
    <3>2. call'.n1 = Begin(call.b)' - Begin(1)'
      <4>1. call'.b = 1 /\ call'.n1 = 0
        BY <2>1
      <4>2. Begin(call.b)' = Begin(1) /\ Begin(1)' = Begin(1)
        BY <1>1, <4>1 DEF Begin
      <4>3. QED
        BY <3>1, <4>1, <4>2
    <3>3. call'.at + call'.size <= received' - taken' /\ call'.size > 0
      BY <1>1, <1>3, <2>1, <2>2 DEF ReadHalf
    <3>4. call'.b \in 1 .. Len(rb') + 1
      BY <1>1, <2>1, <2>2
    <3>5. Is(call'.out, taken' + call'.at) /\ Len(call'.out) <= call'.size
      BY <2>1 DEF Is
    <3>6. call'.n3 = call'.at + roff' + Len(call'.out) /\ call'.n1 <= call'.n3
      BY <1>1, <2>1, <2>2
    <3>7. QED
      BY <3>2, <3>3, <3>4, <3>5, <3>6 DEF PeekLoop
  <2>7. QED
    BY <1>1, <2>3, <2>4, <2>5, <2>6 DEF ReadHalf, ReadLoop
<1>4. QED
  BY <1>2, <1>3

\* Where a buffer ends the next one begins.
LEMMA BeginNext ==
  ASSUME ReadHalf, NEW b \in 1 .. Len(rb)
  PROVE  /\ rb[b] \in Runs /\ rb[1] \in Runs /\ rb # <<>>
         /\ Begin(b) = rb[b].first /\ Begin(1) = rb[1].first
         /\ Begin(b + 1) = rb[b].first + rb[b].len
<1>1. rb \in Seq(Runs) /\ Len(rb) \in Nat /\ b \in Nat /\ b >= 1 /\ b <= Len(rb)
  BY DEF ReadHalf, ReadList
<1>2. rb[b] \in Runs /\ rb[1] \in Runs /\ rb # <<>> /\ 1 <= Len(rb)
  BY <1>1
<1>3. Begin(b) = rb[b].first /\ Begin(1) = rb[1].first
  BY <1>1, <1>2 DEF Begin
<1>4. End(rb[b]) = rb[b].first + rb[b].len
  BY DEF End
<1>5. CASE b < Len(rb)
  <2>1. rb[b + 1].first = End(rb[b])
    BY <1>1, <1>5 DEF ReadHalf, ReadList, Adjacent
  <2>2. Begin(b + 1) = rb[b + 1].first
    BY <1>1, <1>5 DEF Begin
  <2>3. QED
    BY <1>2, <1>3, <1>4, <2>1, <2>2
<1>6. CASE b = Len(rb)
  <2>1. End(rb[b]) = received + 1
    BY <1>2, <1>6 DEF ReadHalf, ReadList
  <2>2. Begin(b + 1) = received + 1
    BY <1>1, <1>6 DEF Begin
  <2>3. QED
    BY <1>2, <1>3, <1>4, <2>1, <2>2
<1>7. QED
  BY <1>1, <1>5, <1>6

\* How much a peek copies from a buffer.
Shown ==
  LET n2 == call.n1 + rb[call.b].len - 1 IN
  IF n2 < call.n3 THEN 0 ELSE Least(n2, Until) + 1 - call.n3

LEMMA PeekBufferStep ==
  ASSUME ReadHalf, call \in Calls, PeekBuffer
  PROVE  ReadHalf' /\ call' \in Calls
<1> DEFINE r == rb[call.b]
           n == Shown
<1>1. /\ Peeking /\ call.b <= Len(rb) /\ call.n3 <= Until
      /\ UNCHANGED <<received, taken, rb, roff, rsize>>
  BY DEF PeekBuffer, streams, rbl
<1>c. call' = [call EXCEPT !.b = @ + 1, !.n1 = @ + r.len, !.n3 = @ + n,
                           !.out = @ \o Bytes(r, call.n3 - call.n1, n)]
  BY DEF PeekBuffer, Shown
<1>2. /\ call \in [op : {"peek"}, at : Nat, size : Nat, b : Nat, n1 : Nat,
                   n3 : Nat, out : Seq(Nat)]
      /\ call.op = "peek" /\ call.at \in Nat /\ call.size \in Nat /\ call.b \in Nat
      /\ call.n1 \in Nat /\ call.n3 \in Nat /\ call.out \in Seq(Nat)
      /\ Len(call.out) \in Nat
  BY <1>1, CallKinds DEF Peeking
<1>3. /\ call.at + call.size <= received - taken /\ call.size > 0
      /\ call.b \in 1 .. Len(rb) + 1 /\ call.n1 = Begin(call.b) - Begin(1)
      /\ Is(call.out, taken + call.at)
      /\ call.n3 = call.at + roff + Len(call.out)
      /\ Len(call.out) <= call.size
      /\ call.n1 <= call.n3
  BY <1>1 DEF ReadHalf, PeekLoop
<1>l. rb \in Seq(Runs) /\ Len(rb) \in Nat /\ roff \in Nat /\ received \in Nat /\ taken \in Nat
  BY DEF ReadHalf, ReadList
<1>4. call.b \in 1 .. Len(rb)
  BY <1>1, <1>2, <1>3, <1>l
<1>5. /\ r \in Runs /\ rb[1] \in Runs /\ rb # <<>>
      /\ Begin(call.b) = r.first /\ Begin(1) = rb[1].first
      /\ Begin(call.b + 1) = r.first + r.len
  BY <1>4, BeginNext
<1>6. r.first \in Nat /\ r.len \in Nat /\ rb[1].first \in Nat
  BY <1>5, RunFields
<1>7. rb[1].first + roff = taken + 1
  BY <1>5 DEF ReadHalf, ReadList
<1>8. Until = call.at + roff + call.size - 1 /\ Until \in Int
  BY <1>2, <1>l DEF Until
<1>9. /\ n \in Nat
      /\ n <= Until + 1 - call.n3
      /\ call.n3 + n <= Until => call.n1 + r.len <= call.n3 + n
  <2>1. n = IF call.n1 + r.len - 1 < call.n3 THEN 0
            ELSE Least(call.n1 + r.len - 1, Until) + 1 - call.n3
    BY DEF Shown
  <2> HIDE DEF n, r
  <2>2. QED
    <3> DEFINE n1 == call.n1
               n3 == call.n3
               len == r.len
               u == Until
    <3>1. n1 \in Nat /\ len \in Nat /\ n3 \in Nat /\ u \in Int /\ n3 <= u
      BY <1>1, <1>2, <1>6, <1>8
    <3>2. n = IF n1 + len - 1 < n3 THEN 0 ELSE Least(n1 + len - 1, u) + 1 - n3
      BY <2>1
    <3> HIDE DEF n1, n3, len, u
    <3>3. n \in Nat /\ n <= u + 1 - n3 /\ (n3 + n <= u => n1 + len <= n3 + n)
      <4>1. CASE n1 + len - 1 < n3
        BY <3>1, <3>2, <4>1
      <4>2. CASE ~(n1 + len - 1 < n3) /\ n1 + len - 1 < u
        BY <3>1, <3>2, <4>2 DEF Least
      <4>3. CASE ~(n1 + len - 1 < n3) /\ ~(n1 + len - 1 < u)
        BY <3>1, <3>2, <4>3 DEF Least
      <4>4. QED
        BY <4>1, <4>2, <4>3
    <3>4. QED
      BY <3>3 DEF n1, n3, len, u
<1> HIDE DEF n
<1>10. /\ call.out \o Bytes(r, call.n3 - call.n1, n) \in Seq(Nat)
       /\ Len(call.out \o Bytes(r, call.n3 - call.n1, n)) = Len(call.out) + n
       /\ Is(call.out \o Bytes(r, call.n3 - call.n1, n), taken + call.at)
  <2>1. call.n3 - call.n1 \in Nat /\ taken + call.at \in Int
    <3> DEFINE n1 == call.n1
               n3 == call.n3
               a == call.at
    <3>1. n1 \in Nat /\ n3 \in Nat /\ n1 <= n3 /\ a \in Nat /\ taken \in Nat
      BY <1>2, <1>3, <1>l
    <3> HIDE DEF n1, n3, a
    <3>2. n3 - n1 \in Nat /\ taken + a \in Int
      BY <3>1
    <3>3. QED
      BY <3>2 DEF n1, n3, a
  <2>2. r.first + (call.n3 - call.n1) = (taken + call.at) + Len(call.out) + 1
    <3>1. call.n1 = r.first - rb[1].first
      BY <1>3, <1>5
    <3>2. r.first + (call.n3 - call.n1) = rb[1].first + call.n3
      <4> HIDE DEF r
      <4>1. call.n3 \in Int /\ call.n1 \in Int /\ r.first \in Int /\ rb[1].first \in Int
        BY <1>2, <1>6
      <4>2. QED
        BY <3>1, <4>1
    <3>3. rb[1].first + (call.at + roff + Len(call.out))
            = (taken + call.at) + Len(call.out) + 1
      <4> DEFINE f == rb[1].first
                 a == call.at
                 l == Len(call.out)
      <4>1. f \in Int /\ a \in Int /\ l \in Int /\ roff \in Int /\ taken \in Int
        BY <1>2, <1>6, <1>l
      <4>2. f + roff = taken + 1
        BY <1>7
      <4> HIDE DEF f, a, l
      <4>3. f + (a + roff + l) = (taken + a) + l + 1
        BY <4>1, <4>2
      <4>4. QED
        BY <4>3 DEF f, a, l
    <3>4. QED
      BY <1>3, <3>2, <3>3
  <2>3. QED
    BY <1>2, <1>3, <1>5, <1>9, <2>1, <2>2, MoreBytes
<1>11. /\ call' \in [op : {"peek"}, at : Nat, size : Nat, b : Nat, n1 : Nat,
                     n3 : Nat, out : Seq(Nat)]
       /\ call'.op = "peek" /\ call'.at = call.at /\ call'.size = call.size
       /\ call'.b = call.b + 1 /\ call'.n1 = call.n1 + r.len
       /\ call'.n3 = call.n3 + n
       /\ call'.out = call.out \o Bytes(r, call.n3 - call.n1, n)
  <2>1. call.b + 1 \in Nat /\ call.n1 + r.len \in Nat /\ call.n3 + n \in Nat
    <3> HIDE DEF r
    <3>1. call.b \in Nat /\ call.n1 \in Nat /\ r.len \in Nat /\ call.n3 \in Nat /\ n \in Nat
      BY <1>2, <1>6, <1>9
    <3>2. QED
      BY <3>1
  <2>2. QED
    BY <1>c, <1>2, <1>10, <2>1
<1>12. call' \in Calls /\ ~Reading'
  BY <1>11 DEF Calls, Reading
<1>13. ReadList'
  BY <1>1, <1>12 DEF ReadHalf, ReadList, Reading, Peeking
<1>14. PeekLoop'
  <2>1. Until' = Until
    BY <1>1, <1>11 DEF Until
  <2>2. call'.n1 = Begin(call.b)' - Begin(1)'
    <3>1. call'.b = call.b + 1 /\ rb' = rb /\ received' = received
      BY <1>1, <1>11
    <3>2. Begin(call.b)' = Begin(call.b + 1) /\ Begin(1)' = Begin(1)
      BY <3>1 DEF Begin
    <3>3. /\ call.n1 = r.first - rb[1].first /\ call'.n1 = call.n1 + r.len
          /\ Begin(call.b)' - Begin(1)' = (r.first + r.len) - rb[1].first
      BY <1>3, <1>5, <1>11, <3>2
    <3> HIDE DEF r
    <3>4. (r.first - rb[1].first) + r.len = (r.first + r.len) - rb[1].first
      BY <1>6
    <3>5. QED
      BY <3>3, <3>4
  <2>3. call'.n3 = call'.at + roff' + Len(call'.out) /\ Len(call'.out) <= call'.size
    <3>1. Len(call'.out) = Len(call.out) + n
      BY <1>10, <1>11
    <3>2. call'.n3 = call.n3 + n /\ call'.at = call.at /\ roff' = roff
            /\ call'.size = call.size
      BY <1>1, <1>11
    <3>3. /\ call.at \in Int /\ roff \in Int /\ call.size \in Int /\ n \in Int
          /\ Len(call.out) \in Int /\ call.n3 = call.at + roff + Len(call.out)
          /\ n <= (call.at + roff + call.size - 1) + 1 - call.n3
      BY <1>2, <1>3, <1>8, <1>9, <1>l
    <3>4. /\ call.n3 + n = call.at + roff + (Len(call.out) + n)
          /\ Len(call.out) + n <= call.size
      <4> DEFINE a == call.at
                 z == call.size
                 l == Len(call.out)
                 n3 == call.n3
      <4>1. /\ a \in Int /\ roff \in Int /\ z \in Int /\ n \in Int /\ l \in Int
            /\ n3 = a + roff + l /\ n <= (a + roff + z - 1) + 1 - n3
        BY <3>3
      <4> HIDE DEF a, z, l, n3
      <4>2. n3 + n = a + roff + (l + n) /\ l + n <= z
        BY <4>1
      <4>3. QED
        BY <4>2 DEF a, z, l, n3
    <3>5. QED
      BY <3>1, <3>2, <3>4
  <2>4. call'.n3 <= Until' => call'.n1 <= call'.n3
    BY <1>9, <1>11, <2>1
  <2>5. Is(call'.out, taken' + call'.at)
    BY <1>1, <1>10, <1>11
  <2>6. call'.b \in 1 .. Len(rb') + 1
    BY <1>1, <1>4, <1>11, <1>l
  <2>7. call'.at + call'.size <= received' - taken' /\ call'.size > 0
    BY <1>1, <1>3, <1>11
  <2>8. QED
    BY <2>2, <2>3, <2>4, <2>5, <2>6, <2>7 DEF PeekLoop
<1>15. QED
  BY <1>1, <1>12, <1>13, <1>14 DEF ReadHalf, ReadLoop

\* A call that returns leaves the lists; a freed list is empty.
LEMMA PeekReturnStep ==
  ASSUME ReadHalf, call \in Calls, PeekReturn
  PROVE  ReadHalf' /\ call' \in Calls
<1>1. Peeking /\ call' = Idle /\ UNCHANGED <<received, taken, rbl>>
  BY DEF PeekReturn, streams
<1>2. ~Reading /\ ~Reading' /\ ~Peeking' /\ call' \in Calls
  BY <1>1 DEF Reading, Peeking, Idle, Calls
<1>3. QED
  BY <1>1, <1>2, ReadFrame

LEMMA FreeStep ==
  ASSUME BufferInv, Free
  PROVE  BufferInv'
<1>1. /\ rb' = <<>> /\ roff' = 0 /\ rsize' = 0 /\ wb' = <<>>
      /\ taken' = received /\ sent' = queued /\ received' = received /\ queued' = queued
      /\ call' = Idle /\ result' = Nothing
  BY DEF Free
<1>2. received \in Nat /\ queued \in Nat
  BY DEF BufferInv
<1>3. ~Reading' /\ ~Peeking' /\ ~Gathering' /\ ~Dropping' /\ call' \in Calls
  BY <1>1 DEF Reading, Peeking, Gathering, Dropping, Idle, Calls
<1>4. ReadList'
  BY <1>1, <1>2 DEF ReadList, Adjacent
<1>5. WriteList'
  BY <1>1, <1>3 DEF WriteList, ToDrop
<1>6. result'.op # "gather"
  BY <1>1 DEF Nothing, Returned
<1>7. QED
  BY <1>1, <1>2, <1>3, <1>4, <1>5, <1>6 DEF BufferInv, ReadLoop, PeekLoop, GatherLoop

-----------------------------------------------------------------------------
(* The write half.                                                         *)

LEMMA BufferIs ==
  ASSUME NEW w, WriteBuffer(w)
  PROVE  /\ w.vec \in Seq(Runs) /\ Len(w.vec) \in Nat \ {0} /\ w.vec[1] \in Runs
         /\ w.vec[1].first \in Nat /\ Last(w) \in Runs /\ End(Last(w)) \in Nat
         /\ w.offset \in Nat /\ w.vec[1].first + w.offset < End(Last(w))
         /\ SizeOf(w) = End(Last(w)) - w.vec[1].first
<1>1. w.vec \in Seq(Runs) /\ Len(w.vec) \in Nat \ {0} /\ w.vec[1] \in Runs
        /\ w.vec[Len(w.vec)] \in Runs
  BY DEF WriteBuffer
<1>2. w.vec[1].first \in Nat /\ Last(w) \in Runs /\ End(Last(w)) \in Nat
  BY <1>1, RunFields DEF Last
<1>3. /\ w.offset \in Nat /\ w.offset < SizeOf(w)
      /\ SizeOf(w) = End(Last(w)) - w.vec[1].first
  BY DEF WriteBuffer, SizeOf
<1>4. QED
  BY <1>1, <1>2, <1>3

\* Where an io vector ends the next one begins.
LEMMA VecNext ==
  ASSUME NEW w, WriteBuffer(w), NEW i \in 1 .. Len(w.vec)
  PROVE  /\ w.vec[i] \in Runs
         /\ w.vec[i].first + w.vec[i].len
              = IF i + 1 > Len(w.vec) THEN End(Last(w)) ELSE w.vec[i + 1].first
         /\ w.vec[i].first + w.vec[i].len <= End(Last(w))
<1>1. w.vec \in Seq(Runs) /\ Len(w.vec) \in Nat \ {0}
  BY DEF WriteBuffer
<1>2. w.vec[i] \in Runs /\ End(w.vec[i]) = w.vec[i].first + w.vec[i].len
  BY <1>1 DEF End
<1>3. End(w.vec[i]) <= End(Last(w))
  BY DEF WriteBuffer
<1>4. CASE i = Len(w.vec)
  BY <1>1, <1>2, <1>3, <1>4 DEF Last
<1>5. CASE i # Len(w.vec)
  <2>1. w.vec[i + 1].first = End(w.vec[i])
    BY <1>1, <1>5 DEF WriteBuffer, Adjacent
  <2>2. ~(i + 1 > Len(w.vec))
    BY <1>1, <1>5
  <2>3. QED
    BY <1>2, <1>3, <2>1, <2>2
<1>6. QED
  BY <1>4, <1>5

\* What jetnet_tcp_send and _sendv_ put in a write buffer is in one piece.
LEMMA VectorIs ==
  ASSUME NEW b \in Nat, NEW k \in Nat \ {0}, NEW c \in Cuts(b, k)
  PROVE  /\ Vector(b, c) \in Seq(Runs) /\ Len(Vector(b, c)) = k
         /\ Vector(b, c) # <<>>
         /\ Vector(b, c)[1].first = b /\ Vector(b, c)[1].len > 0
         /\ Adjacent(Vector(b, c))
         /\ \A i \in 1 .. k : End(Vector(b, c)[i]) <= End(Vector(b, c)[k])
<1> DEFINE v == Vector(b, c)
           from(i) == IF i = 1 THEN b ELSE c[i - 1]
<1>1. /\ c \in [1 .. k -> b .. b + MaxStream] /\ c[1] > b
      /\ \A i \in 1 .. k, j \in 1 .. k : i <= j => c[i] <= c[j]
  BY DEF Cuts
<1>2. \A i \in 1 .. k : c[i] \in Nat /\ c[i] >= b
  BY <1>1, IoBufAssumption
<1>3. \A i \in 1 .. k : from(i) \in Nat /\ c[i] - from(i) \in Nat
  <2>1. TAKE i \in 1 .. k
  <2>2. CASE i = 1
    BY <1>2, <2>2
  <2>3. CASE i # 1
    <3>1. i - 1 \in 1 .. k /\ i - 1 <= i
      BY <2>3
    <3>2. c[i - 1] \in Nat /\ c[i - 1] <= c[i]
      BY <1>1, <1>2, <3>1
    <3>3. QED
      BY <1>2, <2>3, <3>2
  <2>4. QED
    BY <2>2, <2>3
<1>4. v = [i \in 1 .. k |-> Run(from(i), c[i] - from(i))]
  BY <1>1 DEF Vector
<1>5. \A i \in 1 .. k : /\ v[i] \in Runs /\ v[i].first = from(i)
                        /\ v[i].len = c[i] - from(i) /\ End(v[i]) = c[i]
  <2>1. TAKE i \in 1 .. k
  <2>2. v[i] = Run(from(i), c[i] - from(i))
    BY <1>4
  <2>3. from(i) \in Nat /\ c[i] - from(i) \in Nat /\ c[i] \in Nat
    BY <1>2, <1>3
  <2> HIDE DEF v, from
  <2>4. v[i] \in Runs /\ v[i].first = from(i) /\ v[i].len = c[i] - from(i)
    BY <2>2, <2>3, RunIs
  <2>5. End(v[i]) = v[i].first + v[i].len
    BY DEF End
  <2>6. QED
    BY <2>3, <2>4, <2>5
<1>6. v \in [1 .. k -> Runs]
  BY <1>4, <1>5
<1>7. v \in Seq(Runs) /\ Len(v) = k /\ v # <<>>
  <2> HIDE DEF v
  <2>1. QED
    BY <1>6
<1>8. v[1].first = b /\ v[1].len > 0
  BY <1>1, <1>2, <1>5
<1>9. Adjacent(v)
  <2>1. \A i \in 1 .. k - 1 : v[i + 1].first = End(v[i])
    BY <1>5
  <2> HIDE DEF v
  <2>2. QED
    BY <1>7, <2>1 DEF Adjacent
<1>10. \A i \in 1 .. k : End(v[i]) <= End(v[k])
  BY <1>1, <1>5
<1>11. QED
  BY <1>7, <1>8, <1>9, <1>10

\* The buffers of the list.
LEMMA ListIs ==
  ASSUME WriteHalf
  PROVE  /\ wb \in Seq([vec : Seq(Runs), offset : Nat]) /\ Len(wb) \in Nat
         /\ queued \in Nat /\ sent \in Nat /\ sent <= queued
         /\ \A i \in 1 .. Len(wb) : WriteBuffer(wb[i]) /\ End(Last(wb[i])) <= queued + 1
         /\ \A i \in 2 .. Len(wb) :
              wb[i].offset = 0 /\ wb[i].vec[1].first = End(Last(wb[i - 1]))
         /\ wb = <<>> => sent = queued /\ ToDrop = 0
         /\ wb # <<>> => /\ Len(wb) >= 1
                         /\ wb[1].vec[1].first + wb[1].offset + ToDrop = sent + 1
                         /\ End(Last(wb[Len(wb)])) = queued + 1
<1>1. wb \in Seq([vec : Seq(Runs), offset : Nat]) /\ Len(wb) \in Nat
        /\ (wb # <<>> => Len(wb) >= 1)
  BY DEF WriteHalf, WriteList
<1>2. QED
  BY <1>1 DEF WriteHalf, WriteList

LEMMA QueueStep ==
  ASSUME WriteHalf, NEW n \in Nat \ {0}, NEW c \in Cuts(queued + 1, n), NEW k \in Nat,
         Queue(Vector(queued + 1, c), k)
  PROVE  WriteHalf'
<1> DEFINE v == Vector(queued + 1, c)
           w == [vec |-> v, offset |-> k]
<1>1. /\ wb' = Append(wb, w) /\ queued' = queued + SizeOf(w) /\ sent' = sent + k
      /\ k < SizeOf(w) /\ (k > 0 => wb = <<>>) /\ result' = Nothing
      /\ call = Idle /\ call' = call
  BY DEF Queue
<1>2. queued \in Nat /\ queued + 1 \in Nat
  BY ListIs
<1>3. /\ v \in Seq(Runs) /\ Len(v) = n /\ v # <<>>
      /\ v[1].first = queued + 1 /\ v[1].len > 0 /\ Adjacent(v)
      /\ \A i \in 1 .. n : End(v[i]) <= End(v[n])
  BY <1>2, VectorIs
<1> HIDE DEF v
<1>4. /\ w \in [vec : Seq(Runs), offset : Nat] /\ w.vec = v /\ w.offset = k
      /\ Last(w) = v[n]
  BY <1>3 DEF Last
<1> HIDE DEF w
<1>5. WriteBuffer(w)
  BY <1>1, <1>3, <1>4 DEF WriteBuffer
<1>6. /\ SizeOf(w) = End(Last(w)) - (queued + 1) /\ End(Last(w)) \in Nat
      /\ w.vec[1].first = queued + 1
  BY <1>3, <1>4, <1>5, BufferIs
<1>7. queued' + 1 = End(Last(w)) /\ queued' \in Nat /\ queued' > queued + k
  <2> DEFINE e == End(Last(w))
             s == SizeOf(w)
  <2>1. /\ queued' = queued + s /\ k < s /\ s = e - (queued + 1)
        /\ e \in Nat /\ queued \in Nat
    BY <1>1, <1>2, <1>6
  <2> HIDE DEF e, s
  <2>2. queued' + 1 = e /\ queued' \in Nat /\ queued' > queued + k
    BY <2>1
  <2>3. QED
    BY <2>2 DEF e
<1>8. sent' \in 0 .. queued'
  <2>1. sent \in Nat /\ sent <= queued /\ queued \in Nat
    BY ListIs
  <2>2. sent' = sent + k /\ queued' \in Nat /\ queued' > queued + k
    BY <1>1, <1>7
  <2>3. QED
    BY <2>1, <2>2
<1>9. /\ wb' \in Seq([vec : Seq(Runs), offset : Nat]) /\ Len(wb') = Len(wb) + 1
      /\ wb'[Len(wb) + 1] = w /\ \A i \in 1 .. Len(wb) : wb'[i] = wb[i]
      /\ Len(wb) \in Nat
  BY <1>1, <1>4, ListIs
<1>10. \A i \in 1 .. Len(wb') : WriteBuffer(wb'[i]) /\ End(Last(wb'[i])) <= queued' + 1
  <2>1. TAKE i \in 1 .. Len(wb')
  <2>2. CASE i = Len(wb) + 1
    BY <1>5, <1>6, <1>7, <1>9, <2>2
  <2>3. CASE i # Len(wb) + 1
    <3>1. i \in 1 .. Len(wb) /\ wb'[i] = wb[i]
      BY <1>9, <2>3
    <3>2. WriteBuffer(wb[i]) /\ End(Last(wb[i])) <= queued + 1
      BY <3>1, ListIs
    <3>3. End(Last(wb[i])) \in Nat
      BY <3>2, BufferIs
    <3>4. End(Last(wb[i])) <= queued' + 1
      BY <1>2, <1>7, <3>2, <3>3
    <3>5. QED
      BY <3>1, <3>2, <3>4
  <2>4. QED
    BY <2>2, <2>3
<1>11. \A i \in 2 .. Len(wb') :
         wb'[i].offset = 0 /\ wb'[i].vec[1].first = End(Last(wb'[i - 1]))
  <2>1. TAKE i \in 2 .. Len(wb')
  <2>2. i - 1 \in 1 .. Len(wb) /\ wb'[i - 1] = wb[i - 1] /\ wb # <<>>
    <3>1. Len(wb') = Len(wb) + 1 /\ Len(wb) \in Nat
      BY <1>9
    <3>2. i - 1 \in 1 .. Len(wb)
      BY <3>1
    <3>3. wb # <<>>
      BY <3>1, <3>2
    <3>4. wb'[i - 1] = wb[i - 1]
      BY <1>9, <3>2
    <3>5. QED
      BY <3>2, <3>3, <3>4
  <2>3. CASE i = Len(wb) + 1
    <3>1. k = 0 /\ End(Last(wb[Len(wb)])) = queued + 1
      BY <1>1, <2>2, ListIs
    <3>2. wb'[i] = w /\ i - 1 = Len(wb)
      BY <1>9, <2>3
    <3>3. QED
      BY <1>4, <1>6, <2>2, <3>1, <3>2
  <2>4. CASE i # Len(wb) + 1
    <3>1. i \in 2 .. Len(wb) /\ wb'[i] = wb[i]
      <4>1. Len(wb') = Len(wb) + 1 /\ Len(wb) \in Nat
        BY <1>9
      <4>2. i \in 2 .. Len(wb) /\ i \in 1 .. Len(wb)
        BY <2>4, <4>1
      <4>3. QED
        BY <1>9, <4>2
    <3>2. QED
      BY <2>2, <3>1, ListIs
  <2>5. QED
    BY <2>3, <2>4
<1>12. ToDrop = 0 /\ ToDrop' = 0 /\ ~Gathering' /\ result'.op # "gather"
  BY <1>1 DEF ToDrop, Dropping, Gathering, Idle, Nothing, Returned
<1>13. wb'[1].vec[1].first + wb'[1].offset + ToDrop' = sent' + 1
  <2>1. CASE wb = <<>>
    <3>1. wb'[1] = w /\ sent = queued
      BY <1>9, <2>1, ListIs
    <3>2. w.vec[1].first + w.offset + ToDrop' = (queued + 1) + k + 0
      BY <1>4, <1>6, <1>12
    <3>3. (queued + 1) + k + 0 = (sent + k) + 1 /\ sent' = sent + k
      BY <1>1, <1>2, <3>1
    <3>4. QED
      BY <3>1, <3>2, <3>3
  <2>2. CASE wb # <<>>
    <3>1. 1 \in 1 .. Len(wb) /\ wb'[1] = wb[1] /\ k = 0
      BY <1>1, <1>9, <2>2, ListIs
    <3>2. wb[1].vec[1].first + wb[1].offset + ToDrop = sent + 1
      BY <2>2, ListIs
    <3>3. sent' = sent
      BY <1>1, <3>1, ListIs
    <3>4. QED
      BY <1>12, <3>1, <3>2, <3>3
  <2>3. QED
    BY <2>1, <2>2
<1>14. WriteList'
  <2>1. wb' # <<>> /\ End(Last(wb'[Len(wb')])) = queued' + 1
    BY <1>7, <1>9
  <2>2. QED
    BY <1>9, <1>10, <1>11, <1>13, <2>1 DEF WriteList
<1>15. QED
  BY <1>7, <1>8, <1>12, <1>14 DEF WriteHalf, GatherLoop

\* What the next io vector is, and where it begins.
LEMMA BeginsIs ==
  ASSUME WriteHalf, NEW b \in 1 .. Len(wb)
  PROVE  /\ Begins(b, 1) = wb[b].vec[1].first
         /\ \A i \in 1 .. Len(wb[b].vec) :
              /\ Begins(b, i) = wb[b].vec[i].first
              /\ Begins(b, i + 1) = wb[b].vec[i].first + wb[b].vec[i].len
         /\ Begins(b, Len(wb[b].vec) + 1) = End(Last(wb[b]))
         /\ Begins(b + 1, 1) = End(Last(wb[b]))
<1>1. WriteBuffer(wb[b]) /\ Len(wb) \in Nat /\ ~(b > Len(wb)) /\ wb # <<>>
  BY ListIs
<1>2. Len(wb[b].vec) \in Nat \ {0}
  BY <1>1, BufferIs
<1>3. \A i \in 1 .. Len(wb[b].vec) :
        /\ Begins(b, i) = wb[b].vec[i].first
        /\ Begins(b, i + 1) = wb[b].vec[i].first + wb[b].vec[i].len
  <2>1. TAKE i \in 1 .. Len(wb[b].vec)
  <2>2. wb[b].vec[i].first + wb[b].vec[i].len
          = IF i + 1 > Len(wb[b].vec) THEN End(Last(wb[b])) ELSE wb[b].vec[i + 1].first
    BY <1>1, VecNext
  <2>3. QED
    BY <1>1, <1>2, <2>2 DEF Begins
<1>4. Begins(b, Len(wb[b].vec) + 1) = End(Last(wb[b]))
  BY <1>1, <1>2 DEF Begins
<1>5. Begins(b + 1, 1) = End(Last(wb[b]))
  <2>1. CASE b = Len(wb)
    BY <1>1, <2>1, ListIs DEF Begins
  <2>2. CASE b # Len(wb)
    <3>1. b + 1 \in 2 .. Len(wb) /\ b + 1 \in 1 .. Len(wb) /\ (b + 1) - 1 = b
      BY <1>1, <2>2
    <3>2. wb[b + 1].vec[1].first = End(Last(wb[b])) /\ WriteBuffer(wb[b + 1])
      BY <3>1, ListIs
    <3>3. Len(wb[b + 1].vec) \in Nat \ {0}
      BY <3>2, BufferIs
    <3>4. QED
      BY <1>1, <3>1, <3>2, <3>3 DEF Begins
  <2>3. QED
    BY <2>1, <2>2
<1>6. Begins(b, 1) = wb[b].vec[1].first
  BY <1>2, <1>3
<1>7. QED
  BY <1>3, <1>4, <1>5, <1>6

LEMMA GatherBegins ==
  ASSUME WriteHalf, Gather
  PROVE  WriteHalf' /\ call' \in Calls
<1>1. /\ call' = [op |-> "gather", b |-> 1, i |-> 1, off |-> Skip(1), cur |-> 0,
                  out |-> <<>>]
      /\ call = Idle /\ UNCHANGED <<queued, sent, wb>> /\ result' = Nothing
  BY DEF Gather, streams
<1>2. ToDrop = 0 /\ ToDrop' = 0
  BY <1>1 DEF ToDrop, Dropping, Idle
<1>3. WriteList'
  BY <1>1, <1>2 DEF WriteHalf, WriteList
<1>4. /\ Skip(1) \in Nat /\ Begins(1, 1) + Skip(1) = sent + 1
      /\ Begins(1, 1) + Skip(1)
           <= IF 1 <= Len(wb) THEN End(Last(wb[1])) ELSE queued + 1
      /\ 1 <= Len(wb) => 1 <= Len(wb[1].vec)
  <2>1. CASE wb = <<>>
    <3>1. sent = queued /\ Len(wb) = 0 /\ queued \in Nat
      BY <2>1, ListIs
    <3>2. QED
      BY <3>1 DEF Skip, Begins
  <2>2. CASE wb # <<>>
    <3>1. Len(wb) \in Nat /\ 1 <= Len(wb) /\ 1 \in 1 .. Len(wb) /\ WriteBuffer(wb[1])
      BY <2>2, ListIs
    <3>2. Begins(1, 1) = wb[1].vec[1].first /\ Skip(1) = wb[1].offset
      BY <3>1, BeginsIs DEF Skip
    <3>3. /\ Len(wb[1].vec) \in Nat \ {0} /\ wb[1].offset \in Nat
          /\ wb[1].vec[1].first \in Nat /\ End(Last(wb[1])) \in Nat
          /\ wb[1].vec[1].first + wb[1].offset < End(Last(wb[1]))
      BY <3>1, BufferIs
    <3>4. wb[1].vec[1].first + wb[1].offset + 0 = sent + 1
      BY <1>2, <2>2, ListIs
    <3>5. QED
      BY <3>1, <3>2, <3>3, <3>4
  <2>3. QED
    BY <2>1, <2>2
<1>5. call' \in Calls
  BY <1>1, <1>4 DEF Calls
<1>6. GatherLoop'
  <2>1. /\ call'.b = 1 /\ call'.i = 1 /\ call'.off = Skip(1) /\ call'.cur = 0
        /\ call'.out = <<>> /\ Len(call'.out) = 0
    BY <1>1
  <2>2. Begins(call.b, call.i)' = Begins(1, 1)
    BY <1>1, <2>1 DEF Begins
  <2>3. call'.b \in 1 .. Len(wb') + 1 /\ call'.i \in Nat \ {0} /\ Is(call'.out, sent')
    BY <1>1, <2>1, ListIs DEF Is
  <2>4. call'.b <= Len(wb') => call'.i <= Len(wb'[call'.b].vec) + 1
    <3>1. 1 <= Len(wb) => Len(wb[1].vec) \in Nat
      <4>1. 1 <= Len(wb) => 1 \in 1 .. Len(wb)
        BY ListIs
      <4>2. QED
        BY <4>1, ListIs, BufferIs
    <3>2. QED
      BY <1>1, <1>4, <2>1, <3>1
  <2>5. Begins(call.b, call.i)' + call'.off = sent' + Len(call'.out) + 1
    <3>1. sent + 0 + 1 = sent + 1
      BY ListIs
    <3>2. QED
      BY <1>1, <1>4, <2>1, <2>2, <3>1
  <2>6. Begins(call.b, call.i)' + call'.off
          <= IF call'.b <= Len(wb') THEN End(Last(wb'[call'.b])) ELSE queued' + 1
    BY <1>1, <1>4, <2>1, <2>2
  <2>7. ~(call'.cur > 0)
    BY <2>1
  <2>8. QED
    BY <2>3, <2>4, <2>5, <2>6, <2>7 DEF GatherLoop
<1>7. result'.op # "gather"
  BY <1>1 DEF Nothing, Returned
<1>8. QED
  BY <1>1, <1>3, <1>5, <1>6, <1>7 DEF WriteHalf

\* The variables of the loop, where it is in a buffer.
LEMMA GatherIs ==
  ASSUME WriteHalf, call \in Calls, Gathering
  PROVE  /\ call \in [op : {"gather"}, b : Nat, i : Nat, off : Nat, cur : Nat, out : Seq(Nat)]
         /\ call.b \in 1 .. Len(wb) + 1 /\ call.i \in Nat \ {0} /\ call.off \in Nat
         /\ call.cur \in Nat /\ call.out \in Seq(Nat) /\ Len(call.out) \in Nat
         /\ call.b <= Len(wb) => call.b \in 1 .. Len(wb)
         /\ call.b <= Len(wb) => call.i <= Len(wb[call.b].vec) + 1
         /\ Is(call.out, sent)
         /\ Begins(call.b, call.i) + call.off = sent + Len(call.out) + 1
         /\ call.b <= Len(wb)
              => sent + Len(call.out) + 1 <= End(Last(wb[call.b]))
         /\ sent + Len(call.out) <= queued
         /\ call.cur > 0 => call.out # <<>>
         /\ ToDrop = 0
<1>1. /\ call \in [op : {"gather"}, b : Nat, i : Nat, off : Nat, cur : Nat, out : Seq(Nat)]
      /\ call.off \in Nat /\ call.cur \in Nat /\ call.out \in Seq(Nat)
      /\ Len(call.out) \in Nat /\ call.b \in Nat
  BY CallKinds
<1>2. /\ call.b \in 1 .. Len(wb) + 1 /\ call.i \in Nat \ {0}
      /\ call.b <= Len(wb) => call.i <= Len(wb[call.b].vec) + 1
      /\ Is(call.out, sent)
      /\ Begins(call.b, call.i) + call.off = sent + Len(call.out) + 1
      /\ Begins(call.b, call.i) + call.off
           <= IF call.b <= Len(wb) THEN End(Last(wb[call.b])) ELSE queued + 1
      /\ call.cur > 0 => call.out # <<>>
  BY DEF WriteHalf, GatherLoop
<1>3. ToDrop = 0
  BY DEF ToDrop, Gathering, Dropping
<1>4. call.b <= Len(wb) => call.b \in 1 .. Len(wb)
  BY <1>1, <1>2, ListIs
<1>5. sent + Len(call.out) <= queued
  <2>1. sent \in Nat /\ queued \in Nat
    BY ListIs
  <2>2. CASE call.b <= Len(wb)
    <3>1. WriteBuffer(wb[call.b]) /\ End(Last(wb[call.b])) <= queued + 1
      BY <1>4, <2>2, ListIs
    <3>2. End(Last(wb[call.b])) \in Nat
      BY <3>1, BufferIs
    <3>3. sent + Len(call.out) + 1 <= End(Last(wb[call.b]))
      BY <1>2, <2>2
    <3>4. QED
      BY <1>1, <2>1, <3>1, <3>2, <3>3
  <2>3. CASE ~(call.b <= Len(wb))
    <3>1. sent + Len(call.out) + 1 <= queued + 1
      BY <1>2, <2>3
    <3>2. QED
      BY <1>1, <2>1, <3>1
  <2>4. QED
    BY <2>2, <2>3
<1>6. QED
  BY <1>1, <1>2, <1>3, <1>4, <1>5

LEMMA GatherVecStep ==
  ASSUME WriteHalf, call \in Calls, GatherVec
  PROVE  WriteHalf' /\ call' \in Calls
<1> DEFINE r == wb[call.b].vec[call.i]
<1>1. /\ Gathering /\ call.b <= Len(wb) /\ call.i <= Len(wb[call.b].vec)
      /\ UNCHANGED <<queued, sent, wb, result>>
      /\ call' = IF call.off < r.len
                 THEN [call EXCEPT !.i = @ + 1, !.off = 0, !.cur = @ + 1,
                                   !.out = @ \o Bytes(r, call.off, r.len - call.off)]
                 ELSE [call EXCEPT !.i = @ + 1, !.off = call.off - r.len]
  BY DEF GatherVec, More, Skipped, streams
<1>2. /\ call \in [op : {"gather"}, b : Nat, i : Nat, off : Nat, cur : Nat, out : Seq(Nat)]
      /\ call.b \in 1 .. Len(wb) /\ call.i \in Nat \ {0} /\ call.off \in Nat
      /\ call.cur \in Nat /\ call.out \in Seq(Nat) /\ Len(call.out) \in Nat
      /\ Is(call.out, sent)
      /\ Begins(call.b, call.i) + call.off = sent + Len(call.out) + 1
      /\ sent + Len(call.out) + 1 <= End(Last(wb[call.b]))
      /\ call.cur > 0 => call.out # <<>>
      /\ ToDrop = 0
  BY <1>1, GatherIs
<1>3. /\ WriteBuffer(wb[call.b]) /\ Len(wb[call.b].vec) \in Nat
      /\ call.i \in 1 .. Len(wb[call.b].vec) /\ sent \in Nat /\ Len(wb) \in Nat
  <2>1. WriteBuffer(wb[call.b]) /\ sent \in Nat /\ Len(wb) \in Nat
    BY <1>2, ListIs
  <2>2. Len(wb[call.b].vec) \in Nat
    BY <2>1, BufferIs
  <2>3. QED
    BY <1>1, <1>2, <2>1, <2>2
<1>4. /\ r \in Runs /\ r.first + r.len <= End(Last(wb[call.b]))
      /\ Begins(call.b, call.i) = r.first
      /\ Begins(call.b, call.i + 1) = r.first + r.len
  BY <1>2, <1>3, VecNext, BeginsIs
<1>5. r.first \in Nat /\ r.len \in Nat
  BY <1>4, RunFields
<1>6. r.first + call.off = sent + Len(call.out) + 1
  BY <1>2, <1>4
<1>7. /\ call' \in [op : {"gather"}, b : Nat, i : Nat, off : Nat, cur : Nat, out : Seq(Nat)]
      /\ call'.op = "gather" /\ call'.b = call.b /\ call'.i = call.i + 1
      /\ Is(call'.out, sent)
      /\ (r.first + r.len) + call'.off = sent + Len(call'.out) + 1
      /\ (r.first + r.len) + call'.off <= End(Last(wb[call.b]))
      /\ call'.cur > 0 => call'.out # <<>>
  <2>1. CASE call.off < r.len
    <3> DEFINE n == r.len - call.off
               o == call.out \o Bytes(r, call.off, n)
    <3>1. n \in Nat /\ n > 0
      <4> HIDE DEF r
      <4>1. call.off \in Nat /\ r.len \in Nat /\ call.off < r.len
        BY <1>2, <1>5, <2>1
      <4>2. QED
        BY <4>1
    <3>2. o \in Seq(Nat) /\ Len(o) = Len(call.out) + n /\ Is(o, sent)
      <4> HIDE DEF n, r
      <4>1. /\ call.out \in Seq(Nat) /\ sent \in Int /\ Is(call.out, sent) /\ r \in Runs
            /\ call.off \in Nat /\ r.first + call.off = sent + Len(call.out) + 1
        BY <1>2, <1>3, <1>4, <1>6
      <4>2. QED
        BY <3>1, <4>1, MoreBytes
    <3>3. call' = [call EXCEPT !.i = call.i + 1, !.off = 0, !.cur = call.cur + 1, !.out = o]
      BY <1>1, <2>1
    <3> HIDE DEF o
    <3>4. call.i + 1 \in Nat /\ call.cur + 1 \in Nat
      BY <1>2
    <3>5. /\ call' \in [op : {"gather"}, b : Nat, i : Nat, off : Nat, cur : Nat,
                         out : Seq(Nat)]
          /\ call'.op = "gather" /\ call'.b = call.b /\ call'.i = call.i + 1
          /\ call'.off = 0 /\ call'.out = o
      BY <1>2, <3>2, <3>3, <3>4
    <3>6. (r.first + r.len) + 0 = sent + Len(o) + 1
      <4> DEFINE l == Len(call.out)
                 f == r.first
                 k == r.len
                 d == call.off
                 e == Len(o)
      <4>1. /\ f \in Nat /\ k \in Nat /\ l \in Nat /\ sent \in Nat /\ d \in Nat
            /\ f + d = sent + l + 1 /\ e = l + (k - d)
        BY <1>2, <1>3, <1>5, <1>6, <3>2
      <4> HIDE DEF l, f, k, d, e
      <4>2. (f + k) + 0 = sent + e + 1
        BY <4>1
      <4>3. QED
        BY <4>2 DEF f, k, e
    <3>7. (r.first + r.len) + 0 <= End(Last(wb[call.b]))
      BY <1>4, <1>5
    <3>8. o # <<>>
      BY <1>2, <3>1, <3>2
    <3>9. QED
      BY <3>2, <3>5, <3>6, <3>7, <3>8
  <2>2. CASE ~(call.off < r.len)
    <3>1. call' = [call EXCEPT !.i = call.i + 1, !.off = call.off - r.len]
      BY <1>1, <2>2
    <3> HIDE DEF r
    <3>2. call.i + 1 \in Nat /\ call.off - r.len \in Nat
      BY <1>2, <1>5, <2>2
    <3>3. /\ call' \in [op : {"gather"}, b : Nat, i : Nat, off : Nat, cur : Nat,
                         out : Seq(Nat)]
          /\ call'.op = "gather" /\ call'.b = call.b /\ call'.i = call.i + 1
          /\ call'.off = call.off - r.len /\ call'.out = call.out /\ call'.cur = call.cur
      BY <1>2, <3>1, <3>2
    <3>4. (r.first + r.len) + (call.off - r.len) = r.first + call.off
      BY <1>2, <1>5
    <3>5. QED
      BY <1>2, <1>6, <3>3, <3>4
  <2>3. QED
    BY <2>1, <2>2
<1>8. call' \in Calls /\ ~Dropping'
  BY <1>7 DEF Calls, Dropping
<1>9. WriteList'
  BY <1>1, <1>2, <1>8 DEF WriteHalf, WriteList, ToDrop
<1>10. GatherLoop'
  <2>1. Begins(call.b, call.i)' = r.first + r.len
    <3>1. Begins(call.b, call.i)' = Begins(call.b, call.i + 1)
      BY <1>1, <1>7 DEF Begins
    <3>2. QED
      BY <1>4, <3>1
  <2>2. call'.b \in 1 .. Len(wb') + 1 /\ call'.b <= Len(wb')
    <3>1. call'.b = call.b /\ wb' = wb /\ call.b \in 1 .. Len(wb) /\ Len(wb) \in Nat
      BY <1>1, <1>2, <1>3, <1>7
    <3>2. QED
      BY <3>1
  <2>3. call'.i \in Nat \ {0} /\ call'.i <= Len(wb'[call'.b].vec) + 1
    <3>1. /\ call'.b = call.b /\ call'.i = call.i + 1 /\ wb' = wb
          /\ call.i \in 1 .. Len(wb[call.b].vec) /\ Len(wb[call.b].vec) \in Nat
      BY <1>1, <1>3, <1>7
    <3>2. QED
      BY <3>1
  <2>4. QED
    BY <1>1, <1>7, <2>1, <2>2, <2>3 DEF GatherLoop
<1>11. result'.op # "gather"
  BY <1>1 DEF WriteHalf, Gathering, Idle
<1>12. QED
  BY <1>1, <1>8, <1>9, <1>10, <1>11 DEF WriteHalf

\* Behind the last io vector of a buffer nothing is left to skip.
LEMMA GatherNextStep ==
  ASSUME WriteHalf, call \in Calls, GatherNext
  PROVE  WriteHalf' /\ call' \in Calls
<1>1. /\ Gathering /\ call.b <= Len(wb) /\ call.i > Len(wb[call.b].vec)
      /\ UNCHANGED <<queued, sent, wb, result>>
      /\ call' = [call EXCEPT !.b = @ + 1, !.i = 1, !.off = Skip(call.b + 1)]
  BY DEF GatherNext, More, streams
<1>2. /\ call \in [op : {"gather"}, b : Nat, i : Nat, off : Nat, cur : Nat, out : Seq(Nat)]
      /\ call.b \in 1 .. Len(wb) /\ call.i \in Nat \ {0} /\ call.off \in Nat
      /\ call.out \in Seq(Nat) /\ Len(call.out) \in Nat
      /\ call.i <= Len(wb[call.b].vec) + 1
      /\ Is(call.out, sent)
      /\ Begins(call.b, call.i) + call.off = sent + Len(call.out) + 1
      /\ sent + Len(call.out) + 1 <= End(Last(wb[call.b]))
      /\ call.cur > 0 => call.out # <<>>
      /\ ToDrop = 0
  BY <1>1, GatherIs
<1>3. /\ WriteBuffer(wb[call.b]) /\ Len(wb[call.b].vec) \in Nat
      /\ End(Last(wb[call.b])) \in Nat /\ Len(wb) \in Nat /\ sent \in Nat /\ queued \in Nat
  <2>1. WriteBuffer(wb[call.b]) /\ Len(wb) \in Nat /\ sent \in Nat /\ queued \in Nat
    BY <1>2, ListIs
  <2>2. QED
    BY <2>1, BufferIs
<1>4. call.i = Len(wb[call.b].vec) + 1
  <2> DEFINE i == call.i
             l == Len(wb[call.b].vec)
  <2>1. i \in Nat /\ l \in Nat /\ i > l /\ i <= l + 1
    BY <1>1, <1>2, <1>3
  <2> HIDE DEF i, l
  <2>2. i = l + 1
    BY <2>1
  <2>3. QED
    BY <2>2 DEF i, l
<1>5. Begins(call.b, call.i) = End(Last(wb[call.b]))
  BY <1>2, <1>4, BeginsIs
<1>6. Begins(call.b + 1, 1) = End(Last(wb[call.b]))
  BY <1>2, BeginsIs
<1>7. End(Last(wb[call.b])) = sent + Len(call.out) + 1
  BY <1>2, <1>3, <1>5
<1>8. /\ Skip(call.b + 1) = 0
      /\ call.b + 1 <= Len(wb)
          => /\ Len(wb[call.b + 1].vec) \in Nat \ {0}
             /\ End(Last(wb[call.b])) <= End(Last(wb[call.b + 1]))
      /\ ~(call.b + 1 <= Len(wb)) => End(Last(wb[call.b])) = queued + 1
  <2>1. CASE call.b + 1 <= Len(wb)
    <3>1. call.b + 1 \in 1 .. Len(wb) /\ call.b + 1 \in 2 .. Len(wb) /\ (call.b + 1) - 1 = call.b
      <4>1. call.b \in 1 .. Len(wb) /\ Len(wb) \in Nat
        BY <1>2, <1>3
      <4>2. QED
        BY <2>1, <4>1
    <3>2. /\ wb[call.b + 1].offset = 0
          /\ wb[call.b + 1].vec[1].first = End(Last(wb[call.b]))
          /\ WriteBuffer(wb[call.b + 1])
      BY <3>1, ListIs
    <3>3. /\ Len(wb[call.b + 1].vec) \in Nat \ {0}
          /\ End(Last(wb[call.b + 1])) \in Nat
          /\ wb[call.b + 1].vec[1].first + wb[call.b + 1].offset < End(Last(wb[call.b + 1]))
      BY <3>2, BufferIs
    <3>4. End(Last(wb[call.b])) <= End(Last(wb[call.b + 1]))
      BY <1>3, <3>2, <3>3
    <3>5. QED
      BY <2>1, <3>2, <3>3, <3>4 DEF Skip
  <2>2. CASE ~(call.b + 1 <= Len(wb))
    <3>1. call.b = Len(wb) /\ wb # <<>>
      BY <1>2, <1>3, <2>2
    <3>2. End(Last(wb[call.b])) = queued + 1
      BY <3>1, ListIs
    <3>3. QED
      BY <2>2, <3>2 DEF Skip
  <2>3. QED
    BY <2>1, <2>2
<1>9. call' = [call EXCEPT !.b = call.b + 1, !.i = 1, !.off = 0]
  BY <1>1, <1>8
<1>10. /\ call' \in [op : {"gather"}, b : Nat, i : Nat, off : Nat, cur : Nat, out : Seq(Nat)]
       /\ call'.op = "gather" /\ call'.b = call.b + 1 /\ call'.i = 1 /\ call'.off = 0
       /\ call'.out = call.out /\ call'.cur = call.cur
  <2>1. call.b + 1 \in Nat
    BY <1>2
  <2>2. QED
    BY <1>2, <1>9, <2>1
<1>11. call' \in Calls /\ ~Dropping'
  BY <1>10 DEF Calls, Dropping
<1>12. WriteList'
  BY <1>1, <1>2, <1>11 DEF WriteHalf, WriteList, ToDrop
<1>13. GatherLoop'
  <2>1. Begins(call.b, call.i)' + call'.off = sent' + Len(call'.out) + 1
    <3>1. Begins(call.b, call.i)' = Begins(call.b + 1, 1)
      BY <1>1, <1>10 DEF Begins
    <3>2. Begins(call.b, call.i)' = End(Last(wb[call.b])) /\ call'.off = 0
      BY <1>6, <1>10, <3>1
    <3>3. End(Last(wb[call.b])) + 0 = sent + Len(call.out) + 1
      BY <1>3, <1>7
    <3>4. QED
      BY <1>1, <1>10, <3>2, <3>3
  <2>2. Begins(call.b, call.i)' + call'.off
          <= IF call'.b <= Len(wb') THEN End(Last(wb'[call'.b])) ELSE queued' + 1
    <3>1. Begins(call.b, call.i)' + call'.off = End(Last(wb[call.b]))
      BY <1>1, <1>7, <1>10, <2>1
    <3>2. call'.b = call.b + 1 /\ wb' = wb /\ queued' = queued
      BY <1>1, <1>10
    <3>3. CASE call.b + 1 <= Len(wb)
      BY <1>8, <3>1, <3>2, <3>3
    <3>4. CASE ~(call.b + 1 <= Len(wb))
      <4>1. queued + 1 <= queued + 1
        BY <1>3
      <4>2. QED
        BY <1>8, <3>1, <3>2, <3>4, <4>1
    <3>5. QED
      BY <3>3, <3>4
  <2>3. call'.b \in 1 .. Len(wb') + 1
    <3>1. call'.b = call.b + 1 /\ wb' = wb /\ call.b \in 1 .. Len(wb) /\ Len(wb) \in Nat
      BY <1>1, <1>2, <1>3, <1>10
    <3>2. QED
      BY <3>1
  <2>4. call'.i \in Nat \ {0} /\ (call'.b <= Len(wb') => call'.i <= Len(wb'[call'.b].vec) + 1)
    <3>1. call'.b = call.b + 1 /\ call'.i = 1 /\ wb' = wb
      BY <1>1, <1>10
    <3>2. call.b + 1 <= Len(wb) => 1 <= Len(wb[call.b + 1].vec) + 1
      BY <1>8
    <3>3. QED
      BY <3>1, <3>2
  <2>5. Is(call'.out, sent') /\ (call'.cur > 0 => call'.out # <<>>)
    BY <1>1, <1>2, <1>10
  <2>6. QED
    BY <2>1, <2>2, <2>3, <2>4, <2>5 DEF GatherLoop
<1>14. result'.op # "gather"
  BY <1>1 DEF WriteHalf, Gathering, Idle
<1>15. QED
  BY <1>1, <1>11, <1>12, <1>13, <1>14 DEF WriteHalf

LEMMA GatherReturnStep ==
  ASSUME WriteHalf, call \in Calls, GatherReturn
  PROVE  WriteHalf' /\ call' \in Calls
<1>1. /\ Gathering /\ UNCHANGED <<queued, sent, wb>> /\ call' = Idle
      /\ result' = [op |-> "gather", asked |-> <<>>, bytes |-> call.out]
  BY DEF GatherReturn, streams, Returned
<1>2. /\ call.out \in Seq(Nat) /\ Is(call.out, sent) /\ sent + Len(call.out) <= queued
      /\ ToDrop = 0
  BY <1>1, GatherIs
<1>3. call' \in Calls /\ ~Dropping' /\ ~Gathering'
  BY <1>1 DEF Calls, Dropping, Gathering, Idle
<1>4. WriteList'
  BY <1>1, <1>2, <1>3 DEF WriteHalf, WriteList, ToDrop
<1>5. QED
  BY <1>1, <1>2, <1>3, <1>4 DEF WriteHalf, GatherLoop

LEMMA TookStep ==
  ASSUME WriteHalf, NEW k \in Nat \ {0}, Took(k)
  PROVE  WriteHalf' /\ call' \in Calls
<1>1. /\ call = Idle /\ result.op = "gather" /\ k <= Len(result.bytes)
      /\ sent' = sent + k /\ call' = [op |-> "drop", size |-> k]
      /\ result' = Nothing /\ UNCHANGED <<queued, wb>>
  BY DEF Took
<1>2. /\ sent \in Nat /\ queued \in Nat /\ Len(result.bytes) \in Nat
      /\ sent + Len(result.bytes) <= queued
  BY <1>1, ListIs DEF WriteHalf
<1>3. sent' \in 0 .. queued' /\ sent + k <= queued
  BY <1>1, <1>2
<1>4. ToDrop = 0 /\ ToDrop' = k /\ ~Gathering' /\ call' \in Calls /\ result'.op # "gather"
  BY <1>1 DEF ToDrop, Dropping, Gathering, Idle, Calls, Nothing, Returned
<1>5. wb # <<>>
  <2>1. wb = <<>> => sent = queued
    BY ListIs
  <2>2. QED
    BY <1>2, <1>3, <2>1
<1>6. wb'[1].vec[1].first + wb'[1].offset + ToDrop' = sent' + 1
  <2>1. /\ wb[1].vec[1].first + wb[1].offset + 0 = sent + 1
        /\ WriteBuffer(wb[1])
    BY <1>4, <1>5, ListIs
  <2> DEFINE f == wb[1].vec[1].first
             o == wb[1].offset
  <2>2. f \in Nat /\ o \in Nat /\ f + o + 0 = sent + 1
    BY <2>1, BufferIs
  <2> HIDE DEF f, o
  <2>3. f + o + k = sent + k + 1
    BY <1>2, <2>2
  <2>4. QED
    BY <1>1, <1>2, <1>4, <2>3 DEF f, o
<1>7. WriteList'
  BY <1>1, <1>5, <1>6 DEF WriteHalf, WriteList
<1>8. QED
  BY <1>1, <1>2, <1>3, <1>4, <1>7 DEF WriteHalf, GatherLoop

\* Where the head stands while a drop is in its loop.
LEMMA DropIs ==
  ASSUME WriteHalf, call \in Calls, Dropping, wb # <<>>
  PROVE  /\ call \in [op : {"drop"}, size : Nat] /\ call.size \in Nat /\ ToDrop = call.size
         /\ Head(wb) = wb[1] /\ WriteBuffer(wb[1]) /\ Len(wb) \in Nat \ {0}
         /\ Left = End(Last(wb[1])) - (wb[1].vec[1].first + wb[1].offset)
         /\ wb[1].vec[1].first \in Nat /\ wb[1].offset \in Nat /\ End(Last(wb[1])) \in Nat
         /\ wb[1].vec[1].first + wb[1].offset < End(Last(wb[1]))
         /\ wb[1].vec[1].first + wb[1].offset + call.size = sent + 1
         /\ sent \in Nat /\ queued \in Nat /\ sent <= queued
<1>1. call \in [op : {"drop"}, size : Nat] /\ call.size \in Nat /\ ToDrop = call.size
  BY CallKinds DEF ToDrop
<1>2. /\ Head(wb) = wb[1] /\ WriteBuffer(wb[1]) /\ Len(wb) \in Nat \ {0}
      /\ wb[1].vec[1].first + wb[1].offset + call.size = sent + 1
      /\ sent \in Nat /\ queued \in Nat /\ sent <= queued
  <2>1. wb \in Seq([vec : Seq(Runs), offset : Nat]) /\ Len(wb) \in Nat /\ Len(wb) >= 1
    BY ListIs
  <2>2. 1 \in 1 .. Len(wb) /\ Head(wb) = wb[1]
    BY <2>1
  <2>3. QED
    BY <1>1, <2>1, <2>2, ListIs
<1>3. /\ wb[1].vec[1].first \in Nat /\ wb[1].offset \in Nat /\ End(Last(wb[1])) \in Nat
      /\ wb[1].vec[1].first + wb[1].offset < End(Last(wb[1]))
      /\ SizeOf(wb[1]) = End(Last(wb[1])) - wb[1].vec[1].first
  BY <1>2, BufferIs
<1>4. Left = SizeOf(wb[1]) - wb[1].offset
  BY <1>2 DEF Left
<1>5. Left = End(Last(wb[1])) - (wb[1].vec[1].first + wb[1].offset)
  BY <1>3, <1>4
<1>6. QED
  BY <1>1, <1>2, <1>3, <1>5

LEMMA DropBufferStep ==
  ASSUME WriteHalf, call \in Calls, DropBuffer
  PROVE  WriteHalf' /\ call' \in Calls
<1> DEFINE e == End(Last(wb[1]))
           f == wb[1].vec[1].first + wb[1].offset
<1>1. /\ Dropping /\ wb # <<>> /\ Left <= call.size /\ wb' = Tail(wb)
      /\ call' = [call EXCEPT !.size = @ - Left]
      /\ UNCHANGED <<queued, sent, result>>
  BY DEF DropBuffer, streams
<1>2. /\ call \in [op : {"drop"}, size : Nat] /\ call.size \in Nat
      /\ Len(wb) \in Nat \ {0}
      /\ Left = e - f /\ e \in Nat /\ f \in Nat /\ f < e
      /\ f + call.size = sent + 1
      /\ sent \in Nat /\ queued \in Nat /\ sent <= queued
  <2>1. Dropping /\ wb # <<>>
    BY <1>1
  <2>2. wb[1].vec[1].first \in Nat /\ wb[1].offset \in Nat
    BY <2>1, DropIs
  <2>3. f \in Nat
    BY <2>2
  <2>4. /\ call \in [op : {"drop"}, size : Nat] /\ call.size \in Nat
        /\ Len(wb) \in Nat \ {0}
        /\ Left = e - f /\ e \in Nat /\ f < e
        /\ f + call.size = sent + 1
        /\ sent \in Nat /\ queued \in Nat /\ sent <= queued
    BY <2>1, DropIs
  <2> HIDE DEF e, f
  <2>5. QED
    BY <2>3, <2>4
<1> HIDE DEF e, f
<1>3. call.size - Left \in Nat /\ e + (call.size - Left) = sent + 1
  <2> DEFINE s == call.size
  <2>1. s \in Nat /\ Left <= s /\ f + s = sent + 1
    BY <1>1, <1>2
  <2> HIDE DEF s
  <2>2. s - Left \in Nat /\ e + (s - Left) = sent + 1
    BY <1>2, <2>1
  <2>3. QED
    BY <2>2 DEF s
<1>4. /\ call' \in [op : {"drop"}, size : Nat] /\ call'.size = call.size - Left
      /\ call'.op = "drop"
  BY <1>1, <1>2, <1>3
<1>5. call' \in Calls /\ ToDrop' = call.size - Left /\ ~Gathering' /\ result'.op # "gather"
  <2>1. result.op # "gather"
    BY <1>1 DEF WriteHalf, Dropping, Idle
  <2>2. QED
    BY <1>1, <1>4, <2>1 DEF Calls, ToDrop, Dropping, Gathering
<1>6. wb \in Seq([vec : Seq(Runs), offset : Nat])
  BY ListIs
<1>7. /\ wb' \in Seq([vec : Seq(Runs), offset : Nat]) /\ Len(wb') = Len(wb) - 1
      /\ \A i \in 1 .. Len(wb') : wb'[i] = wb[i + 1]
  BY <1>1, <1>2, <1>6, HeadTailProperties
<1>8. \A i \in 1 .. Len(wb') : WriteBuffer(wb'[i]) /\ End(Last(wb'[i])) <= queued' + 1
  <2>1. TAKE i \in 1 .. Len(wb')
  <2>2. i + 1 \in 1 .. Len(wb) /\ wb'[i] = wb[i + 1]
    BY <1>2, <1>7
  <2>3. QED
    BY <1>1, <2>2, ListIs
<1>9. \A i \in 2 .. Len(wb') :
        wb'[i].offset = 0 /\ wb'[i].vec[1].first = End(Last(wb'[i - 1]))
  <2>1. TAKE i \in 2 .. Len(wb')
  <2>2. /\ i \in 1 .. Len(wb') /\ i - 1 \in 1 .. Len(wb') /\ i + 1 \in 2 .. Len(wb)
        /\ (i - 1) + 1 = i /\ (i + 1) - 1 = i
    BY <1>2, <1>7
  <2>3. wb'[i] = wb[i + 1] /\ wb'[i - 1] = wb[i]
    BY <1>7, <2>2
  <2>4. wb[i + 1].offset = 0 /\ wb[i + 1].vec[1].first = End(Last(wb[i]))
    BY <2>2, ListIs
  <2>5. QED
    BY <2>3, <2>4
<1>10. wb' = <<>> => sent' = queued' /\ ToDrop' = 0
  <2>1. SUFFICES ASSUME wb' = <<>> PROVE sent' = queued' /\ ToDrop' = 0
    OBVIOUS
  <2>2. Len(wb) = 1
    BY <1>2, <1>7, <2>1
  <2>3. e = queued + 1
    BY <1>1, <2>2, ListIs DEF e
  <2> DEFINE s == call.size - Left
  <2>4. s \in Nat /\ e + s = sent + 1 /\ ToDrop' = s
    BY <1>3, <1>5
  <2> HIDE DEF s
  <2>5. s = 0 /\ sent = queued
    BY <1>2, <2>3, <2>4
  <2>6. QED
    BY <1>1, <2>4, <2>5
<1>11. wb' # <<>> => /\ wb'[1].vec[1].first + wb'[1].offset + ToDrop' = sent' + 1
                     /\ End(Last(wb'[Len(wb')])) = queued' + 1
  <2>1. SUFFICES ASSUME wb' # <<>>
                 PROVE  /\ wb'[1].vec[1].first + wb'[1].offset + ToDrop' = sent' + 1
                        /\ End(Last(wb'[Len(wb')])) = queued' + 1
    OBVIOUS
  <2>2. Len(wb') \in Nat \ {0}
    <3>1. wb' \in Seq([vec : Seq(Runs), offset : Nat])
      BY <1>7
    <3>2. QED
      BY <2>1, <3>1
  <2>3. 1 \in 1 .. Len(wb') /\ 2 \in 2 .. Len(wb) /\ Len(wb') + 1 = Len(wb) /\ 2 - 1 = 1
    BY <1>2, <1>7, <2>2
  <2>4. wb'[1] = wb[2] /\ wb'[Len(wb')] = wb[Len(wb)]
    <3>1. wb'[1] = wb[1 + 1] /\ wb'[Len(wb')] = wb[Len(wb') + 1]
      <4>1. \A i \in 1 .. Len(wb') : wb'[i] = wb[i + 1]
        BY <1>7
      <4>2. 1 \in 1 .. Len(wb') /\ Len(wb') \in 1 .. Len(wb')
        BY <2>2
      <4>3. QED
        BY <4>1, <4>2, Zenon
    <3>2. QED
      BY <2>3, <3>1
  <2>5. wb[2].offset = 0 /\ wb[2].vec[1].first = e
    BY <2>3, ListIs DEF e
  <2>6. End(Last(wb[Len(wb)])) = queued + 1
    BY <1>1, ListIs
  <2> DEFINE s == call.size - Left
  <2>7. s \in Nat /\ e + s = sent + 1 /\ ToDrop' = s
    BY <1>3, <1>5
  <2> HIDE DEF s
  <2>8. e + 0 + s = sent + 1
    BY <1>2, <2>7
  <2>9. QED
    BY <1>1, <2>4, <2>5, <2>6, <2>7, <2>8
<1>12. WriteList'
  BY <1>7, <1>8, <1>9, <1>10, <1>11 DEF WriteList
<1>13. QED
  BY <1>1, <1>2, <1>5, <1>12 DEF WriteHalf, GatherLoop

LEMMA DropPartStep ==
  ASSUME WriteHalf, call \in Calls, DropPart
  PROVE  WriteHalf' /\ call' \in Calls
<1> DEFINE w == [wb[1] EXCEPT !.offset = wb[1].offset + call.size]
<1>1. /\ Dropping /\ wb # <<>> /\ Left > call.size /\ call' = Idle
      /\ wb' = [wb EXCEPT ![1].offset = @ + call.size]
      /\ UNCHANGED <<queued, sent, result>>
  BY DEF DropPart, streams
<1>2. /\ call.size \in Nat /\ WriteBuffer(wb[1]) /\ Len(wb) \in Nat \ {0}
      /\ Left = End(Last(wb[1])) - (wb[1].vec[1].first + wb[1].offset)
      /\ wb[1].vec[1].first \in Nat /\ wb[1].offset \in Nat /\ End(Last(wb[1])) \in Nat
      /\ wb[1].vec[1].first + wb[1].offset + call.size = sent + 1
      /\ sent \in Nat /\ queued \in Nat /\ sent <= queued
  <2>1. Dropping /\ wb # <<>>
    BY <1>1
  <2>2. QED
    BY <2>1, DropIs
<1>3. wb \in Seq([vec : Seq(Runs), offset : Nat]) /\ 1 \in 1 .. Len(wb)
  BY <1>2, ListIs
<1>4. wb[1] \in [vec : Seq(Runs), offset : Nat]
  <2> DEFINE S == [vec : Seq(Runs), offset : Nat]
  <2>1. wb \in Seq(S) /\ 1 \in 1 .. Len(wb)
    BY <1>3
  <2> HIDE DEF S
  <2>2. wb[1] \in S
    BY <2>1
  <2>3. QED
    BY <2>2 DEF S
<1>5. /\ w \in [vec : Seq(Runs), offset : Nat] /\ w.vec = wb[1].vec
      /\ w.offset = wb[1].offset + call.size
  <2> DEFINE o == wb[1].offset + call.size
  <2>1. o \in Nat
    <3>1. wb[1].offset \in Nat /\ call.size \in Nat
      BY <1>2
    <3>2. QED
      BY <3>1
  <2>2. w = [wb[1] EXCEPT !.offset = o]
    OBVIOUS
  <2> HIDE DEF o, w
  <2>3. /\ w \in [vec : Seq(Runs), offset : Nat] /\ w.vec = wb[1].vec /\ w.offset = o
    BY <1>4, <2>1, <2>2
  <2>4. QED
    BY <2>3 DEF o
<1>6. wb' = [wb EXCEPT ![1] = w]
  BY <1>1
<1> HIDE DEF w
<1>7. /\ wb' \in Seq([vec : Seq(Runs), offset : Nat]) /\ Len(wb') = Len(wb)
      /\ wb'[1] = w /\ \A i \in 2 .. Len(wb) : wb'[i] = wb[i]
  BY <1>2, <1>3, <1>5, <1>6
<1>8. Last(w) = Last(wb[1]) /\ SizeOf(w) = SizeOf(wb[1])
  BY <1>5 DEF Last, SizeOf
<1>9. WriteBuffer(w)
  <2>1. w.offset \in Nat /\ w.offset < SizeOf(w)
    <3> DEFINE f == wb[1].vec[1].first
               o == wb[1].offset
               e == End(Last(wb[1]))
               s == call.size
    <3>1. /\ f \in Nat /\ o \in Nat /\ e \in Nat /\ s \in Nat /\ e - (f + o) > s
          /\ SizeOf(w) = e - f /\ w.offset = o + s
      BY <1>1, <1>2, <1>5, <1>8 DEF SizeOf
    <3> HIDE DEF f, o, e, s
    <3>2. QED
      BY <3>1
  <2>2. QED
    BY <1>2, <1>5, <1>8, <2>1 DEF WriteBuffer
<1>10. ~Dropping' /\ ~Gathering' /\ call' \in Calls /\ ToDrop' = 0
  BY <1>1 DEF Dropping, Gathering, Idle, Calls, ToDrop
<1>11. ASSUME NEW i \in 1 .. Len(wb') PROVE Last(wb'[i]) = Last(wb[i])
  <2>1. i = 1 \/ i \in 2 .. Len(wb)
    BY <1>2, <1>7
  <2>2. i = 1 => wb'[i] = w
    BY <1>7
  <2>3. i \in 2 .. Len(wb) => wb'[i] = wb[i]
    BY <1>7
  <2>4. QED
    BY <1>8, <2>1, <2>2, <2>3
<1>12. \A i \in 1 .. Len(wb') : WriteBuffer(wb'[i]) /\ End(Last(wb'[i])) <= queued' + 1
  <2>1. TAKE i \in 1 .. Len(wb')
  <2>2. i \in 1 .. Len(wb)
    BY <1>7
  <2>3. End(Last(wb'[i])) <= queued' + 1
    <3>1. End(Last(wb[i])) <= queued + 1
      BY <2>2, ListIs
    <3>2. QED
      BY <1>1, <1>11, <3>1
  <2>4. WriteBuffer(wb'[i])
    <3>1. WriteBuffer(wb[i])
      BY <2>2, ListIs
    <3>2. i = 1 \/ i \in 2 .. Len(wb)
      BY <1>2, <2>2
    <3>3. QED
      BY <1>7, <1>9, <3>1, <3>2
  <2>5. QED
    BY <2>3, <2>4
<1>13. \A i \in 2 .. Len(wb') :
         wb'[i].offset = 0 /\ wb'[i].vec[1].first = End(Last(wb'[i - 1]))
  <2>1. TAKE i \in 2 .. Len(wb')
  <2>2. i \in 2 .. Len(wb) /\ i - 1 \in 1 .. Len(wb')
    BY <1>2, <1>7
  <2>3. wb[i].offset = 0 /\ wb[i].vec[1].first = End(Last(wb[i - 1]))
    BY <2>2, ListIs
  <2>4. wb'[i] = wb[i] /\ Last(wb'[i - 1]) = Last(wb[i - 1])
    BY <1>7, <1>11, <2>2
  <2>5. QED
    BY <2>3, <2>4
<1>14. /\ wb' # <<>>
       /\ wb'[1].vec[1].first + wb'[1].offset + ToDrop' = sent' + 1
       /\ End(Last(wb'[Len(wb')])) = queued' + 1
  <2>1. wb' # <<>> /\ Len(wb') \in 1 .. Len(wb')
    BY <1>2, <1>7
  <2>2. End(Last(wb'[Len(wb')])) = queued' + 1
    <3>1. End(Last(wb[Len(wb)])) = queued + 1
      BY <1>1, ListIs
    <3>2. Last(wb'[Len(wb')]) = Last(wb[Len(wb)])
      BY <1>7, <1>11, <2>1
    <3>3. QED
      BY <1>1, <3>1, <3>2
  <2>3. wb'[1].vec[1].first + wb'[1].offset + ToDrop' = sent' + 1
    <3> DEFINE f == wb[1].vec[1].first
               o == wb[1].offset
               s == call.size
    <3>1. /\ wb'[1].vec[1].first = f /\ wb'[1].offset = o + s /\ ToDrop' = 0
          /\ sent' = sent
      BY <1>1, <1>5, <1>7, <1>10
    <3>2. f \in Nat /\ o \in Nat /\ s \in Nat /\ f + o + s = sent + 1
      BY <1>2
    <3> HIDE DEF f, o, s
    <3>3. QED
      BY <3>1, <3>2
  <2>4. QED
    BY <2>1, <2>2, <2>3
<1>15. WriteList'
  BY <1>7, <1>12, <1>13, <1>14 DEF WriteList
<1>16. result'.op # "gather"
  BY <1>1 DEF WriteHalf, Dropping, Idle
<1>17. QED
  BY <1>1, <1>2, <1>10, <1>15, <1>16 DEF WriteHalf, GatherLoop

LEMMA DropReturnStep ==
  ASSUME WriteHalf, call \in Calls, DropReturn
  PROVE  WriteHalf' /\ call' \in Calls
<1>1. /\ Dropping /\ (wb = <<>> \/ call.size <= 0) /\ call' = Idle
      /\ UNCHANGED <<queued, sent, wb, result>>
  BY DEF DropReturn, streams
<1>2. ToDrop = call.size /\ call.size \in Nat
  BY <1>1, CallKinds DEF ToDrop
<1>3. ToDrop = 0
  BY <1>1, <1>2, ListIs
<1>4. ~Dropping' /\ ~Gathering' /\ call' \in Calls /\ ToDrop' = 0
  BY <1>1 DEF Dropping, Gathering, Idle, Calls, ToDrop
<1>5. WriteList'
  BY <1>1, <1>3, <1>4 DEF WriteHalf, WriteList
<1>6. result'.op # "gather"
  BY <1>1 DEF WriteHalf, Dropping, Idle
<1>7. QED
  BY <1>1, <1>4, <1>5, <1>6 DEF WriteHalf, GatherLoop

-----------------------------------------------------------------------------
(* The invariant: every step is about one of the two lists.                *)

ReadStep ==
  \/ \E n \in 1 .. MaxRun : Receive(n) \/ Read(n)
  \/ \E at \in 0 .. MaxRun, n \in 1 .. MaxRun : Peek(at, n)
  \/ ReadDrop \/ ReadCopy \/ ReadReturn \/ PeekBuffer \/ PeekReturn

WriteStep ==
  \/ \E n \in 1 .. MaxVec : \E c \in Cuts(queued + 1, n) :
       \E k \in 0 .. MaxStream : Queue(Vector(queued + 1, c), k)
  \/ \E n \in 1 .. MaxRun : Took(n)
  \/ Gather \/ GatherVec \/ GatherNext \/ GatherReturn
  \/ DropBuffer \/ DropPart \/ DropReturn

LEMMA StepKinds == Next <=> ReadStep \/ WriteStep \/ Free
  BY DEF Next, Loop, ReadStep, WriteStep

LEMMA ReadHalfStep ==
  ASSUME ReadHalf, call \in Calls, ReadStep
  PROVE  ReadHalf' /\ call' \in Calls
<1>1. CASE \E n \in 1 .. MaxRun : Receive(n)
  <2>1. PICK n \in 1 .. MaxRun : Receive(n)
    BY <1>1
  <2>2. n \in Nat \ {0} /\ call' = call
    BY <2>1, IoBufAssumption DEF Receive
  <2>3. QED
    BY <2>1, <2>2, ReceiveStep
<1>2. CASE \E n \in 1 .. MaxRun : Read(n)
  BY <1>2, ReadEnds
<1>3. CASE \E at \in 0 .. MaxRun, n \in 1 .. MaxRun : Peek(at, n)
  <2>1. PICK at \in 0 .. MaxRun, n \in 1 .. MaxRun : Peek(at, n)
    BY <1>3
  <2>2. at \in Nat /\ n \in Nat \ {0}
    BY IoBufAssumption
  <2>3. QED
    BY <2>1, <2>2, PeekBegins
<1>4. CASE ReadDrop
  BY <1>4, ReadDropStep
<1>5. CASE ReadCopy
  BY <1>5, ReadCopyStep
<1>6. CASE ReadReturn
  BY <1>6, ReadEnds
<1>7. CASE PeekBuffer
  BY <1>7, PeekBufferStep
<1>8. CASE PeekReturn
  BY <1>8, PeekReturnStep
<1>9. QED
  BY <1>1, <1>2, <1>3, <1>4, <1>5, <1>6, <1>7, <1>8 DEF ReadStep

LEMMA WriteHalfStep ==
  ASSUME WriteHalf, call \in Calls, WriteStep
  PROVE  WriteHalf' /\ call' \in Calls
<1>1. CASE \E n \in 1 .. MaxVec : \E c \in Cuts(queued + 1, n) :
             \E k \in 0 .. MaxStream : Queue(Vector(queued + 1, c), k)
  <2>1. PICK n \in 1 .. MaxVec : \E c \in Cuts(queued + 1, n) :
               \E k \in 0 .. MaxStream : Queue(Vector(queued + 1, c), k)
    BY <1>1
  <2>2. PICK c \in Cuts(queued + 1, n) :
               \E k \in 0 .. MaxStream : Queue(Vector(queued + 1, c), k)
    BY <2>1
  <2>3. PICK k \in 0 .. MaxStream : Queue(Vector(queued + 1, c), k)
    BY <2>2
  <2>4. n \in Nat \ {0} /\ k \in Nat
    BY IoBufAssumption
  <2>5. call' = call
    BY <2>3 DEF Queue
  <2>6. QED
    BY <2>3, <2>4, <2>5, QueueStep
<1>2. CASE \E n \in 1 .. MaxRun : Took(n)
  <2>1. PICK n \in 1 .. MaxRun : Took(n)
    BY <1>2
  <2>2. n \in Nat \ {0}
    BY IoBufAssumption
  <2>3. QED
    BY <2>1, <2>2, TookStep
<1>3. CASE Gather
  BY <1>3, GatherBegins
<1>4. CASE GatherVec
  BY <1>4, GatherVecStep
<1>5. CASE GatherNext
  BY <1>5, GatherNextStep
<1>6. CASE GatherReturn
  BY <1>6, GatherReturnStep
<1>7. CASE DropBuffer
  BY <1>7, DropBufferStep
<1>8. CASE DropPart
  BY <1>8, DropPartStep
<1>9. CASE DropReturn
  BY <1>9, DropReturnStep
<1>10. QED
  BY <1>1, <1>2, <1>3, <1>4, <1>5, <1>6, <1>7, <1>8, <1>9 DEF WriteStep

\* A step about the read list leaves the write list, and the other way round.
LEMMA ReadStepLeaves ==
  ASSUME WriteHalf, call \in Calls, ReadStep
  PROVE  WriteHalf'
<1>1. UNCHANGED <<queued, sent, wb>> /\ (call = Idle \/ Reading \/ Peeking)
  BY DEF ReadStep, Receive, Read, Peek, ReadDrop, ReadCopy, ReadReturn, PeekBuffer,
         PeekReturn, streams
<1>2. /\ ~Dropping /\ ~Gathering
      /\ call # Idle => result.op # "gather"
  BY <1>1 DEF Dropping, Gathering, Reading, Peeking, Idle, WriteHalf
<1>3. ~Dropping' /\ ~Gathering' /\ result'.op # "gather"
  <2> USE DEF Dropping, Gathering, Idle, Nothing, Returned
  <2>1. CASE \E n \in 1 .. MaxRun : Receive(n) \/ Read(n)
    BY <1>2, <2>1 DEF Receive, Read
  <2>2. CASE \E at \in 0 .. MaxRun, n \in 1 .. MaxRun : Peek(at, n)
    BY <2>2 DEF Peek
  <2>3. CASE ReadReturn \/ PeekReturn
    BY <2>3 DEF ReadReturn, PeekReturn
  <2>4. CASE ReadDrop
    BY <1>2, <2>4 DEF ReadDrop, Reading
  <2>5. CASE ReadCopy
    <3>1. Reading' /\ Reading /\ result' = result
      <4>1. Reading /\ result' = result
            /\ call' = [call EXCEPT !.out = @ \o Bytes(Head(rb), roff, Share)]
        BY <2>5 DEF ReadCopy, Share
      <4>2. call \in [op : {"read"}, len : Nat, out : Seq(Nat)]
        BY <4>1, CallKinds
      <4>3. QED
        BY <4>1, <4>2 DEF Reading
    <3>2. QED
      BY <1>2, <3>1 DEF Reading
  <2>6. CASE PeekBuffer
    <3>1. Peeking' /\ Peeking /\ result' = result
      <4>1. Peeking /\ result' = result
        BY <2>6 DEF PeekBuffer
      <4>2. call \in [op : {"peek"}, at : Nat, size : Nat, b : Nat, n1 : Nat, n3 : Nat,
                      out : Seq(Nat)]
        BY <4>1, CallKinds
      <4>3. call'.op = call.op
        BY <2>6, <4>2 DEF PeekBuffer
      <4>4. QED
        BY <4>1, <4>3 DEF Peeking
    <3>2. QED
      BY <1>2, <3>1 DEF Peeking
  <2>7. QED
    BY <2>1, <2>2, <2>3, <2>4, <2>5, <2>6 DEF ReadStep
<1>4. QED
  BY <1>1, <1>2, <1>3, WriteFrame

LEMMA WriteStepLeaves ==
  ASSUME ReadHalf, call \in Calls, WriteStep
  PROVE  ReadHalf'
<1>1. UNCHANGED <<received, taken, rbl>> /\ (call = Idle \/ Gathering \/ Dropping)
  BY DEF WriteStep, Queue, Took, Gather, GatherVec, GatherNext, GatherReturn,
         DropBuffer, DropPart, DropReturn, streams, rbl
<1>2. ~Reading
  BY <1>1 DEF Dropping, Gathering, Reading, Idle
<1>3. ~Reading' /\ ~Peeking'
  <2> USE DEF Reading, Peeking, Idle
  <2>1. CASE \E n \in 1 .. MaxVec : \E c \in Cuts(queued + 1, n) :
               \E k \in 0 .. MaxStream : Queue(Vector(queued + 1, c), k)
    BY <2>1 DEF Queue
  <2>2. CASE \E n \in 1 .. MaxRun : Took(n)
    BY <2>2 DEF Took
  <2>3. CASE Gather \/ GatherReturn \/ DropPart \/ DropReturn
    BY <2>3 DEF Gather, GatherReturn, DropPart, DropReturn
  <2>4. CASE GatherVec \/ GatherNext
    <3>1. call \in [op : {"gather"}, b : Nat, i : Nat, off : Nat, cur : Nat, out : Seq(Nat)]
            /\ Gathering
      BY <2>4, CallKinds DEF GatherVec, GatherNext
    <3>2. call'.op = call.op
      BY <2>4, <3>1 DEF GatherVec, GatherNext
    <3>3. QED
      BY <3>1, <3>2 DEF Gathering
  <2>5. CASE DropBuffer
    <3>1. call \in [op : {"drop"}, size : Nat] /\ Dropping
      BY <2>5, CallKinds DEF DropBuffer
    <3>2. call'.op = call.op
      BY <2>5, <3>1 DEF DropBuffer
    <3>3. QED
      BY <3>1, <3>2 DEF Dropping
  <2>6. QED
    BY <2>1, <2>2, <2>3, <2>4, <2>5 DEF WriteStep
<1>4. QED
  BY <1>1, <1>2, <1>3, ReadFrame

LEMMA BufferInit == Init => BufferInv
<1>1. SUFFICES ASSUME Init PROVE BufferInv
  OBVIOUS
<1>2. /\ received = 0 /\ taken = 0 /\ queued = 0 /\ sent = 0
      /\ result.op = "none" /\ call = Idle /\ rb = <<>> /\ roff = 0 /\ rsize = 0
      /\ wb = <<>>
  <2>1. Nothing.op = "none"
    BY DEF Nothing, Returned
  <2>2. QED
    BY <1>1, <2>1 DEF Init
<1>3. ~Reading /\ ~Peeking /\ ~Gathering /\ ~Dropping /\ call \in Calls
  BY <1>2 DEF Reading, Peeking, Gathering, Dropping, Idle, Calls
<1>4. ReadList
  BY <1>2 DEF ReadList, Adjacent
<1>5. WriteList
  BY <1>2, <1>3 DEF WriteList, ToDrop
<1>6. QED
  BY <1>2, <1>3, <1>4, <1>5 DEF BufferInv, ReadLoop, PeekLoop, GatherLoop

LEMMA BufferNext == BufferInv /\ [Next]_vars => BufferInv'
<1>1. SUFFICES ASSUME BufferInv, [Next]_vars PROVE BufferInv'
  OBVIOUS
<1>2. ReadHalf /\ WriteHalf /\ call \in Calls
  BY <1>1, Halves
<1>h. ReadHalf' /\ WriteHalf' /\ call' \in Calls => BufferInv'
  BY DEF BufferInv, ReadHalf, WriteHalf
<1>3. CASE ReadStep
  BY <1>2, <1>3, <1>h, ReadHalfStep, ReadStepLeaves
<1>4. CASE WriteStep
  BY <1>2, <1>4, <1>h, WriteHalfStep, WriteStepLeaves
<1>5. CASE Free
  BY <1>1, <1>5, FreeStep
<1>6. CASE UNCHANGED vars
  <2>1. UNCHANGED <<received, taken, queued, sent, result, rb, roff, rsize, wb, call>>
    BY <1>6 DEF vars, streams, rbl
  <2>2. ReadHalf'
    BY <1>2, <2>1 DEF ReadHalf, ReadList, ReadLoop, PeekLoop, Reading, Peeking, Begin, Until
  <2>3. WriteHalf'
    BY <1>2, <2>1 DEF WriteHalf, WriteList, ToDrop, Dropping, GatherLoop, Gathering, Begins
  <2>4. QED
    BY <1>2, <1>h, <2>1, <2>2, <2>3
<1>7. QED
  BY <1>1, <1>3, <1>4, <1>5, <1>6, StepKinds

\* At every turn of every loop of jetnet_iobuf.c the lists hold exactly the bytes
\* that were not taken, and a loop has copied the next bytes of the stream.
THEOREM BuffersExact == Spec => []BufferInv
<1>1. QED
  BY BufferInit, BufferNext, PTL DEF Spec

-----------------------------------------------------------------------------
(* The lists are two streams of bytes.                                     *)

\* What was asked for, while a call is in its loop.
AskedFor ==
  /\ Reading => call.len \in 1 .. MaxRun
  /\ Peeking => call.at \in 0 .. MaxRun /\ call.size \in 1 .. MaxRun

\* What the protocol has been given, as the streams see it.
Given == IF Reading THEN taken - Len(call.out) ELSE taken

LEMMA AskedNext ==
  ASSUME call \in Calls, AskedFor, [Next]_vars
  PROVE  AskedFor'
<1> USE DEF AskedFor, Reading, Peeking
<1>1. CASE \E n \in 1 .. MaxRun : Receive(n) \/ Read(n)
  BY <1>1 DEF Receive, Read
<1>2. CASE \E at \in 0 .. MaxRun, n \in 1 .. MaxRun : Peek(at, n)
  BY <1>2 DEF Peek, Idle
<1>3. CASE ReadReturn \/ PeekReturn \/ GatherReturn \/ DropPart \/ DropReturn \/ Gather
  BY <1>3 DEF ReadReturn, PeekReturn, GatherReturn, DropPart, DropReturn, Gather, Idle
<1>4. CASE \E n \in 1 .. MaxRun : Took(n)
  BY <1>4 DEF Took
<1>5. CASE \/ ReadDrop \/ Free \/ UNCHANGED vars
           \/ \E n \in 1 .. MaxVec : \E c \in Cuts(queued + 1, n) :
                \E k \in 0 .. MaxStream : Queue(Vector(queued + 1, c), k)
  <2>1. call' = call
    BY <1>5 DEF ReadDrop, Free, Queue, vars
  <2>2. QED
    BY <2>1
<1>6. CASE ReadCopy
  <2>1. call \in [op : {"read"}, len : Nat, out : Seq(Nat)] /\ call.op = "read"
    BY <1>6, CallKinds DEF ReadCopy
  <2>2. call'.op = "read" /\ call'.len = call.len
    BY <1>6, <2>1 DEF ReadCopy
  <2>3. QED
    BY <2>1, <2>2
<1>7. CASE PeekBuffer
  <2>1. /\ call \in [op : {"peek"}, at : Nat, size : Nat, b : Nat, n1 : Nat, n3 : Nat,
                     out : Seq(Nat)]
        /\ call.op = "peek"
    BY <1>7, CallKinds DEF PeekBuffer
  <2>2. call'.op = "peek" /\ call'.at = call.at /\ call'.size = call.size
    BY <1>7, <2>1 DEF PeekBuffer
  <2>3. QED
    BY <2>1, <2>2
<1>8. CASE GatherVec \/ GatherNext
  <2>1. /\ call \in [op : {"gather"}, b : Nat, i : Nat, off : Nat, cur : Nat, out : Seq(Nat)]
        /\ call.op = "gather"
    BY <1>8, CallKinds DEF GatherVec, GatherNext, Gathering
  <2>2. call'.op = "gather"
    BY <1>8, <2>1 DEF GatherVec, GatherNext
  <2>3. QED
    BY <2>2
<1>9. CASE DropBuffer
  <2>1. call \in [op : {"drop"}, size : Nat] /\ call.op = "drop"
    BY <1>9, CallKinds DEF DropBuffer, Dropping
  <2>2. call'.op = "drop"
    BY <1>9, <2>1 DEF DropBuffer
  <2>3. QED
    BY <2>2
<1>10. QED
  BY <1>1, <1>2, <1>3, <1>4, <1>5, <1>6, <1>7, <1>8, <1>9 DEF Next, Loop

\* A call that begins uses up the result of the last one; a turn of a loop is
\* nothing that the streams see.
LEMMA CallBegins ==
  ASSUME UNCHANGED <<received, queued, sent>>, Given' = Given, result' = Nothing
  PROVE  Stream!Next
  BY DEF Given, Stream!Next, Nothing, Returned, Stream!Nothing, Stream!Returned

LEMMA LoopTurns ==
  ASSUME UNCHANGED <<received, queued, sent>>, Given' = Given, result' = result
  PROVE  UNCHANGED Stream!vars
  BY DEF Given, Stream!vars

\* A sequence that is the bytes behind byte b.
LEMMA AfterIs ==
  ASSUME NEW s \in Seq(Nat), NEW b \in Int, Is(s, b)
  PROVE  s = Stream!After(b, Len(s))
<1> DEFINE t == [i \in 1 .. Len(s) |-> b + i]
<1>1. \A i \in 1 .. Len(s) : t[i] = s[i]
  BY DEF Is
<1>2. s = [i \in 1 .. Len(s) |-> s[i]]
  OBVIOUS
<1>3. s = t
  BY <1>1, <1>2
<1>4. QED
  BY <1>3 DEF Stream!After

\* A read returns all that is there, as far as it was asked for.
LEMMA ReadReturnMaps ==
  ASSUME ReadHalf, call \in Calls, AskedFor, ReadReturn
  PROVE  Stream!Next
<1> DEFINE l == Len(call.out)
           b == taken - l
<1>1. /\ Reading /\ UNCHANGED <<received, taken, queued, sent>> /\ call' = Idle
      /\ result' = [op |-> "read", asked |-> <<call.len>>, bytes |-> call.out]
      /\ rb # <<>> => l >= call.len
  BY DEF ReadReturn, streams, Returned
<1>2. call.out \in Seq(Nat) /\ l \in Nat /\ call.len \in Nat /\ call.len \in 1 .. MaxRun
  BY <1>1, CallKinds DEF AskedFor
<1>3. /\ Is(call.out, b) /\ l <= taken /\ l <= call.len
      /\ received \in Nat /\ taken \in 0 .. received
      /\ rb = <<>> => taken = received
  BY <1>1 DEF ReadHalf, ReadLoop, ReadList
<1>4. b \in Int
  BY <1>2, <1>3
<1>5. call.out = Stream!After(b, l)
  BY <1>2, <1>3, <1>4, AfterIs
<1>6. Stream!Least(call.len, received - b) = l
  <2> DEFINE n == call.len
             d == received - b
  <2>1. n \in Nat /\ l \in Nat /\ l <= n /\ (rb # <<>> => l >= n)
    BY <1>1, <1>2, <1>3
  <2>2. d \in Int /\ d >= l /\ (rb = <<>> => d = l)
    <3> HIDE DEF l
    <3>1. QED
      BY <1>2, <1>3
  <2> HIDE DEF n, l, d
  <2>3. Stream!Least(n, d) = IF n < d THEN n ELSE d
    BY DEF Stream!Least
  <2>4. (IF n < d THEN n ELSE d) = l
    BY <2>1, <2>2
  <2>5. QED
    BY <2>3, <2>4 DEF n, d
<1>7. Given = b /\ Given' = b + l
  <2>1. Given' = taken
    BY <1>1 DEF Given, Reading, Idle
  <2>2. b + l = taken
    BY <1>2, <1>3
  <2>3. QED
    BY <1>1, <2>1, <2>2 DEF Given
<1> HIDE DEF b, l
<1>8. result' = Stream!Returned("read", <<call.len>>, Stream!After(b, l))
  BY <1>1, <1>5 DEF Stream!Returned
<1>9. Stream!Read
  BY <1>1, <1>2, <1>6, <1>7, <1>8 DEF Given, Stream!Read
<1>10. QED
  BY <1>9 DEF Stream!Next

\* A peek returns what it was asked for: it does not run out of buffers.
LEMMA PeekReturnMaps ==
  ASSUME ReadHalf, call \in Calls, AskedFor, PeekReturn
  PROVE  Stream!Next
<1> DEFINE l == Len(call.out)
           at == call.at
           size == call.size
           b == taken + at
<1>1. /\ Peeking /\ UNCHANGED <<received, taken, queued, sent>> /\ call' = Idle
      /\ result' = [op |-> "peek", asked |-> <<at, size>>, bytes |-> call.out]
      /\ call.b > Len(rb) \/ call.n3 > Until
  BY DEF PeekReturn, streams, Returned
<1>2. /\ call.out \in Seq(Nat) /\ l \in Nat /\ at \in Nat /\ size \in Nat
      /\ call.n1 \in Nat /\ call.n3 \in Nat /\ call.b \in Nat
      /\ at \in 0 .. MaxRun /\ size \in 1 .. MaxRun
  BY <1>1, CallKinds DEF AskedFor
<1>3. /\ at + size <= received - taken /\ size > 0
      /\ call.b \in 1 .. Len(rb) + 1 /\ call.n1 = Begin(call.b) - Begin(1)
      /\ Is(call.out, b) /\ call.n3 = at + roff + l /\ l <= size
      /\ call.n3 <= Until => call.n1 <= call.n3
  BY <1>1 DEF ReadHalf, PeekLoop
<1>4. received \in Nat /\ taken \in Nat /\ roff \in Nat /\ Len(rb) \in Nat
  BY DEF ReadHalf, ReadList
<1>5. Until = at + roff + size - 1
  BY DEF Until
<1>6. l = size
  <2>1. CASE call.n3 > Until
    <3> DEFINE n3 == call.n3
    <3>1. n3 = at + roff + l /\ n3 > at + roff + size - 1 /\ l <= size
      BY <1>3, <1>5, <2>1
    <3>2. l \in Nat /\ at \in Nat /\ size \in Nat /\ n3 \in Nat
      BY <1>2
    <3> HIDE DEF l, at, size, n3
    <3>3. QED
      BY <1>4, <3>1, <3>2
  <2>2. CASE ~(call.n3 > Until)
    <3>1. call.b = Len(rb) + 1
      <4>1. call.b > Len(rb)
        BY <1>1, <2>2
      <4>2. call.b \in 1 .. Len(rb) + 1 /\ Len(rb) \in Nat
        BY <1>3, <1>4
      <4>3. QED
        BY <4>1, <4>2
    <3>2. rb # <<>>
      <4>1. rb = <<>> => taken = received
        BY DEF ReadHalf, ReadList
      <4> HIDE DEF at, size
      <4>2. QED
        BY <1>2, <1>3, <1>4, <4>1
    <3>3. 1 \in 1 .. Len(rb) /\ rb[1].first + roff = taken + 1
      BY <1>4, <3>2, HeadRun
    <3>4. Begin(1) = rb[1].first /\ rb[1].first \in Nat
      BY <3>2, <3>3, HeadRun DEF Begin
    <3>5. Begin(call.b) = received + 1
      BY <1>4, <3>1 DEF Begin
    <3> DEFINE f == rb[1].first
               n1 == call.n1
               n3 == call.n3
    <3>6. /\ f + roff = taken + 1 /\ f \in Nat /\ n1 = (received + 1) - f
          /\ n1 <= n3 /\ n3 <= at + roff + size - 1
      <4>1. call.n3 \in Int /\ Until \in Int
        BY <1>2, <1>4, <1>5
      <4>2. call.n3 <= Until
        BY <2>2, <4>1
      <4>3. QED
        BY <1>3, <1>5, <3>3, <3>4, <3>5, <4>2
    <3>7. /\ at + size <= received - taken /\ n1 \in Nat /\ n3 \in Nat
          /\ at \in Nat /\ size \in Nat
      BY <1>2, <1>3
    <3> HIDE DEF l, at, size, f, n1, n3
    <3>8. QED
      BY <1>4, <3>6, <3>7
  <2>3. QED
    BY <2>1, <2>2
<1>7. call.out = Stream!After(b, l)
  <2>1. b \in Int
    <3>1. taken \in Int /\ at \in Int
      BY <1>2, <1>4
    <3> HIDE DEF at
    <3>2. QED
      BY <3>1
  <2>2. call.out \in Seq(Nat) /\ Is(call.out, b)
    BY <1>2, <1>3
  <2> HIDE DEF b
  <2>3. QED
    BY <2>1, <2>2, AfterIs
<1>8. Given = taken /\ Given' = taken
  BY <1>1 DEF Given, Reading, Peeking, Idle
<1>9. call.out = Stream!After(taken + at, size)
  BY <1>6, <1>7
<1> HIDE DEF b, l, at, size
<1>10. result' = Stream!Returned("peek", <<at, size>>,
                   IF at + size <= received - Given THEN Stream!After(Given + at, size)
                   ELSE <<>>)
  BY <1>1, <1>3, <1>8, <1>9 DEF Stream!Returned
<1>11. Stream!Peek
  BY <1>1, <1>2, <1>8, <1>10 DEF Given, Stream!Peek
<1>12. QED
  BY <1>11 DEF Stream!Next

LEMMA QueueMaps ==
  ASSUME WriteHalf, NEW n \in Nat \ {0}, NEW c \in Cuts(queued + 1, n), NEW k \in Nat,
         Queue(Vector(queued + 1, c), k)
  PROVE  Stream!Next
<1> DEFINE w == [vec |-> Vector(queued + 1, c), offset |-> k]
           z == SizeOf(w)
<1>1. /\ queued' = queued + z /\ sent' = sent + k /\ k < z
      /\ k > 0 => wb = <<>>
      /\ result' = Nothing /\ call = Idle /\ call' = call
      /\ received' = received /\ taken' = taken
  BY DEF Queue
<1>2. queued \in Nat /\ sent \in Nat /\ (wb = <<>> => queued = sent) /\ queued + 1 \in Nat
  BY ListIs
<1>3. z \in Int
  <2>1. /\ Vector(queued + 1, c) \in Seq(Runs) /\ Len(Vector(queued + 1, c)) = n
        /\ Vector(queued + 1, c)[1].first = queued + 1
    BY <1>2, VectorIs
  <2> DEFINE v == Vector(queued + 1, c)
  <2>2. v \in Seq(Runs) /\ Len(v) = n /\ v[1].first \in Nat
    BY <1>2, <2>1
  <2>3. w.vec = v
    OBVIOUS
  <2> HIDE DEF v, w
  <2>4. v[n] \in Runs
    BY <2>2
  <2>5. End(v[n]) \in Nat
    BY <2>4, RunFields
  <2>6. SizeOf(w) = End(v[n]) - v[1].first
    BY <2>2, <2>3 DEF SizeOf, Last
  <2>7. QED
    BY <2>2, <2>5, <2>6
<1> HIDE DEF w, z
<1>4. queued' \in Nat /\ sent' \in sent .. sent + (queued' - queued) - 1
  BY <1>1, <1>2, <1>3
<1>5. sent' # sent => queued = sent
  BY <1>1, <1>2
<1>6. result' = Stream!Nothing
  BY <1>1 DEF Nothing, Returned, Stream!Nothing, Stream!Returned
<1>7. Stream!Queue
  BY <1>1, <1>4, <1>5, <1>6 DEF Stream!Queue, Reading
<1>8. QED
  BY <1>7 DEF Stream!Next

\* Io vectors are gathered unless nothing waits.
LEMMA GatherReturnMaps ==
  ASSUME WriteHalf, call \in Calls, GatherReturn
  PROVE  Stream!Next
<1> DEFINE l == Len(call.out)
<1>1. /\ Gathering /\ ~More /\ UNCHANGED <<received, taken, queued, sent>> /\ call' = Idle
      /\ result' = [op |-> "gather", asked |-> <<>>, bytes |-> call.out]
  BY DEF GatherReturn, streams, Returned
<1>2. /\ call.out \in Seq(Nat) /\ l \in Nat /\ Is(call.out, sent)
      /\ sent + l <= queued /\ call.b \in 1 .. Len(wb) + 1 /\ call.off \in Nat
      /\ call.cur \in Nat
      /\ Begins(call.b, call.i) + call.off = sent + l + 1
      /\ call.cur > 0 => call.out # <<>>
  BY <1>1, GatherIs
<1>3. sent \in Nat /\ queued \in Nat /\ Len(wb) \in Nat
  BY ListIs
<1>4. call.out = Stream!After(sent, l)
  BY <1>2, <1>3, AfterIs
<1>5. l = 0 => queued = sent
  <2>1. SUFFICES ASSUME l = 0 PROVE queued = sent
    OBVIOUS
  <2>2. call.out = <<>>
    BY <1>2, <2>1
  <2>3. ~(call.cur > 0) /\ call.cur < Batch
    <3>1. Batch \in Nat \ {0}
      BY IoBufAssumption
    <3>2. QED
      BY <1>2, <2>2, <3>1
  <2>4. call.b > Len(wb)
    <3>1. ~(call.b <= Len(wb))
      BY <1>1, <2>3 DEF More
    <3>2. QED
      BY <1>2, <1>3, <3>1
  <2>5. Begins(call.b, call.i) = queued + 1
    BY <2>4 DEF Begins
  <2> DEFINE o == call.off
  <2>6. (queued + 1) + o = sent + l + 1 /\ o \in Nat /\ sent + l <= queued
    BY <1>2, <2>5
  <2> HIDE DEF o, l
  <2>7. QED
    BY <1>3, <2>1, <2>6
<1>6. l \in 0 .. queued - sent
  <2> HIDE DEF l
  <2>1. l \in Nat /\ sent + l <= queued
    BY <1>2
  <2>2. QED
    BY <1>3, <2>1
<1> HIDE DEF l
<1>7. result' = Stream!Returned("gather", <<>>, Stream!After(sent, l))
  BY <1>1, <1>4 DEF Stream!Returned
<1>8. ~Reading /\ ~Reading'
  BY <1>1 DEF Gathering, Reading, Idle
<1>9. Stream!Gather
  BY <1>1, <1>5, <1>6, <1>7, <1>8 DEF Stream!Gather
<1>10. QED
  BY <1>9 DEF Stream!Next

LEMMA ReadStepMaps ==
  ASSUME BufferInv, AskedFor, ReadStep
  PROVE  [Stream!Next]_(Stream!vars)
<1>1. ReadHalf /\ call \in Calls
  BY Halves
<1>2. CASE \E n \in 1 .. MaxRun : Receive(n)
  <2>1. Stream!Receive
    BY <1>2 DEF Receive, Stream!Receive, Reading, Nothing, Returned, Stream!Nothing,
                Stream!Returned
  <2>2. QED
    BY <2>1 DEF Stream!Next
<1>3. CASE \E n \in 1 .. MaxRun : Read(n)
  <2>1. PICK n \in 1 .. MaxRun : Read(n)
    BY <1>3
  <2>2. /\ UNCHANGED <<received, taken, queued, sent>> /\ result' = Nothing /\ call = Idle
        /\ call' = [op |-> "read", len |-> n, out |-> <<>>]
    BY <2>1 DEF Read, streams
  <2>3. Given' = Given
    <3>1. Given = taken
      BY <2>2 DEF Given, Reading, Idle
    <3>2. Given' = taken - 0
      BY <2>2 DEF Given, Reading
    <3>3. taken \in Nat
      BY <1>1 DEF ReadHalf
    <3>4. QED
      BY <3>1, <3>2, <3>3
  <2>4. QED
    BY <2>2, <2>3, CallBegins
<1>4. CASE \E at \in 0 .. MaxRun, n \in 1 .. MaxRun : Peek(at, n)
  <2>1. PICK at \in 0 .. MaxRun, n \in 1 .. MaxRun : Peek(at, n)
    BY <1>4
  <2>2. /\ UNCHANGED <<received, taken, queued, sent>> /\ call = Idle
        /\ ~Reading /\ ~Reading'
    BY <2>1 DEF Peek, streams, Reading, Idle
  <2>3. Given = taken /\ Given' = taken
    BY <2>2 DEF Given
  <2>4. CASE rsize < at + n
    <3>1. ~(at + n <= received - taken)
      <4>1. rsize = received - taken /\ rsize \in Int /\ at \in Int /\ n \in Int
        BY <1>1, IoBufAssumption DEF ReadHalf, ReadList
      <4>2. QED
        BY <2>4, <4>1
    <3>2. result' = Returned("peek", <<at, n>>, <<>>)
      BY <2>1, <2>4 DEF Peek
    <3>3. Stream!Peek
      BY <2>2, <3>1, <3>2 DEF Stream!Peek, Returned, Stream!Returned
    <3>4. QED
      BY <3>3 DEF Stream!Next
  <2>5. CASE ~(rsize < at + n)
    <3>1. result' = Nothing
      BY <2>1, <2>5 DEF Peek
    <3>2. QED
      BY <2>2, <2>3, <3>1, CallBegins
  <2>6. QED
    BY <2>4, <2>5
<1>5. CASE ReadDrop
  <2>1. UNCHANGED <<received, taken, queued, sent, result, call>>
    BY <1>5 DEF ReadDrop, streams
  <2>2. QED
    BY <2>1, LoopTurns DEF Given, Reading
<1>6. CASE ReadCopy
  <2>1. UNCHANGED <<received, queued, sent, result>> /\ Reading
    BY <1>6 DEF ReadCopy
  <2>2. Given' = Given
    BY <1>1, <1>6, <2>1, ReadCopyStep DEF Given
  <2>3. QED
    BY <2>1, <2>2, LoopTurns
<1>7. CASE ReadReturn
  BY <1>1, <1>7, ReadReturnMaps
<1>8. CASE PeekBuffer
  <2>1. UNCHANGED <<received, taken, queued, sent, result>> /\ Peeking
    BY <1>8 DEF PeekBuffer, streams
  <2>2. /\ call \in [op : {"peek"}, at : Nat, size : Nat, b : Nat, n1 : Nat, n3 : Nat,
                     out : Seq(Nat)]
        /\ call.op = "peek"
    BY <1>1, <2>1, CallKinds DEF Peeking
  <2>3. call'.op = "peek"
    BY <1>8, <2>2 DEF PeekBuffer
  <2>4. Given' = Given
    BY <2>1, <2>2, <2>3 DEF Given, Reading
  <2>5. QED
    BY <2>1, <2>4, LoopTurns
<1>9. CASE PeekReturn
  BY <1>1, <1>9, PeekReturnMaps
<1>10. QED
  BY <1>2, <1>3, <1>4, <1>5, <1>6, <1>7, <1>8, <1>9 DEF ReadStep

LEMMA WriteStepMaps ==
  ASSUME BufferInv, WriteStep
  PROVE  [Stream!Next]_(Stream!vars)
<1>1. WriteHalf /\ ReadHalf /\ call \in Calls
  BY Halves
<1>2. /\ UNCHANGED <<received, taken>> /\ ~Reading
      /\ call = Idle \/ Gathering \/ Dropping
  <2>1. UNCHANGED <<received, taken>> /\ (call = Idle \/ Gathering \/ Dropping)
    BY DEF WriteStep, Queue, Took, Gather, GatherVec, GatherNext, GatherReturn,
           DropBuffer, DropPart, DropReturn, streams
  <2>2. QED
    BY <2>1 DEF Dropping, Gathering, Reading, Idle
<1>3. ~Reading'
  <2> USE DEF Reading, Idle
  <2>1. CASE \E n \in 1 .. MaxVec : \E c \in Cuts(queued + 1, n) :
               \E k \in 0 .. MaxStream : Queue(Vector(queued + 1, c), k)
    BY <2>1 DEF Queue
  <2>2. CASE \E n \in 1 .. MaxRun : Took(n)
    BY <2>2 DEF Took
  <2>3. CASE Gather \/ GatherReturn \/ DropPart \/ DropReturn
    BY <2>3 DEF Gather, GatherReturn, DropPart, DropReturn
  <2>4. CASE GatherVec \/ GatherNext
    <3>1. call \in [op : {"gather"}, b : Nat, i : Nat, off : Nat, cur : Nat, out : Seq(Nat)]
            /\ Gathering
      BY <1>1, <2>4, CallKinds DEF GatherVec, GatherNext
    <3>2. call'.op = call.op
      BY <2>4, <3>1 DEF GatherVec, GatherNext
    <3>3. QED
      BY <3>1, <3>2 DEF Gathering
  <2>5. CASE DropBuffer
    <3>1. call \in [op : {"drop"}, size : Nat] /\ Dropping
      BY <1>1, <2>5, CallKinds DEF DropBuffer
    <3>2. call'.op = call.op
      BY <2>5, <3>1 DEF DropBuffer
    <3>3. QED
      BY <3>1, <3>2 DEF Dropping
  <2>6. QED
    BY <2>1, <2>2, <2>3, <2>4, <2>5 DEF WriteStep
<1>4. Given' = Given
  BY <1>2, <1>3 DEF Given
<1>5. CASE \E n \in 1 .. MaxVec : \E c \in Cuts(queued + 1, n) :
             \E k \in 0 .. MaxStream : Queue(Vector(queued + 1, c), k)
  <2>1. PICK n \in 1 .. MaxVec : \E c \in Cuts(queued + 1, n) :
               \E k \in 0 .. MaxStream : Queue(Vector(queued + 1, c), k)
    BY <1>5
  <2>2. PICK c \in Cuts(queued + 1, n) :
               \E k \in 0 .. MaxStream : Queue(Vector(queued + 1, c), k)
    BY <2>1
  <2>3. PICK k \in 0 .. MaxStream : Queue(Vector(queued + 1, c), k)
    BY <2>2
  <2>4. n \in Nat \ {0} /\ k \in Nat
    BY IoBufAssumption
  <2>5. QED
    BY <1>1, <2>3, <2>4, QueueMaps
<1>6. CASE \E n \in 1 .. MaxRun : Took(n)
  <2>1. PICK n \in 1 .. MaxRun : Took(n)
    BY <1>6
  <2>2. /\ result.op = "gather" /\ n <= Len(result.bytes) /\ sent' = sent + n
        /\ result' = Nothing /\ queued' = queued
    BY <2>1 DEF Took
  <2>3. result.bytes \in Seq(Nat) /\ Len(result.bytes) \in Nat
    BY <1>1, <2>2 DEF WriteHalf
  <2>4. n \in 1 .. Len(result.bytes)
    BY <2>2, <2>3
  <2>5. result' = Stream!Nothing
    BY <2>2 DEF Nothing, Returned, Stream!Nothing, Stream!Returned
  <2>6. Stream!Took
    BY <1>2, <1>3, <2>2, <2>4, <2>5 DEF Stream!Took
  <2>7. QED
    BY <2>6 DEF Stream!Next
<1>7. CASE Gather
  <2>1. UNCHANGED <<received, queued, sent>> /\ result' = Nothing
    BY <1>7 DEF Gather, streams
  <2>2. QED
    BY <1>4, <2>1, CallBegins
<1>8. CASE GatherReturn
  BY <1>1, <1>8, GatherReturnMaps
<1>9. CASE GatherVec \/ GatherNext \/ DropBuffer \/ DropPart \/ DropReturn
  <2>1. UNCHANGED <<received, queued, sent, result>>
    BY <1>9 DEF GatherVec, GatherNext, DropBuffer, DropPart, DropReturn, streams
  <2>2. QED
    BY <1>4, <2>1, LoopTurns
<1>10. QED
  BY <1>5, <1>6, <1>7, <1>8, <1>9 DEF WriteStep

\* The lists implement the two streams of ByteStream, whatever the sizes of the
\* buffers, the io vectors, the batches and the partial sends.
THEOREM BuffersAreStreams == Spec => StreamSpec
<1>1. Init => BufferInv /\ AskedFor /\ Stream!Init
  <2>1. Init => AskedFor /\ Stream!Init
    BY DEF Init, AskedFor, Reading, Peeking, Idle, Stream!Init, Nothing, Returned,
           Stream!Nothing, Stream!Returned
  <2>2. QED
    BY <2>1, BufferInit
<1>2. BufferInv /\ AskedFor /\ [Next]_vars
        => BufferInv' /\ AskedFor' /\ [Stream!Next]_(Stream!vars)
  <2>1. SUFFICES ASSUME BufferInv, AskedFor, [Next]_vars
                 PROVE  BufferInv' /\ AskedFor' /\ [Stream!Next]_(Stream!vars)
    OBVIOUS
  <2>2. BufferInv' /\ AskedFor'
    BY <2>1, BufferNext, AskedNext DEF BufferInv
  <2>3. CASE ReadStep
    BY <2>1, <2>2, <2>3, ReadStepMaps
  <2>4. CASE WriteStep
    BY <2>1, <2>2, <2>4, WriteStepMaps
  <2>5. CASE Free
    <3>1. Stream!Free
      BY <2>5 DEF Free, Stream!Free, Reading, Idle, Nothing, Returned, Stream!Nothing,
                  Stream!Returned
    <3>2. QED
      BY <2>2, <3>1 DEF Stream!Next
  <2>6. CASE UNCHANGED vars
    <3>1. UNCHANGED <<received, taken, queued, sent, result, call>>
      BY <2>6 DEF vars, streams
    <3>2. QED
      BY <2>2, <3>1, LoopTurns DEF Given, Reading
  <2>7. QED
    BY <2>1, <2>2, <2>3, <2>4, <2>5, <2>6, StepKinds
<1>3. QED
  BY <1>1, <1>2, PTL DEF Spec, StreamSpec, Stream!Spec
=============================================================================
