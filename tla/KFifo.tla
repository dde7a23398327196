------------------------------- MODULE KFifo -------------------------------
(***************************************************************************)
(* The ring buffer in shared memory through which the cells of a host send *)
(* messages to one cell (channel/jetnet_kfifo.c), with the processes that  *)
(* use it: the sending cells in kfifo_pkg_put and kfifo_pkg_put_iov, and   *)
(* the owner in jetnet_cns_get_msg (channel/jetnet_cns.c), which calls     *)
(* kfifo_pkg_get and doubles its receive buffer when it is too small.      *)
(*                                                                         *)
(* The processes are separate programs: they interleave at every access    *)
(* outside the spinlock, and one of them can die at any step.  A package   *)
(* is its bytes, so that a wrong copy at the wrap of the ring shows.       *)
(***************************************************************************)
EXTENDS Naturals, FiniteSets, SequencesExt

CONSTANTS
  Writer,       \* the cells that put packages
  Body,         \* the packages they put, each a sequence of bytes
  Size,         \* size of the ring, a power of 2
  CounterMod,   \* in and out wrap at this number (2^32), a multiple of Size
  RecvSize,     \* INIT_CN_BUFFER_SIZE: the reader's first buffer
  MaxPut,       \* bound: puts ever started
  MaxCrash      \* bound: writers that die

\* The bytes before a package that say how long it is.
HeaderLen == 4

\* A message is never empty, as it has a header, and its size with the length
\* before it, an unsigned int, does not wrap.
ASSUME KFifoAssumption ==
  /\ Body \subseteq Seq(Nat) \ {<<>>}
  /\ \A b \in Body : HeaderLen + Len(b) < CounterMod
  /\ Size \in Nat \ {0}
  /\ CounterMod \in Nat /\ CounterMod % Size = 0 /\ CounterMod > Size
  /\ RecvSize \in 1..CounterMod-1
  /\ MaxPut \in Nat
  /\ MaxCrash \in Nat

VARIABLES
  buf,          \* the bytes of the ring
  in, out,      \* the counters of bytes written and read
  lock,         \* the spinlock
  pc,           \* pc[w]: where writer w is
  body,         \* body[w]: the package it puts
  chunks,       \* chunks[w]: the io vectors it has still to copy
  rpc,          \* where the reader is
  rlen,         \* its *len argument: what it says it has room for
  rbuf,         \* recv_buffer_size
  result,       \* what its kfifo_pkg_get is about to return
  puts,         \* how many puts were started
  q,            \* history: the packages put and not got
  said,         \* history: what each writer was last told, and of which package
  heard         \* history: what the reader last got

shared == <<buf, in, out, lock>>
writers == <<pc, body, chunks, puts>>
reader == <<rpc, rlen, rbuf, result>>
answers == <<q, said, heard>>
vars == <<shared, writers, reader, answers>>

Empty == [code |-> "empty"]

\* What a put returned, and of which package.
Answer == [answer : {"none", "ok", "full"}, of : Body \cup {<<>>}]

TypeOK ==
  /\ buf \in [0..Size-1 -> Nat]
  /\ in \in 0..CounterMod-1 /\ out \in 0..CounterMod-1
  /\ lock \in BOOLEAN
  /\ pc \in [Writer -> {"idle", "lock", "check", "copy", "refused", "dead"}]
  /\ body \in [Writer -> Body \cup {<<>>}]
  /\ chunks \in [Writer -> Seq(Seq(Nat))] /\ \A w \in Writer : Len(chunks[w]) <= 3
  /\ rpc \in {"lock", "read", "unlock", "grow"}
  /\ rlen \in 0..CounterMod-1 /\ rbuf \in 1..CounterMod-1
  /\ result \in [code : {"empty", "small"}] \cup [code : {"ok"}, data : Seq(Nat)]
  /\ puts \in 0..MaxPut
  /\ q \in Seq(Body)
  /\ said \in [Writer -> Answer]
  /\ heard \in Body \cup {<<>>}

\* kfifo_create; the buffer is zeroed shared memory.
Init ==
  /\ buf = [i \in 0..Size-1 |-> 0]
  /\ in = 0 /\ out = 0
  /\ lock = FALSE
  /\ pc = [w \in Writer |-> "idle"]
  /\ body = [w \in Writer |-> <<>>]
  /\ chunks = [w \in Writer |-> <<>>]
  /\ rpc = "lock" /\ rlen = RecvSize /\ rbuf = RecvSize /\ result = Empty
  /\ puts = 0
  /\ q = <<>>
  /\ said = [w \in Writer |-> [answer |-> "none", of |-> <<>>]]
  /\ heard = <<>>

-----------------------------------------------------------------------------
(* Arithmetic and copying.  An operator named Op_Fault is Op with a fault  *)
(* seeded in it, to show that a property detects that fault.               *)

Least(a, b) == IF a < b THEN a ELSE b

Wrap_Never(n) == n

\* Counters are unsigned and wrap.
Wrap(n) == n % CounterMod

Free_OffByOne == Wrap(Size - in + out) + 1

Free == Wrap(Size - in + out)
Filled == Wrap(in - out)

\* The 4 bytes of a length, lowest first, and the length they stand for.
LengthBytes(n) ==
  <<n % 256, (n \div 256) % 256, (n \div 65536) % 256, n \div 16777216>>
LengthOf(s) == s[1] + 256 * s[2] + 65536 * s[3] + 16777216 * s[4]

Stored_NoWrapSource(s, at) ==
  LET offset == at % Size
      n == Least(Len(s), Size - offset)
  IN [i \in 0..Size-1 |->
        IF i \in offset..offset + n - 1 THEN s[i - offset + 1]
        ELSE IF i < Len(s) - n THEN s[i + 1]
        ELSE buf[i]]

\* kfifo_internal_put: as much as fits before the end of the ring, the rest
\* at its start.
Stored(s, at) ==
  LET offset == at % Size
      n == Least(Len(s), Size - offset)
  IN [i \in 0..Size-1 |->
        IF i \in offset..offset + n - 1 THEN s[i - offset + 1]
        ELSE IF i < Len(s) - n THEN s[n + i + 1]
        ELSE buf[i]]

\* The two memcpy of kfifo_pkg_get: len bytes from counter at.
Loaded(at, len) ==
  LET offset == at % Size
      n == Least(len, Size - offset)
  IN [i \in 1..len |-> IF i <= n THEN buf[offset + i - 1] ELSE buf[i - n - 1]]

-----------------------------------------------------------------------------
(* A writer: kfifo_raw_put_iov, called by kfifo_pkg_put and                *)
(* kfifo_pkg_put_iov with the length as the first io vector.               *)

\* The body comes in one vector (jetnet_cns_put_msg) or in two, the header
\* of the message and its data (jetnet_cns_put_msg_var).
StartPut(w) ==
  /\ pc[w] = "idle"
  /\ puts < MaxPut
  /\ puts' = puts + 1
  /\ pc' = [pc EXCEPT ![w] = "lock"]
  /\ \E b \in Body :
       /\ body' = [body EXCEPT ![w] = b]
       /\ \/ chunks' = [chunks EXCEPT ![w] = <<LengthBytes(Len(b)), b>>]
          \/ /\ Len(b) > 1
             /\ chunks' = [chunks EXCEPT ![w] =
                  <<LengthBytes(Len(b)), <<Head(b)>>, Tail(b)>>]
  /\ UNCHANGED <<shared, reader, answers>>

PutLock_NotAtomic(w) ==
  /\ pc[w] = "lock"
  /\ lock' = TRUE
  /\ pc' = [pc EXCEPT ![w] = "check"]
  /\ UNCHANGED <<buf, in, out, body, chunks, puts, reader, answers>>

\* spinlock_lock: the test and set that finds the lock free.
PutLock(w) ==
  /\ pc[w] = "lock"
  /\ ~lock
  /\ lock' = TRUE
  /\ pc' = [pc EXCEPT ![w] = "check"]
  /\ UNCHANGED <<buf, in, out, body, chunks, puts, reader, answers>>

PutCheck(w) ==
  /\ pc[w] = "check"
  /\ pc' = [pc EXCEPT ![w] = IF Free < HeaderLen + Len(body[w]) THEN "refused"
                             ELSE "copy"]
  /\ UNCHANGED <<shared, body, chunks, puts, reader, answers>>

\* kfifo_internal_put of the next vector.
PutChunk(w) ==
  /\ pc[w] = "copy"
  /\ chunks[w] # <<>>
  /\ buf' = Stored(Head(chunks[w]), in)
  /\ in' = Wrap(in + Len(Head(chunks[w])))
  /\ chunks' = [chunks EXCEPT ![w] = Tail(@)]
  /\ UNCHANGED <<out, lock, pc, body, puts, reader, answers>>

PutReturn_FullKeepsLock(w) ==
  /\ \/ /\ pc[w] = "copy"
        /\ chunks[w] = <<>>
        /\ q' = Append(q, body[w])
        /\ said' = [said EXCEPT ![w] = [answer |-> "ok", of |-> body[w]]]
     \/ /\ pc[w] = "refused"
        /\ q' = q
        /\ said' = [said EXCEPT ![w] = [answer |-> "full", of |-> body[w]]]
  /\ lock' = (pc[w] = "refused")
  /\ pc' = [pc EXCEPT ![w] = "idle"]
  /\ body' = [body EXCEPT ![w] = <<>>]
  /\ chunks' = [chunks EXCEPT ![w] = <<>>]
  /\ UNCHANGED <<buf, in, out, puts, reader, heard>>

\* spinlock_unlock and return.
PutReturn(w) ==
  /\ \/ /\ pc[w] = "copy"
        /\ chunks[w] = <<>>
        /\ q' = Append(q, body[w])
        /\ said' = [said EXCEPT ![w] = [answer |-> "ok", of |-> body[w]]]
     \/ /\ pc[w] = "refused"
        /\ q' = q
        /\ said' = [said EXCEPT ![w] = [answer |-> "full", of |-> body[w]]]
  /\ lock' = FALSE
  /\ pc' = [pc EXCEPT ![w] = "idle"]
  /\ body' = [body EXCEPT ![w] = <<>>]
  /\ chunks' = [chunks EXCEPT ![w] = <<>>]
  /\ UNCHANGED <<buf, in, out, puts, reader, heard>>

\* The process of a writer is killed.  The lock is a word in shared memory:
\* nobody releases it for the dead.
Crash(w) ==
  /\ pc[w] # "dead"
  /\ Cardinality({v \in Writer : pc[v] = "dead"}) < MaxCrash
  /\ pc' = [pc EXCEPT ![w] = "dead"]
  /\ UNCHANGED <<shared, body, chunks, puts, reader, answers>>

-----------------------------------------------------------------------------
(* The reader: jetnet_cns_get_msg, called in every round of the loop.      *)

GetLock ==
  /\ rpc = "lock"
  /\ ~lock
  /\ lock' = TRUE
  /\ rpc' = "read"
  /\ UNCHANGED <<buf, in, out, writers, rlen, rbuf, result, answers>>

\* kfifo_pkg_get, between lock and unlock.
GetRead ==
  /\ rpc = "read"
  /\ rpc' = "unlock"
  /\ IF Filled <= HeaderLen
     THEN result' = Empty /\ UNCHANGED <<out, rlen>>
     ELSE LET cl == LengthOf(Loaded(out, HeaderLen))
          IN IF Filled < cl + HeaderLen
             THEN result' = Empty /\ UNCHANGED <<out, rlen>>
             ELSE /\ rlen' = cl
                  /\ IF rlen < cl
                     THEN result' = [code |-> "small"] /\ UNCHANGED out
                     ELSE /\ result' = [code |-> "ok",
                                        data |-> Loaded(out + HeaderLen, cl)]
                          /\ out' = Wrap(out + HeaderLen + cl)
  /\ UNCHANGED <<buf, in, lock, writers, rbuf, answers>>

\* The size of the receive buffer is an unsigned int.
Doubled == Wrap(2 * rbuf)

\* jetnet_cns_get_msg returns, and the next call offers the whole buffer, or
\* begins to look for a buffer of twice the size or more.
GetReturn ==
  /\ rpc = "unlock"
  /\ lock' = FALSE
  /\ IF result.code = "small"
     THEN rpc' = "grow" /\ rbuf' = Doubled /\ UNCHANGED <<rlen, q, heard>>
     ELSE /\ rpc' = "lock"
          /\ rlen' = rbuf
          /\ rbuf' = rbuf
          /\ IF result.code = "ok"
             THEN q' = Tail(q) /\ heard' = result.data
             ELSE q' = q /\ heard' = <<>>
  /\ result' = Empty
  /\ UNCHANGED <<buf, in, out, writers, said>>

Grow_Once ==
  /\ rpc = "grow"
  /\ rpc' = "lock"
  /\ UNCHANGED <<shared, writers, rlen, rbuf, result, answers>>

\* One turn of the loop that doubles the size, or its end: the buffer is
\* allocated and the get tried again.
Grow ==
  /\ rpc = "grow"
  /\ IF rbuf < rlen THEN rbuf' = Doubled /\ UNCHANGED rpc
                    ELSE rpc' = "lock" /\ UNCHANGED rbuf
  /\ UNCHANGED <<shared, writers, rlen, result, answers>>

-----------------------------------------------------------------------------

Put(w) ==
  \/ PutLock(w)
  \/ PutCheck(w)
  \/ PutChunk(w)
  \/ PutReturn(w)

Get == GetLock \/ GetRead \/ GetReturn \/ Grow

Next ==
  \/ \E w \in Writer : StartPut(w) \/ Put(w) \/ Crash(w)
  \/ Get

Spec == Init /\ [][Next]_vars

\* Every process runs, so one that has the lock lets it go.  The spinlock
\* queues nobody, but a process that spins while the lock is free again and
\* again gets it in the end.
FairSpec ==
  /\ Spec
  /\ \A w \in Writer : WF_vars(PutCheck(w) \/ PutChunk(w) \/ PutReturn(w))
  /\ \A w \in Writer : SF_vars(PutLock(w))
  /\ WF_vars(GetRead \/ GetReturn \/ Grow)
  /\ SF_vars(GetLock)

-----------------------------------------------------------------------------
(* Properties.                                                             *)

Inside == {w \in Writer : pc[w] \in {"check", "copy", "refused"}}
Reading == rpc \in {"read", "unlock"}

\* Never two processes at the ring at a time, and the lock is taken while
\* one is there, so that bytes, in and out are never changed under another.
OneInside ==
  /\ \A v, w \in Inside : v = w
  /\ Inside # {} => lock /\ ~Reading
  /\ Reading => lock

\* The reader never copies a package beyond the end of its receive buffer,
\* whatever sizes it grew through.
FitsBuffer == /\ rlen <= rbuf \/ rpc \in {"unlock", "grow"}
              /\ result.code = "ok" => Len(result.data) <= rbuf

Chan == INSTANCE Channel WITH Overhead <- HeaderLen, Capacity <- Size

\* The ring, at any fill and across the wrap of the ring and of its
\* counters, is a bounded FIFO: the bytes the reader gets are the oldest
\* package, a put is refused only for want of room and a get finds nothing
\* only when nothing is there, also when writers die.
ChannelSpec == Chan!SafeSpec

\* What was put is read in the end, and the lock does not keep the reader
\* away from it, as long as no writer dies.
Drains == (q # <<>> ~> q = <<>>) \/ <>(\E w \in Writer : pc[w] = "dead")

\* "return values: 0 succeed, -1 the channel han't enough space for put"
\* (jetnet_cns.h): a put returns.
PutReturns == \A w \in Writer : pc[w] = "lock" ~> pc[w] \in {"idle", "dead"}
=============================================================================
