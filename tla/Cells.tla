------------------------------- MODULE Cells --------------------------------
(***************************************************************************)
(* The cells of a machine and the messages between them: jetnet_server.c,  *)
(* channel/jetnet_cns.c and jetnet_sfifo.c, on the shared memory of the    *)
(* kernel.  Each cell is a process that creates the channel of its own key *)
(* when it starts and opens the others' when it first posts to them; the   *)
(* ring in a channel is what module Channel says it is, a FIFO that        *)
(* refuses a package it has no room for, and its spinlock lies in the      *)
(* segment.  Cells exit, crash, also with a spinlock taken, fail to start  *)
(* and are started again.  A message is posted to the entities of a cell,  *)
(* or, for another machine, to the hub cell; what other machines send      *)
(* comes to the hub's tcpsac sockets (huber_handle_recv posts it on).      *)
(***************************************************************************)
EXTENDS Mq, FiniteSets

CONSTANTS
  Cell,         \* the cells of the machine
  Hub,          \* the cell of hub_cno
  Cap,          \* packages that fit into a channel
  RingCap,      \* JETNET_QUEUE_DEFAULT_SIZE
  MaxRun,       \* bound: starts of each cell
  MaxAgain,     \* bound: cells that are started again
  MaxPost,      \* bound: messages each cell posts
  MaxFar,       \* bound: messages that come from other machines
  MaxJam        \* bound: cells that die with a lock taken

ASSUME CellsAssumption ==
  /\ Hub \in Cell /\ "far" \notin Cell
  /\ Cap \in Nat \ {0} /\ RingCap \in Nat \ {0}
  /\ MaxRun \in Nat /\ MaxAgain \in Nat /\ MaxPost \in Nat /\ MaxFar \in Nat
  /\ MaxJam \in Nat

VARIABLES
  on,           \* the cells that run
  run,          \* run[c]: how many runs of c created its channel
  seg,          \* seg[c]: the run of c that made the segment c's key names, or 0
  open,         \* open[c][d]: the run that made the one c has open as d's, or 0
  fifo,         \* fifo[c]: the packages in the segment c's key names
  jammed,       \* the segments <<c, run>> whose spinlock a dead cell holds
  spins,        \* the cells that spin on the lock of such a segment
  mq,           \* mq[c]: the ring of c's loop
  posted,       \* posted[c]: the messages that c, or another machine, posted
  got           \* got[c]: what c's entities got in its present run

vars == <<on, run, seg, open, fifo, jammed, spins, mq, posted, got>>

Sender == Cell \cup {"far"}

Init ==
  /\ on = {}
  /\ run = [c \in Cell |-> 0]
  /\ seg = [c \in Cell |-> 0]
  /\ open = [c \in Cell |-> [d \in Cell |-> 0]]
  /\ fifo = [c \in Cell |-> <<>>]
  /\ jammed = {} /\ spins = {}
  /\ mq = [c \in Cell |-> NewRing(RingCap)]
  /\ posted = [s \in Sender |-> 0]
  /\ got = [c \in Cell |-> <<>>]

-----------------------------------------------------------------------------
(* The life of a cell.                                                     *)

Counted(c) ==
  /\ c \notin on /\ run[c] < MaxRun
  /\ run[c] > 0 => Cardinality({d \in Cell : d = c \/ run[d] > 1}) <= MaxAgain
  /\ run' = [run EXCEPT ![c] = @ + 1]

\* Mutant of Begins: without IPC_EXCL the segment of an earlier run is taken.
Begins_Shares(c) ==
  seg' = [seg EXCEPT ![c] = IF @ = 0 THEN run'[c] ELSE @]

\* jetnet_shm_kfifo_create: IPC_EXCL refuses a key that is in use.
Begins(c) == seg[c] = 0 /\ seg' = [seg EXCEPT ![c] = run'[c]]

\* jetnet_server_init succeeds.
Start(c) ==
  /\ Counted(c) /\ Begins(c)
  /\ on' = on \cup {c}
  /\ UNCHANGED <<open, fifo, jammed, spins, mq, posted, got>>

\* The channel cannot be created: the process ends, everything is as before.
StartRefused(c) == c \notin on /\ seg[c] # 0 /\ UNCHANGED vars

\* A module cannot be opened or has no init: what was set up is released, the
\* channel with it.
LoadFails(c) == c \notin on /\ seg[c] = 0 /\ UNCHANGED vars

\* A module's init fails: jetnet_server_init returns without a release, and the
\* process ends with the channel in place.
StartFails(c) ==
  /\ Counted(c) /\ Begins(c)
  /\ UNCHANGED <<on, open, fifo, jammed, spins, mq, posted, got>>

\* What a process leaves: its memory is gone with it.
Ends(c) ==
  /\ on' = on \ {c}
  /\ spins' = spins \ {c}
  /\ open' = [open EXCEPT ![c] = [d \in Cell |-> 0]]
  /\ mq' = [mq EXCEPT ![c] = NewRing(RingCap)]
  /\ got' = [got EXCEPT ![c] = <<>>]
  /\ UNCHANGED <<run, posted>>

\* A segment is removed: no key names it, and no cell reads it any more, though
\* cells that have it open go on putting into it.
Removes(c) ==
  /\ seg' = [seg EXCEPT ![c] = 0]
  /\ fifo' = [fifo EXCEPT ![c] = <<>>]

\* A cell that runs, and does not spin for ever.
Works(c) == c \in on \ spins

\* The exit flag, at the end of a turn: jetnet_server_release removes the
\* channel.
Exit(c) ==
  /\ Works(c) /\ RingSize(mq[c]) = 0
  /\ Removes(c) /\ Ends(c)
  /\ UNCHANGED jammed

\* The operator removes what a cell left (ipcrm.sh).
Cleared(c) ==
  /\ c \notin on /\ seg[c] # 0
  /\ Removes(c)
  /\ UNCHANGED <<on, run, open, jammed, spins, mq, posted, got>>

-----------------------------------------------------------------------------
(* Posting.                                                                *)

\* jetnet_shm_kfifo_open finds the segment that d's key names, if there is one.
OpenNow(d) == seg[d]

\* The segment c puts a package for d into, 0 if there is none: its own, the
\* one it has open, or the one that d's key names now.
Target(c, d) ==
  IF d = c THEN seg[c] ELSE IF open[c][d] # 0 THEN open[c][d] ELSE OpenNow(d)

\* jetnet_cns_put_msg_var: a package that does not fit, or for a cell that has
\* no channel, is dropped, and one in a removed segment is never read; post_msg
\* says 1 all the same.  At a lock that a dead cell holds the call never returns.
Put(c, d, msg) ==
  LET s == Target(c, d)
      waits == <<d, s>> \in jammed
  IN
  /\ open' = IF d = c THEN open ELSE [open EXCEPT ![c][d] = s]
  /\ fifo' = IF s # 0 /\ s = seg[d] /\ ~waits /\ Len(fifo[d]) < Cap
             THEN [fifo EXCEPT ![d] = Append(@, msg)] ELSE fifo
  /\ spins' = IF waits THEN spins \cup {c} ELSE spins

\* The cells whose channel c may be putting into, or getting from its own.
Enters(c) ==
  {d \in Cell :
     \/ d = c /\ RingSize(mq[c]) = 0
     \/ posted[c] < MaxPost
     \/ RingSize(mq[c]) # 0 /\ ~Popped(mq[c]).home /\ Popped(mq[c]).to = d}

\* The process dies: the channel stays.  It may be in a put or a get, between
\* spinlock_lock and spinlock_unlock: the lock of that segment stays taken.  What
\* it has put by then nobody reads.
Crash(c) ==
  /\ c \in on
  /\ Ends(c)
  /\ \/ UNCHANGED jammed
     \/ /\ c \notin spins /\ Cardinality(jammed) < MaxJam
        /\ \E d \in Enters(c) :
             /\ Target(c, d) # 0 /\ <<d, Target(c, d)>> \notin jammed
             /\ jammed' = jammed \cup {<<d, Target(c, d)>>}
  /\ UNCHANGED <<seg, fifo>>

\* The n-th message of s for d, a cell in its present run.
Message(s, n, d) ==
  [from |-> s, to |-> d, n |-> n, era |-> IF d \in Cell THEN run[d] ELSE 0,
   home |-> s # "far"]

\* jetnet_api_impl_post_msg to a cell of this machine, or of another (d is
\* "far"), through the hub.
Post(c, d) ==
  /\ Works(c) /\ posted[c] < MaxPost
  /\ posted' = [posted EXCEPT ![c] = @ + 1]
  /\ Put(c, IF d = "far" THEN Hub ELSE d, Message(c, posted'[c], d))
  /\ UNCHANGED <<on, run, seg, jammed, mq, got>>

-----------------------------------------------------------------------------
(* jetnet_server_loop.                                                     *)

\* What the hub's sockets bring in a turn: messages for cells of this machine.
News(c) ==
  IF c = Hub THEN {ds \in UNION {[1 .. k -> Cell] : k \in 0 .. 2} :
                     posted["far"] + Len(ds) <= MaxFar}
             ELSE {<<>>}

\* The messages of s are pushed, one after the other.
Pushed(r, s) ==
  LET p[i \in 0 .. Len(s)] == IF i = 0 THEN r ELSE Push(p[i - 1], s[i])
  IN p[Len(s)]

\* Whether a dead cell holds the lock of c's channel.
Jammed(c) == <<c, seg[c]>> \in jammed

\* jetnet_cns_get_msg never returns.
TurnSpins(c) ==
  /\ Works(c) /\ RingSize(mq[c]) = 0 /\ Jammed(c)
  /\ spins' = spins \cup {c}
  /\ UNCHANGED <<on, run, seg, open, fifo, jammed, mq, posted, got>>

\* jetnet_cns_get_msg, one package, and jetnet_net_poll fill the ring.
Turn(c) ==
  /\ Works(c) /\ RingSize(mq[c]) = 0 /\ ~Jammed(c)
  /\ \E ds \in News(c) :
       LET first == posted["far"]
           brought == [i \in DOMAIN ds |-> Message("far", first + i, ds[i])]
           taken == IF fifo[c] = <<>> THEN <<>> ELSE <<Head(fifo[c])>>
       IN /\ taken \o brought # <<>>
          /\ mq' = [mq EXCEPT ![c] = Pushed(@, taken \o brought)]
          /\ posted' = [posted EXCEPT !["far"] = @ + Len(ds)]
          /\ fifo' = [fifo EXCEPT ![c] = IF @ = <<>> THEN @ ELSE Tail(@)]
  /\ UNCHANGED <<on, run, seg, open, jammed, spins, got>>

\* The hub's entity posts on what came from another machine.
PassOn(c) ==
  LET msg == Popped(mq[c]) IN
  /\ Works(c) /\ RingSize(mq[c]) # 0 /\ ~msg.home
  /\ mq' = [mq EXCEPT ![c] = Pop(@)]
  /\ Put(c, msg.to, [msg EXCEPT !.home = TRUE, !.era = run[msg.to]])
  /\ UNCHANGED <<on, run, seg, jammed, posted, got>>

\* Any other message is its entity's.
Deliver(c) ==
  LET msg == Popped(mq[c]) IN
  /\ Works(c) /\ RingSize(mq[c]) # 0 /\ msg.home
  /\ mq' = [mq EXCEPT ![c] = Pop(@)]
  /\ got' = [got EXCEPT ![c] = Append(@, msg)]
  /\ UNCHANGED <<on, run, seg, open, fifo, jammed, spins, posted>>

Next ==
  \E c \in Cell :
    \/ Start(c) \/ StartRefused(c) \/ LoadFails(c) \/ StartFails(c)
    \/ Exit(c) \/ Crash(c) \/ Cleared(c)
    \/ \E d \in Sender : Post(c, d)
    \/ Turn(c) \/ TurnSpins(c) \/ PassOn(c) \/ Deliver(c)

Spec == Init /\ [][Next]_vars

\* jetnet_server_loop waits for no more than its poll's timeout, but for locks.
FairSpec ==
  /\ Spec
  /\ \A c \in Cell : WF_vars(Turn(c) \/ TurnSpins(c) \/ PassOn(c) \/ Deliver(c))

-----------------------------------------------------------------------------
Msg == [from : Sender, to : Sender, n : Nat, era : Nat, home : BOOLEAN]

\* The types of the state; a running cell's key names a segment, and every
\* ring is one that jetnet_mq.c could have left.
TypeOK ==
  /\ on \subseteq Cell
  /\ run \in [Cell -> 0 .. MaxRun]
  /\ seg \in [Cell -> 0 .. MaxRun]
  /\ open \in [Cell -> [Cell -> 0 .. MaxRun]]
  /\ jammed \subseteq Cell \X (1 .. MaxRun) /\ spins \subseteq on
  /\ \A c \in Cell :
       Len(fifo[c]) <= Cap /\ \A i \in DOMAIN fifo[c] : fifo[c][i] \in Msg
  /\ \A c \in Cell :
       LET r == mq[c] IN
       /\ r.head \in 0 .. r.cap - 1 /\ r.tail \in 0 .. r.cap - 1
       /\ \A i \in DOMAIN Items(r) : Items(r)[i] \in Msg
       /\ c \in on => seg[c] # 0
  /\ posted \in [Sender -> Nat]

\* Whatever is lost on the way, what a run of a cell gets of one sender comes in
\* the order of posting and never twice, through the channel, the ring and, from
\* another machine, the hub and the channel behind it.
InOrder ==
  \A c \in Cell : \A i, j \in DOMAIN got[c] :
    i < j /\ got[c][i].from = got[c][j].from => got[c][i].n < got[c][j].n

\* A cell that was started again gets nothing that was posted to an earlier run
\* of it: IPC_EXCL refuses a channel with packages in it (jetnet_shm_create).
FreshStart ==
  \A c \in Cell : \A i \in DOMAIN got[c] : got[c][i].era \in {run[c], 0}

\* What another cell of the machine put into a running cell's channel reaches the
\* entities there, unless the cell ends first, or comes to a lock that a cell died
\* with: its own, when the package is lost with it, or that of a channel it posts
\* to or passes a message on to.
Arrives ==
  \A c \in Cell : \A s \in Cell \ {c} : \A n \in 1 .. MaxPost :
    LET Is(msg) == msg.from = s /\ msg.n = n
    IN (c \in on /\ \E i \in DOMAIN fifo[c] : Is(fifo[c][i]))
         ~> (c \notin on \/ c \in spins \/ \E i \in DOMAIN got[c] : Is(got[c][i]))
=============================================================================
