-------------------------- MODULE NetServiceProofs --------------------------
(***************************************************************************)
(* Proofs about module NetService, for any set of protocols and every      *)
(* bound: an inductive invariant, the six safety properties that follow    *)
(* from it, and that what an owner is told is a session of module Session. *)
(*                                                                         *)
(* The invariant speaks of one connection at a time (ConnInv).  A lemma    *)
(* for each handler says that it keeps the invariant, and where the        *)
(* notices it adds take the session of the owner (Moves); the receive      *)
(* handlers are loops, which are followed turn by turn.                    *)
(***************************************************************************)
EXTENDS NetService, SequenceTheorems, FiniteSetTheorems, WellFoundedInduction, TLAPS

-----------------------------------------------------------------------------
(* The invariant, connection by connection.                                *)

UnitKinds == {"app", "req", "ack", "junk", "bad", "blank", "fields", "headers", "headerstoeof", "body",
              "chunkpart", "chunk", "trailer", "end"}
Unit == [kind : UnitKinds, part : {1, 2}, n : Nat]
AnyNote == [t : Notices, n : Nat]

PkgParser == [step : {"HEAD", "BODY", "ERROR"}]
WebParser == [step : {"NONE", "FIELD", "HEADERS", "BODY", "CHUNK", "COMPLETE", "ERROR"},
              off : Nat, body : Nat, keep : BOOLEAN, paused : BOOLEAN,
              toeof : BOOLEAN, full : BOOLEAN, size : {"right", "longer", "astray"},
              twice : BOOLEAN]

Conns(protos, parsers) ==
  [proto : protos, role : {"listener", "client", "server"}, st : States, pr : parsers,
   linked : BOOLEAN, rbl : Seq(Unit), wbl : Seq(0 .. MaxSend), told : Seq(AnyNote),
   came : Seq(Unit), sent : 0 .. MaxSend, up : BOOLEAN, bye : BOOLEAN, old : BOOLEAN]

PkgConn == Conns({"tcpsac", "tcppkg"} \cap Proto, PkgParser)
WebConn == Conns({"http"} \cap Proto, WebParser)

\* The states of a role.
Stages(proto, role) ==
  {"TRANS", "CLOSE"} \cup
  CASE role = "client" -> {"CONNECTING"} \cup (IF proto = "tcppkg" THEN {"VALIDING"} ELSE {})
    [] role = "server" -> IF proto = "tcppkg" THEN {"CONNECTED"} ELSE {}
    [] role = "listener" -> {"LISTEN"}

Common(c) ==
  /\ c.st \in Stages(c.proto, c.role) /\ (c.role = "listener" => c.st # "TRANS")
  /\ ~c.linked /\ c.up = (c.st # "CLOSE")
  /\ c.bye => c.st = "CLOSE"

\* Packages, each in two units.
Paired(s) ==
  /\ s # <<>> => s[1].part = 1
  /\ \A i \in 1 .. Len(s) - 1 :
       IF s[i].part = 1 THEN s[i + 1].part = 2 /\ s[i + 1].kind = s[i].kind /\ s[i + 1].n = s[i].n
                        ELSE s[i + 1].part = 1

App == [kind : {"app"}, part : {2}, n : Nat]

KindsOf(proto) == IF proto = "tcpsac" THEN Sac!Kinds ELSE Pkg!Kinds

\* What was not parsed are the last units that came, from the head of a package on.
Unparsed(c) ==
  /\ Paired(c.rbl) /\ \A i \in 1 .. Len(c.rbl) : c.rbl[i].kind \in KindsOf(c.proto)
  /\ c.rbl # <<>> => c.came # <<>> /\ c.came[Len(c.came)] = c.rbl[Len(c.rbl)]
  /\ c.rbl = <<>> /\ c.came # <<>> => c.came[Len(c.came)].part = 2
  /\ c.pr.step \in {"HEAD", "BODY"}
  /\ c.pr.step = "BODY" => c.rbl # <<>> /\ c.rbl[1].kind # "bad"

\* The packages delivered and those not yet parsed are those that came.
Kept(c) ==
  Numbers(Got(c)) \o Numbers(Chosen(c.rbl, App)) = Numbers(Whole(c))

Checked(c) ==
  c.proto = "tcppkg" =>
    Len(c.came) >= 2 /\ c.came[2].kind = IF c.role = "server" THEN "req" ELSE "ack"

HeardOf(c) == \E i \in 1 .. Len(c.told) : c.told[i].t \in {"CONNECT", "ACCEPT", "RECV"}

\* Before it is open
Early(c) == /\ c.told = <<>> /\ c.rbl = c.came
            /\ \A i \in 1 .. Len(c.wbl) : c.wbl[i] = 0

PkgInv(c) ==
  /\ c \in PkgConn /\ Common(c)
  /\ c.st # "CLOSE" => Unparsed(c) /\ Kept(c) /\ Told(c, "UNREACH") = <<>>
  /\ c.st = "TRANS" => Len(c.rbl) < 2
  /\ c.st \notin {"TRANS", "CLOSE"} => Early(c)
  /\ c.st = "CONNECTING" => c.came = <<>>
  /\ IsPrefix(Numbers(Got(c)), Numbers(Whole(c)))
  /\ c.st = "TRANS" \/ HeardOf(c) => Checked(c)
  /\ c.st = "CLOSE" /\ ~c.bye => Numbers(Told(c, "UNREACH")) = Owned(c.wbl)

-----------------------------------------------------------------------------
(* http.  Pieces with no callback leave the step empty with the offset      *)
(* moved on, and are parsed again with the next read: from then on the      *)
(* offset is ahead of the parser's place in the buffer, "at", and says      *)
(* nothing of it.                                                           *)

InBody == {"headers", "headerstoeof", "body", "chunkpart", "chunk", "trailer"}
Follows == {"body", "chunkpart", "chunk", "trailer", "end", "bad"}
Flows(s) == \A i \in 1 .. Len(s) - 1 : s[i].kind \in InBody => s[i + 1].kind \in Follows

IsWhole(c, k) ==
  LET to == Taken(c, k)
      message == SubSeq(c.came, Taken(c, k - 1) + 1, to)
  IN /\ to <= Len(c.came) /\ message # <<>>
     /\ c.pr.twice \/
          /\ \A i \in 1 .. Len(message) - 1 : message[i].kind # "end"
          /\ \/ message[Len(message)].kind = "end"
             \/ Bodies(message) >= MaxBody
             \/ c.st = "CLOSE" /\ k = Len(Got(c))

\* The messages delivered end where what is in the read buffer begins.
Begins(c) == Taken(c, Len(Got(c)))

\* The buffer r is what came, from B on.
Holds(r, s, B) == Len(r) = Len(s) - B /\ \A i \in 1 .. Len(r) : r[i] = s[B + i]

\* The steps a parser goes on from, and those a part of a body is taken at.
Going == {"FIELD", "HEADERS", "BODY", "CHUNK"}
Sized == {"HEADERS", "BODY", "CHUNK"}

\* Nothing was parsed twice: the parser's counts are those of the units.
Once(r, p, at) ==
  /\ p.off = at /\ p.size = "right"
  /\ p.body = Bodies(SubSeq(r, 1, at))
  /\ \A i \in 1 .. at - 1 : r[i].kind # "end"
  /\ at > 0 /\ p.step # "ERROR" => (r[at].kind = "end" <=> p.step = "COMPLETE")

\* The parser has come to unit "at" of the buffer; got says that a message was
\* delivered before.
Over(r, s, B, p, got, at) ==
  /\ Holds(r, s, B) /\ at \in 0 .. Len(r)
  /\ p.step = "NONE" => ~p.keep /\ (p.size = "astray" => p.off = 0)
  /\ p.step # "NONE" => p.off > 0
  /\ p.step \in Going => ~p.paused
  /\ p.step = "COMPLETE" => p.paused
  /\ p.twice => p.paused \/ p.step = "ERROR" \/ p.off > at
  /\ ~p.twice => Once(r, p, at)
  /\ got /\ p.step # "ERROR" => ~p.keep
  /\ (got \/ p.step \in Sized) /\ p.step # "ERROR" =>
       p.paused \/ p.size = "astray" \/ (B + at > 0 /\ s[B + at].kind \in InBody)

\* The last n units of the buffer were just read.
At(c, n) == IF c.pr.twice THEN Len(c.rbl) - n ELSE c.pr.off
Parses(c, n) == Over(c.rbl, c.came, Begins(c), c.pr, Got(c) # <<>>, At(c, n))

\* Between two polls.
AtRest(c) ==
  /\ c.pr.step \in {"NONE"} \cup Going
  /\ c.pr.paused \/ At(c, 0) = Len(c.rbl)

WebInv(c) ==
  /\ c \in WebConn /\ Common(c)
  /\ Flows(c.came)
  /\ \A k \in 1 .. Len(Got(c)) : IsWhole(c, k)
  /\ c.st # "CLOSE" => Parses(c, 0) /\ AtRest(c)
  /\ c.role = "server" /\ c.told # <<>> => Got(c) # <<>>
  /\ c.st \notin {"TRANS", "CLOSE"} => c.told = <<>>

ConnInv(c) == PkgInv(c) \/ WebInv(c)

NetInv == Fresh \in Nat /\ DOMAIN conn = 0 .. Fresh - 1 /\ \A id \in DOMAIN conn : ConnInv(conn[id])

-----------------------------------------------------------------------------
(* Loops.                                                                  *)

\* Induction, for the numbers of a set.
LEMMA Ascends ==
  ASSUME NEW n \in Nat, NEW T, 0 \in T, \A i \in 0 .. n - 1 : i \in T => i + 1 \in T
  PROVE  \A i \in 0 .. n : i \in T
<1> DEFINE Bad == {i \in 0 .. n : i \notin T}
           R == OpToRel(<, Nat)
<1>1. ASSUME Bad # {}
      PROVE  FALSE
  <2>1. IsWellFoundedOn(R, Nat)
    BY NatLessThanWellFounded
  <2>2. \A x, y \in Nat : y < x => <<y, x>> \in R
    BY DEF OpToRel
  <2>3. Bad \in SUBSET Nat
    OBVIOUS
  <2> HIDE DEF R, Bad
  <2>4. PICK m \in Bad : \A i \in Bad : ~ (<<i, m>> \in R)
    BY <1>1, <2>1, <2>3, WFMin
  <2>5. m \in 0 .. n /\ m # 0
    BY <2>4 DEF Bad
  <2>6. m - 1 \in 0 .. n - 1 /\ m - 1 \in Nat /\ m \in Nat /\ m - 1 < m
    BY <2>5
  <2>7. m - 1 \notin Bad
    BY <2>2, <2>4, <2>6
  <2>8. m - 1 \in T
    BY <2>6, <2>7 DEF Bad
  <2>9. m \in T
    BY <2>5, <2>6, <2>8
  <2>10. QED
    BY <2>4, <2>9 DEF Bad
<1>2. QED
  BY <1>1

\* What the turns 0 .. n of a loop leave, that starts in s: F[k] is turn k.
Loop(p, n, s, F) == p[0] = s /\ \A k \in 1 .. n : p[k] = F[k][p[k - 1]]

\* There is a loop that stays in P.
LEMMA LoopRuns ==
  ASSUME NEW n \in Nat, NEW P, NEW s \in P, NEW F \in [1 .. n -> [P -> P]]
  PROVE  \E p \in [0 .. n -> P] : Loop(p, n, s, F)
<1> DEFINE T == {m \in 0 .. n : \E p \in [0 .. m -> P] : Loop(p, m, s, F)}
<1>1. 0 \in T
  <2> DEFINE p == [k \in 0 .. 0 |-> s]
  <2>1. p \in [0 .. 0 -> P] /\ p[0] = s /\ \A k \in 1 .. 0 : p[k] = F[k][p[k - 1]]
    OBVIOUS
  <2> HIDE DEF p
  <2>2. QED
    BY <2>1 DEF Loop
<1>2. ASSUME NEW m \in 0 .. n - 1, m \in T
      PROVE  m + 1 \in T
  <2>1. PICK p \in [0 .. m -> P] : Loop(p, m, s, F)
    BY <1>2
  <2>2. m \in 0 .. m /\ m + 1 \in 1 .. n /\ p[m] \in P
    BY <2>1
  <2> DEFINE g == [k \in 0 .. m + 1 |-> IF k = m + 1 THEN F[m + 1][p[m]] ELSE p[k]]
  <2>3. F[m + 1][p[m]] \in P
    BY <2>2
  <2>4. g \in [0 .. m + 1 -> P]
    BY <2>2, <2>3
  <2>5. g[0] = s
    BY <2>1 DEF Loop
  <2>6. ASSUME NEW k \in 1 .. m + 1
        PROVE  g[k] = F[k][g[k - 1]]
    <3>1. CASE k = m + 1
      <4>1. g[k] = F[m + 1][p[m]] /\ g[k - 1] = p[m]
        BY <3>1
      <4>2. QED
        BY <3>1, <4>1
    <3>2. CASE k # m + 1
      <4>1. k \in 1 .. m /\ g[k] = p[k] /\ g[k - 1] = p[k - 1]
        BY <3>2
      <4>2. QED
        BY <2>1, <4>1 DEF Loop
    <3>3. QED
      BY <3>1, <3>2
  <2> HIDE DEF g
  <2>7. Loop(g, m + 1, s, F)
    BY <2>5, <2>6 DEF Loop
  <2>8. QED
    BY <2>4, <2>7
<1>3. \A m \in 0 .. n : m \in T
  <2> HIDE DEF T
  <2>1. QED
    BY <1>1, <1>2, Ascends
<1>4. QED
  BY <1>3

\* A number that decreases with every turn until it is 0 is 0 after as many turns.
LEMMA LoopEnds ==
  ASSUME NEW n \in Nat, NEW m \in [0 .. n -> Nat], m[0] <= n,
         \A k \in 1 .. n : m[k] < m[k - 1] \/ (m[k] = 0 /\ m[k - 1] = 0)
  PROVE  m[n] = 0
<1> DEFINE T == {k \in 0 .. n : m[k] + k <= n \/ m[k] = 0}
<1>1. 0 \in T
  OBVIOUS
<1>2. ASSUME NEW k \in 0 .. n - 1, k \in T
      PROVE  k + 1 \in T
  <2>1. /\ k + 1 \in 1 .. n /\ k + 1 \in 0 .. n /\ (k + 1) - 1 = k
        /\ m[k] \in Nat /\ m[k + 1] \in Nat
    OBVIOUS
  <2>2. m[k + 1] < m[k] \/ (m[k + 1] = 0 /\ m[k] = 0)
    BY <2>1
  <2>3. QED
    BY <1>2, <2>1, <2>2
<1>3. \A k \in 0 .. n : k \in T
  <2> HIDE DEF T
  <2>1. QED
    BY <1>1, <1>2, Ascends
<1>4. n \in T /\ m[n] \in Nat
  BY <1>3
<1>5. QED
  BY <1>4

-----------------------------------------------------------------------------
(* Sequences.                                                              *)

\* An item more at the end of the second of two sequences.
LEMMA ConcatAppend ==
  ASSUME NEW E, NEW s \in Seq(E), NEW t \in Seq(E), NEW x \in E
  PROVE  s \o Append(t, x) = Append(s \o t, x) /\ s \o t \in Seq(E) /\ Append(t, x) \in Seq(E)
OBVIOUS

\* The first items of a sequence, one by one.
LEMMA FirstItems ==
  ASSUME NEW E, NEW s \in Seq(E)
  PROVE  /\ SubSeq(s, 1, Len(s)) = s /\ SubSeq(s, 1, 0) = <<>>
         /\ \A k \in 0 .. Len(s) : SubSeq(s, 1, k) \in Seq(E)
         /\ \A k \in 0 .. Len(s) - 1 :
              SubSeq(s, 1, k + 1) = Append(SubSeq(s, 1, k), s[k + 1]) /\ s[k + 1] \in E
OBVIOUS

-----------------------------------------------------------------------------
(* The items of a sequence that are in a set.                              *)

\* How Chosen comes about.
Choosing(f, s, P) ==
  /\ f[0] = <<>>
  /\ \A k \in 1 .. Len(s) :
       f[k] = IF s[k] \in P THEN Append(f[k - 1], s[k]) ELSE f[k - 1]

\* Chosen is built item by item.
LEMMA ChosenIs ==
  ASSUME NEW E, NEW s \in Seq(E), NEW P
  PROVE  \E f \in [0 .. Len(s) -> Seq(E \cap P)] :
           Choosing(f, s, P) /\ Chosen(s, P) = f[Len(s)]
<1> DEFINE n == Len(s)
           Q == Seq(E \cap P)
           F == [k \in 1 .. n |-> [q \in Q |-> IF s[k] \in P THEN Append(q, s[k]) ELSE q]]
           Step(f) == [k \in 0 .. n |-> IF k = 0 THEN <<>>
                         ELSE IF s[k] \in P THEN Append(f[k - 1], s[k]) ELSE f[k - 1]]
<1>1. n \in Nat /\ <<>> \in Q
  OBVIOUS
<1>2. F \in [1 .. n -> [Q -> Q]]
  <2> SUFFICES ASSUME NEW q \in Q, NEW k \in 1 .. n
               PROVE  (IF s[k] \in P THEN Append(q, s[k]) ELSE q) \in Q
    OBVIOUS
  <2>1. s[k] \in P => s[k] \in E \cap P
    OBVIOUS
  <2>2. QED
    BY <2>1
<1>3. PICK p \in [0 .. n -> Q] : Loop(p, n, <<>>, F)
  <2> HIDE DEF F, Q, n
  <2>1. QED
    BY <1>1, <1>2, LoopRuns
<1>4. ASSUME NEW k \in 1 .. n
      PROVE  p[k] = IF s[k] \in P THEN Append(p[k - 1], s[k]) ELSE p[k - 1]
  <2>0. k - 1 \in 0 .. n
    BY <1>1
  <2>1. p[k - 1] \in Q /\ p[k] = F[k][p[k - 1]]
    <3> HIDE DEF F, Q, n
    <3>1. QED
      BY <1>3, <2>0 DEF Loop
  <2>2. F[k] = [q \in Q |-> IF s[k] \in P THEN Append(q, s[k]) ELSE q]
    OBVIOUS
  <2> HIDE DEF F, Q
  <2>3. QED
    BY <2>1, <2>2
<1>5. p[0] = <<>>
  BY <1>3 DEF Loop
<1>6. p = Step(p)
  <2>1. \A k \in 0 .. n : p[k] = Step(p)[k]
    <3>1. ASSUME NEW k \in 0 .. n, k # 0
          PROVE  k \in 1 .. n
      BY <1>1, <3>1
    <3> HIDE DEF Q
    <3>2. QED
      BY <1>4, <1>5, <3>1
  <2> HIDE DEF Q
  <2>2. QED
    BY <1>3, <2>1
<1>7. PICK f : f = Step(f) /\ Chosen(s, P) = f[n]
  <2> DEFINE f == CHOOSE g : g = Step(g)
  <2>1. f = Step(f)
    <3> HIDE DEF Step
    <3>1. QED
      BY <1>6
  <2>2. Chosen(s, P) = f[n]
    BY DEF Chosen
  <2> HIDE DEF f
  <2>3. QED
    BY <2>1, <2>2
<1>8. \A k \in 0 .. n : f[k] = IF k = 0 THEN <<>>
                         ELSE IF s[k] \in P THEN Append(f[k - 1], s[k]) ELSE f[k - 1]
  BY <1>7
<1> DEFINE T == {k \in 0 .. n : f[k] = p[k]}
<1>9. 0 \in T
  BY <1>1, <1>5, <1>8
<1>10. ASSUME NEW k \in 0 .. n - 1, k \in T
       PROVE  k + 1 \in T
  <2>1. k + 1 \in 1 .. n /\ k + 1 \in 0 .. n /\ (k + 1) - 1 = k /\ k + 1 # 0
    BY <1>1
  <2>2. QED
    BY <1>4, <1>8, <1>10, <2>1
<1>11. \A k \in 0 .. n : k \in T
  <2> HIDE DEF T
  <2>1. QED
    BY <1>1, <1>9, <1>10, Ascends
<1>12. p[n] = f[n]
  BY <1>1, <1>11
<1>13. Choosing(p, s, P)
  BY <1>4, <1>5 DEF Choosing
<1>14. QED
  BY <1>3, <1>7, <1>12, <1>13

\* One item more.
LEMMA ChosenAppend ==
  ASSUME NEW E, NEW s \in Seq(E), NEW x \in E, NEW P
  PROVE  Chosen(Append(s, x), P) = IF x \in P THEN Append(Chosen(s, P), x) ELSE Chosen(s, P)
<1>1. PICK t : t = Append(s, x)
  OBVIOUS
<1>2. /\ t \in Seq(E) /\ Len(t) = Len(s) + 1 /\ t[Len(s) + 1] = x /\ Len(s) \in Nat
      /\ \A k \in 1 .. Len(s) : t[k] = s[k]
  BY <1>1, AppendProperties
<1>3. PICK f \in [0 .. Len(s) -> Seq(E \cap P)] :
        Choosing(f, s, P) /\ Chosen(s, P) = f[Len(s)]
  BY ChosenIs
<1>4. PICK g \in [0 .. Len(t) -> Seq(E \cap P)] :
        Choosing(g, t, P) /\ Chosen(t, P) = g[Len(t)]
  BY <1>2, ChosenIs
<1> DEFINE n == Len(s)
           T == {k \in 0 .. n : f[k] = g[k]}
<1>5. 0 \in T
  BY <1>2, <1>3, <1>4 DEF Choosing
<1>6. ASSUME NEW k \in 0 .. n - 1, k \in T
      PROVE  k + 1 \in T
  <2>1. k + 1 \in 1 .. n /\ k + 1 \in 1 .. Len(t) /\ k + 1 \in 0 .. n /\ (k + 1) - 1 = k
    BY <1>2
  <2>2. QED
    <3>1. s[k + 1] = t[k + 1] /\ f[k] = g[k]
      BY <1>2, <1>6, <2>1
    <3>2. f[k + 1] = IF s[k + 1] \in P THEN Append(f[k], s[k + 1]) ELSE f[k]
      BY <1>3, <2>1 DEF Choosing
    <3>3. g[k + 1] = IF t[k + 1] \in P THEN Append(g[k], t[k + 1]) ELSE g[k]
      BY <1>4, <2>1 DEF Choosing
    <3>4. QED
      BY <2>1, <3>1, <3>2, <3>3
<1>7. \A k \in 0 .. n : k \in T
  <2> HIDE DEF T
  <2>1. QED
    BY <1>2, <1>5, <1>6, Ascends
<1>8. g[n] = f[n] /\ n + 1 \in 1 .. Len(t) /\ (n + 1) - 1 = n
  BY <1>2, <1>7
<1>9. g[n + 1] = IF x \in P THEN Append(g[n], x) ELSE g[n]
  BY <1>2, <1>4, <1>8 DEF Choosing
<1>10. QED
  BY <1>1, <1>2, <1>3, <1>4, <1>8, <1>9

\* Of nothing, nothing is chosen.
LEMMA ChosenEmpty ==
  ASSUME NEW P
  PROVE  Chosen(<<>>, P) = <<>>
<1>1. PICK f \in [0 .. Len(<<>>) -> Seq(P \cap P)] :
        Choosing(f, <<>>, P) /\ Chosen(<<>>, P) = f[Len(<<>>)]
  <2>1. <<>> \in Seq(P)
    OBVIOUS
  <2>2. QED
    BY <2>1, ChosenIs
<1>2. QED
  BY <1>1 DEF Choosing

\* A sequence of items of E that are in P is one of items of E.
LEMMA Wider ==
  ASSUME NEW E, NEW P, NEW s \in Seq(E \cap P)
  PROVE  s \in Seq(E)
OBVIOUS

\* What is chosen of a sequence of items of E.
LEMMA ChosenType ==
  ASSUME NEW E, NEW s \in Seq(E), NEW P
  PROVE  Chosen(s, P) \in Seq(E \cap P) /\ Chosen(s, P) \in Seq(E)
<1>1. PICK f \in [0 .. Len(s) -> Seq(E \cap P)] :
        Choosing(f, s, P) /\ Chosen(s, P) = f[Len(s)]
  BY ChosenIs
<1>2. Len(s) \in 0 .. Len(s)
  OBVIOUS
<1>3. Chosen(s, P) \in Seq(E \cap P)
  BY <1>1, <1>2
<1>4. QED
  BY <1>3, Wider

\* Of two sequences.
LEMMA ChosenConcat ==
  ASSUME NEW E, NEW s \in Seq(E), NEW t \in Seq(E), NEW P
  PROVE  Chosen(s \o t, P) = Chosen(s, P) \o Chosen(t, P)
<1> DEFINE n == Len(t)
           C(k) == SubSeq(t, 1, k)
           T == {k \in 0 .. n : Chosen(s \o C(k), P) = Chosen(s, P) \o Chosen(C(k), P)}
<1>1. n \in Nat
  OBVIOUS
<1>2. Chosen(s, P) \in Seq(E)
  BY ChosenType
<1>3. 0 \in T
  <2>1. C(0) = <<>>
    OBVIOUS
  <2>2. Chosen(<<>>, P) = <<>>
    BY ChosenEmpty
  <2>3. s \o <<>> = s /\ Chosen(s, P) \o <<>> = Chosen(s, P)
    BY <1>2
  <2>4. Chosen(s \o C(0), P) = Chosen(s, P) \o Chosen(C(0), P)
    BY <2>1, <2>2, <2>3, Zenon
  <2>5. 0 \in 0 .. n
    BY <1>1
  <2>6. QED
    BY <2>4, <2>5, Zenon
<1>4. ASSUME NEW k \in 0 .. n - 1, k \in T
      PROVE  k + 1 \in T
  <2>1. PICK u, x : u = C(k) /\ x = t[k + 1]
    OBVIOUS
  <2>2. u \in Seq(E) /\ x \in E /\ C(k + 1) = Append(u, x)
    BY <1>1, <2>1
  <2>3. s \o Append(u, x) = Append(s \o u, x) /\ s \o u \in Seq(E)
    BY <2>2
  <2>4. Chosen(u, P) \in Seq(E)
    BY <2>2, ChosenType
  <2>5. Chosen(s, P) \o Append(Chosen(u, P), x) = Append(Chosen(s, P) \o Chosen(u, P), x)
    BY <1>2, <2>2, <2>4
  <2>6. Chosen(s \o u, P) = Chosen(s, P) \o Chosen(u, P)
    BY <1>4, <2>1
  <2>7. Chosen(s \o C(k + 1), P) = Chosen(s, P) \o Chosen(C(k + 1), P)
    <3>1. Chosen(Append(u, x), P) = IF x \in P THEN Append(Chosen(u, P), x) ELSE Chosen(u, P)
      BY <2>2, ChosenAppend
    <3>4. PICK v : v = s \o u
      OBVIOUS
    <3>5. v \in Seq(E)
      BY <2>3, <3>4
    <3>6. Chosen(Append(v, x), P) = IF x \in P THEN Append(Chosen(v, P), x) ELSE Chosen(v, P)
      BY <2>2, <3>5, ChosenAppend
    <3>2. Chosen(s \o C(k + 1), P) = Chosen(Append(s \o u, x), P)
      BY <2>2, <2>3, Zenon
    <3>3. QED
      BY <2>2, <2>5, <2>6, <3>1, <3>2, <3>4, <3>6, Zenon
  <2>8. k + 1 \in 0 .. n
    BY <1>1
  <2>9. QED
    BY <2>7, <2>8
<1>5. \A k \in 0 .. n : k \in T
  <2> HIDE DEF T
  <2>1. QED
    BY <1>1, <1>3, <1>4, Ascends
<1>6. C(n) = t /\ n \in 0 .. n
  BY <1>1
<1>7. QED
  BY <1>5, <1>6

\* Nothing of it, and all of it.
LEMMA ChosenNone ==
  ASSUME NEW E, NEW s \in Seq(E), NEW P, \A i \in 1 .. Len(s) : s[i] \notin P
  PROVE  Chosen(s, P) = <<>>
<1>1. PICK f \in [0 .. Len(s) -> Seq(E \cap P)] :
        Choosing(f, s, P) /\ Chosen(s, P) = f[Len(s)]
  BY ChosenIs
<1> DEFINE n == Len(s)
           T == {k \in 0 .. n : f[k] = <<>>}
<1>2. n \in Nat /\ n \in 0 .. n
  OBVIOUS
<1>3. 0 \in T
  BY <1>1, <1>2 DEF Choosing
<1>4. ASSUME NEW k \in 0 .. n - 1, k \in T
      PROVE  k + 1 \in T
  <2>1. k + 1 \in 1 .. n /\ k + 1 \in 0 .. n /\ (k + 1) - 1 = k
    BY <1>2
  <2>2. QED
    BY <1>1, <1>4, <2>1 DEF Choosing
<1>5. \A k \in 0 .. n : k \in T
  <2> HIDE DEF T
  <2>1. QED
    BY <1>2, <1>3, <1>4, Ascends
<1>6. QED
  BY <1>1, <1>2, <1>5

\* A sequence of items of P is chosen whole.
LEMMA ChosenAll ==
  ASSUME NEW P, NEW s \in Seq(P)
  PROVE  Chosen(s, P) = s
<1> DEFINE n == Len(s)
           C(k) == SubSeq(s, 1, k)
           T == {k \in 0 .. n : Chosen(C(k), P) = C(k)}
<1>1. n \in Nat
  OBVIOUS
<1>2. 0 \in T
  <2>1. C(0) = <<>>
    OBVIOUS
  <2>2. Chosen(C(0), P) = C(0)
    BY <2>1, ChosenEmpty, Zenon
  <2>3. QED
    BY <1>1, <2>2
<1>3. ASSUME NEW k \in 0 .. n - 1, k \in T
      PROVE  k + 1 \in T
  <2>1. PICK u, x : u = C(k) /\ x = s[k + 1]
    OBVIOUS
  <2>2. u \in Seq(P) /\ x \in P /\ C(k + 1) = Append(u, x)
    BY <1>1, <2>1
  <2>3. Chosen(C(k + 1), P) = C(k + 1)
    <3>1. Chosen(Append(u, x), P) = Append(Chosen(u, P), x)
      BY <2>2, ChosenAppend
    <3>2. Chosen(u, P) = u
      BY <1>3, <2>1
    <3>3. QED
      BY <2>2, <3>1, <3>2, Zenon
  <2>4. k + 1 \in 0 .. n
    BY <1>1
  <2>5. QED
    BY <2>3, <2>4
<1>4. \A k \in 0 .. n : k \in T
  <2> HIDE DEF T
  <2>1. QED
    BY <1>1, <1>2, <1>3, Ascends
<1>5. C(n) = s /\ n \in 0 .. n
  BY <1>1
<1>6. QED
  BY <1>4, <1>5

-----------------------------------------------------------------------------
(* Where a session is after the notices of a sequence.                     *)

\* Where a session may be after some notices.
Ats == {"listening", "asked", "offered", "open", "ending", "over", "wrong"}

\* How AfterAll comes about.
Following(f, at, s) ==
  f[0] = at /\ \A k \in 1 .. Len(s) : f[k] = S!After(f[k - 1], s[k])

\* A notice takes a session to a place.
LEMMA AfterType ==
  ASSUME NEW at, NEW x
  PROVE  S!After(at, x) \in Ats
BY DEF S!After, Ats

\* AfterAll is built notice by notice.
LEMMA AfterAllIs ==
  ASSUME NEW s \in Seq(AnyNote), NEW at \in Ats
  PROVE  \E f \in [0 .. Len(s) -> Ats] : Following(f, at, s) /\ S!AfterAll(at, s) = f[Len(s)]
<1> DEFINE n == Len(s)
           F == [k \in 1 .. n |-> [a \in Ats |-> S!After(a, s[k])]]
           Step(f) == [k \in 0 .. n |-> IF k = 0 THEN at ELSE S!After(f[k - 1], s[k])]
<1>1. n \in Nat
  OBVIOUS
<1>2. F \in [1 .. n -> [Ats -> Ats]]
  BY AfterType
<1>3. PICK p \in [0 .. n -> Ats] : Loop(p, n, at, F)
  <2> HIDE DEF F, n, Ats
  <2>1. QED
    BY <1>1, <1>2, LoopRuns
<1>4. ASSUME NEW k \in 1 .. n
      PROVE  p[k] = S!After(p[k - 1], s[k])
  <2>0. k - 1 \in 0 .. n
    BY <1>1
  <2>1. p[k - 1] \in Ats /\ p[k] = F[k][p[k - 1]]
    <3> HIDE DEF F, n, Ats
    <3>1. QED
      BY <1>3, <2>0 DEF Loop
  <2>2. F[k] = [a \in Ats |-> S!After(a, s[k])]
    OBVIOUS
  <2> HIDE DEF F, Ats
  <2>3. QED
    BY <2>1, <2>2
<1>5. p[0] = at
  BY <1>3 DEF Loop
<1>6. p = Step(p)
  <2>1. \A k \in 0 .. n : p[k] = Step(p)[k]
    <3>1. ASSUME NEW k \in 0 .. n, k # 0
          PROVE  k \in 1 .. n
      BY <1>1, <3>1
    <3>2. QED
      BY <1>4, <1>5, <3>1
  <2>2. QED
    BY <1>3, <2>1
<1>7. PICK f : f = Step(f) /\ S!AfterAll(at, s) = f[n]
  <2> DEFINE f == CHOOSE g : g = Step(g)
  <2>1. f = Step(f)
    <3> HIDE DEF Step
    <3>1. QED
      BY <1>6
  <2>2. S!AfterAll(at, s) = f[n]
    BY DEF S!AfterAll
  <2> HIDE DEF f
  <2>3. QED
    BY <2>1, <2>2
<1>8. \A k \in 0 .. n : f[k] = IF k = 0 THEN at ELSE S!After(f[k - 1], s[k])
  BY <1>7
<1> DEFINE T == {k \in 0 .. n : f[k] = p[k]}
<1>9. 0 \in T
  BY <1>1, <1>5, <1>8
<1>10. ASSUME NEW k \in 0 .. n - 1, k \in T
       PROVE  k + 1 \in T
  <2>1. k + 1 \in 1 .. n /\ k + 1 \in 0 .. n /\ (k + 1) - 1 = k /\ k + 1 # 0
    BY <1>1
  <2>2. QED
    BY <1>4, <1>8, <1>10, <2>1
<1>11. \A k \in 0 .. n : k \in T
  <2> HIDE DEF T
  <2>1. QED
    BY <1>1, <1>9, <1>10, Ascends
<1>12. p[n] = f[n]
  BY <1>1, <1>11
<1>13. Following(p, at, s)
  BY <1>4, <1>5 DEF Following
<1>14. QED
  BY <1>3, <1>7, <1>12, <1>13

\* Any notices take a session to a place.
LEMMA AfterAllType ==
  ASSUME NEW s \in Seq(AnyNote), NEW at \in Ats
  PROVE  S!AfterAll(at, s) \in Ats
<1>1. PICK f \in [0 .. Len(s) -> Ats] :
        Following(f, at, s) /\ S!AfterAll(at, s) = f[Len(s)]
  BY AfterAllIs
<1>2. Len(s) \in 0 .. Len(s)
  OBVIOUS
<1>3. QED
  BY <1>1, <1>2

\* No notice, no change.
LEMMA AfterNothing ==
  ASSUME NEW at \in Ats
  PROVE  S!AfterAll(at, <<>>) = at
<1>1. PICK s : s = <<>>
  OBVIOUS
<1>2. s \in Seq(AnyNote) /\ Len(s) = 0
  BY <1>1
<1>3. PICK f \in [0 .. Len(s) -> Ats] :
        Following(f, at, s) /\ S!AfterAll(at, s) = f[Len(s)]
  BY <1>2, AfterAllIs
<1>4. S!AfterAll(at, s) = at
  BY <1>2, <1>3 DEF Following
<1>5. QED
  BY <1>1, <1>4, Zenon

\* One notice more.
LEMMA AfterAppend ==
  ASSUME NEW s \in Seq(AnyNote), NEW at \in Ats, NEW x \in AnyNote
  PROVE  S!AfterAll(at, Append(s, x)) = S!After(S!AfterAll(at, s), x)
<1>1. PICK t : t = Append(s, x)
  OBVIOUS
<1>2. /\ t \in Seq(AnyNote) /\ Len(t) = Len(s) + 1 /\ t[Len(s) + 1] = x /\ Len(s) \in Nat
      /\ \A k \in 1 .. Len(s) : t[k] = s[k]
  BY <1>1, AppendProperties
<1>3. PICK f \in [0 .. Len(s) -> Ats] :
        Following(f, at, s) /\ S!AfterAll(at, s) = f[Len(s)]
  BY AfterAllIs
<1>4. PICK g \in [0 .. Len(t) -> Ats] :
        Following(g, at, t) /\ S!AfterAll(at, t) = g[Len(t)]
  BY <1>2, AfterAllIs
<1> DEFINE n == Len(s)
           T == {k \in 0 .. n : f[k] = g[k]}
<1>5. 0 \in T
  BY <1>2, <1>3, <1>4 DEF Following
<1>6. ASSUME NEW k \in 0 .. n - 1, k \in T
      PROVE  k + 1 \in T
  <2>1. k + 1 \in 1 .. n /\ k + 1 \in 1 .. Len(t) /\ k + 1 \in 0 .. n /\ (k + 1) - 1 = k
    BY <1>2
  <2>2. s[k + 1] = t[k + 1] /\ f[k] = g[k]
    BY <1>2, <1>6, <2>1
  <2>3. f[k + 1] = S!After(f[k], s[k + 1])
    BY <1>3, <2>1 DEF Following
  <2>4. g[k + 1] = S!After(g[k], t[k + 1])
    BY <1>4, <2>1 DEF Following
  <2>5. QED
    BY <2>1, <2>2, <2>3, <2>4
<1>7. \A k \in 0 .. n : k \in T
  <2> HIDE DEF T
  <2>1. QED
    BY <1>2, <1>5, <1>6, Ascends
<1>8. g[n] = f[n] /\ n + 1 \in 1 .. Len(t) /\ (n + 1) - 1 = n
  BY <1>2, <1>7
<1>9. g[n + 1] = S!After(g[n], t[n + 1])
  BY <1>4, <1>8 DEF Following
<1>10. S!AfterAll(at, t) = S!After(S!AfterAll(at, s), x)
  BY <1>2, <1>3, <1>4, <1>8, <1>9
<1>11. QED
  BY <1>1, <1>10, Zenon

-----------------------------------------------------------------------------
(* What a handler tells.                                                   *)

\* From c to d the owner was told of something that takes its session to "at".
Tells(c, d, at) ==
  \E new \in Seq(AnyNote) : d.told = c.told \o new /\ S!AfterAll(Phase(c), new) = at

\* The phase of a connection is a place of a session.
LEMMA PhaseType ==
  ASSUME NEW c, c.st \in States
  PROVE  Phase(c) \in {"listening", "asked", "offered", "open", "over"} /\ Phase(c) \in Ats
BY DEF Phase, States, Ats

\* No notice leaves the session where it is.
LEMMA TellsNothing ==
  ASSUME NEW c, NEW d, c.st \in States, c.told \in Seq(AnyNote), d.told = c.told
  PROVE  Tells(c, d, Phase(c))
<1>1. PICK new : new = <<>>
  OBVIOUS
<1>2. new \in Seq(AnyNote) /\ c.told \o new = c.told
  BY <1>1
<1>3. S!AfterAll(Phase(c), new) = Phase(c)
  BY <1>1, AfterNothing, PhaseType, Zenon
<1>4. QED
  BY <1>2, <1>3 DEF Tells

\* One notice more takes it where that notice does.
LEMMA TellsMore ==
  ASSUME NEW c, NEW d, NEW e, NEW at, NEW x \in AnyNote, c.st \in States,
         c.told \in Seq(AnyNote), Tells(c, d, at), e.told = Append(d.told, x)
  PROVE  Tells(c, e, S!After(at, x))
<1>1. PICK new \in Seq(AnyNote) : d.told = c.told \o new /\ S!AfterAll(Phase(c), new) = at
  BY DEF Tells
<1>2. PICK more : more = Append(new, x)
  OBVIOUS
<1>3. more \in Seq(AnyNote) /\ e.told = c.told \o more
  <2>0. PICK b \in Seq(AnyNote) : b = c.told
    OBVIOUS
  <2>1. Append(new, x) \in Seq(AnyNote) /\ b \o Append(new, x) = Append(b \o new, x)
    BY ConcatAppend
  <2>2. QED
    BY <1>1, <1>2, <2>0, <2>1, Zenon
<1>4. S!AfterAll(Phase(c), more) = S!After(at, x)
  BY <1>1, <1>2, AfterAppend, PhaseType
<1>5. QED
  BY <1>3, <1>4 DEF Tells

\* Any number of unreachable packages.
LEMMA TellsUnreachable ==
  ASSUME NEW c, NEW d, NEW e, NEW u \in Seq(AnyNote), c.st \in States,
         c.told \in Seq(AnyNote), Tells(c, d, "open"), e.told = d.told \o u,
         \A i \in 1 .. Len(u) : u[i].t = "UNREACH"
  PROVE  \E at \in {"open", "ending"} : Tells(c, e, at)
<1> DEFINE n == Len(u)
           Upto(k) == [told |-> d.told \o SubSeq(u, 1, k)]
           T == {k \in 0 .. n : \E at \in {"open", "ending"} : Tells(c, Upto(k), at)}
<1>0. d.told \in Seq(AnyNote)
  BY DEF Tells
<1>1. n \in Nat
  OBVIOUS
<1>2. 0 \in T
  <2>1. Upto(0).told = d.told
    BY <1>0
  <2>2. Tells(c, Upto(0), "open")
    BY <2>1 DEF Tells
  <2>3. 0 \in 0 .. n
    BY <1>1
  <2>4. QED
    BY <2>2, <2>3
<1>3. ASSUME NEW k \in 0 .. n - 1, k \in T
      PROVE  k + 1 \in T
  <2>1. PICK at \in {"open", "ending"} : Tells(c, Upto(k), at)
    BY <1>3
  <2>2. u[k + 1] \in AnyNote /\ u[k + 1].t = "UNREACH" /\ k + 1 \in 0 .. n
    BY <1>1
  <2>3. SubSeq(u, 1, k + 1) = Append(SubSeq(u, 1, k), u[k + 1])
    BY <1>1
  <2>4. SubSeq(u, 1, k) \in Seq(AnyNote)
    BY <1>1
  <2>5. Upto(k + 1).told = Append(Upto(k).told, u[k + 1])
    <3>0. PICK b, v, x : b = d.told /\ v = SubSeq(u, 1, k) /\ x = u[k + 1]
      OBVIOUS
    <3>1. b \in Seq(AnyNote) /\ v \in Seq(AnyNote) /\ x \in AnyNote
      BY <1>0, <2>2, <2>4, <3>0
    <3>2. b \o Append(v, x) = Append(b \o v, x)
      BY <3>1, ConcatAppend
    <3>3. QED
      BY <2>3, <3>0, <3>2, Zenon
  <2>6. S!After(at, u[k + 1]) = "ending"
    BY <2>1, <2>2 DEF S!After
  <2> HIDE DEF Upto
  <2>7. Tells(c, Upto(k + 1), "ending")
    BY <2>1, <2>2, <2>5, <2>6, TellsMore
  <2>8. QED
    BY <2>2, <2>7
<1>4. \A k \in 0 .. n : k \in T
  <2> HIDE DEF T
  <2>1. QED
    BY <1>1, <1>2, <1>3, Ascends
<1>5. Upto(n).told = e.told
  <2>1. SubSeq(u, 1, n) = u
    OBVIOUS
  <2>2. Upto(n).told = d.told \o SubSeq(u, 1, n)
    OBVIOUS
  <2>3. QED
    BY <2>1, <2>2, Zenon
<1>6. PICK at \in {"open", "ending"} : Tells(c, Upto(n), at)
  <2>1. n \in 0 .. n
    BY <1>1
  <2> HIDE DEF n, Upto
  <2>2. QED
    BY <2>1, <1>4
<1>7. Tells(c, e, at)
  BY <1>5, <1>6 DEF Tells
<1>8. QED
  BY <1>7

-----------------------------------------------------------------------------
(* The numbers of a sequence of units or notices.                          *)

\* The numbers, with an item more.
LEMMA NumbersAppend ==
  ASSUME NEW E, NEW s \in Seq(E), NEW x \in E
  PROVE  Numbers(Append(s, x)) = Append(Numbers(s), x.n)
BY DEF Numbers

\* A function on 1 .. n is a sequence.
LEMMA IsSequence ==
  ASSUME NEW n \in Nat, NEW f, DOMAIN f = 1 .. n, f = [i \in 1 .. n |-> f[i]], NEW Q,
         \A i \in 1 .. n : f[i] \in Q
  PROVE  f \in Seq(Q) /\ Len(f) = n
OBVIOUS

\* The numbers of two sequences, joined.
LEMMA NumbersConcat ==
  ASSUME NEW E, NEW s \in Seq(E), NEW t \in Seq(E)
  PROVE  Numbers(s \o t) = Numbers(s) \o Numbers(t)
<1>1. PICK a, b, u : a = Numbers(s) /\ b = Numbers(t) /\ u = s \o t
  OBVIOUS
<1>2. /\ Len(s) \in Nat /\ DOMAIN s = 1 .. Len(s) /\ Len(t) \in Nat /\ DOMAIN t = 1 .. Len(t)
      /\ u \in Seq(E) /\ Len(u) = Len(s) + Len(t) /\ DOMAIN u = 1 .. Len(s) + Len(t)
      /\ \A i \in 1 .. Len(u) : u[i] = IF i <= Len(s) THEN s[i] ELSE t[i - Len(s)]
  BY <1>1
<1>3. a = [i \in 1 .. Len(s) |-> s[i].n] /\ b = [i \in 1 .. Len(t) |-> t[i].n]
  BY <1>1, <1>2 DEF Numbers
<1> DEFINE Q == {s[i].n : i \in 1 .. Len(s)} \cup {t[i].n : i \in 1 .. Len(t)}
<1>4. a \in Seq(Q) /\ b \in Seq(Q) /\ Len(a) = Len(s) /\ Len(b) = Len(t)
  <2>1. \A i \in 1 .. Len(s) : a[i] \in Q
    BY <1>3
  <2>2. \A i \in 1 .. Len(t) : b[i] \in Q
    BY <1>3
  <2>3. DOMAIN a = 1 .. Len(s) /\ DOMAIN b = 1 .. Len(t)
    BY <1>3
  <2>4. a = [i \in 1 .. Len(s) |-> a[i]] /\ b = [i \in 1 .. Len(t) |-> b[i]]
    BY <1>3
  <2> HIDE DEF Q
  <2>5. QED
    BY <1>2, <2>1, <2>2, <2>3, <2>4, IsSequence
<1> HIDE DEF Q
<1>5. /\ DOMAIN (a \o b) = 1 .. Len(s) + Len(t)
      /\ \A i \in 1 .. Len(u) : (a \o b)[i] = IF i <= Len(s) THEN a[i] ELSE b[i - Len(s)]
      /\ a \o b = [i \in 1 .. Len(s) + Len(t) |-> (a \o b)[i]]
  <2>1. PICK w : w = a \o b
    OBVIOUS
  <2>2. w \in Seq(Q) /\ Len(w) = Len(s) + Len(t)
    <3>1. a \o b \in Seq(Q) /\ Len(a \o b) = Len(a) + Len(b)
      BY <1>4, ConcatProperties
    <3>2. QED
      BY <1>4, <2>1, <3>1
  <2>3. \A i \in 1 .. Len(s) + Len(t) : w[i] = IF i <= Len(s) THEN a[i] ELSE b[i - Len(s)]
    BY <1>2, <1>4, <2>1
  <2>4. DOMAIN w = 1 .. Len(s) + Len(t) /\ w = [i \in 1 .. Len(s) + Len(t) |-> w[i]]
    BY <2>2
  <2>5. QED
    BY <1>2, <2>1, <2>3, <2>4, Zenon
<1>6. Numbers(u) = [i \in 1 .. Len(s) + Len(t) |-> u[i].n]
  BY <1>2 DEF Numbers
<1>7. ASSUME NEW i \in 1 .. Len(s) + Len(t)
      PROVE  u[i].n = (a \o b)[i]
  <2>1. i > Len(s) => i - Len(s) \in 1 .. Len(t)
    BY <1>2
  <2>2. i <= Len(s) => i \in 1 .. Len(s)
    BY <1>2
  <2>3. QED
    BY <1>2, <1>3, <1>5, <2>1, <2>2
<1>8. Numbers(u) = a \o b
  BY <1>5, <1>6, <1>7
<1>9. QED
  BY <1>1, <1>8, Zenon

\* The numbers of nothing.
LEMMA NumbersEmpty == Numbers(<<>>) = <<>>
BY DEF Numbers

\* The numbers of a sequence, one for each item.
LEMMA NumbersType ==
  ASSUME NEW E, NEW s \in Seq(E), \A e \in E : e.n \in Nat
  PROVE  Numbers(s) \in Seq(Nat) /\ Len(Numbers(s)) = Len(s)
BY DEF Numbers

\* The number of one item.
LEMMA NumbersOne ==
  ASSUME NEW x
  PROVE  Numbers(<<x>>) = <<x.n>>
BY DEF Numbers

\* A sequence begins what it is joined to.
LEMMA PrefixOf ==
  ASSUME NEW E, NEW s \in Seq(E), NEW t \in Seq(E)
  PROVE  IsPrefix(s, s \o t)
BY DEF IsPrefix

\* Joining is associative.
LEMMA ConcatAssoc ==
  ASSUME NEW E, NEW s \in Seq(E), NEW t \in Seq(E), NEW u \in Seq(E)
  PROVE  (s \o t) \o u = s \o (t \o u)
OBVIOUS

\* Joining nothing changes nothing.
LEMMA ConcatEmpty ==
  ASSUME NEW E, NEW s \in Seq(E)
  PROVE  s \o <<>> = s /\ <<>> \o s = s
OBVIOUS

-----------------------------------------------------------------------------
(* Told and Got.                                                           *)

\* The notices of a kind.
NotesOf(t) == [t : {t}, n : Nat]

\* A notice of another kind changes nothing.
LEMMA ToldOther ==
  ASSUME NEW c, NEW d, NEW t, NEW x \in AnyNote, c.told \in Seq(AnyNote),
         d.told = Append(c.told, x), x.t # t
  PROVE  Told(d, t) = Told(c, t)
<1>1. x \notin NotesOf(t)
  BY DEF NotesOf
<1>2. Chosen(Append(c.told, x), NotesOf(t))
        = IF x \in NotesOf(t) THEN Append(Chosen(c.told, NotesOf(t)), x) ELSE Chosen(c.told, NotesOf(t))
  <2>1. PICK s \in Seq(AnyNote) : s = c.told
    OBVIOUS
  <2>2. \A P : Chosen(Append(s, x), P) = IF x \in P THEN Append(Chosen(s, P), x) ELSE Chosen(s, P)
    BY ChosenAppend
  <2>3. QED
    BY <2>1, <2>2, Zenon
<1>3. QED
  BY <1>1, <1>2, Zenon DEF Told, NotesOf

\* A notice of the kind is one more.
LEMMA ToldSame ==
  ASSUME NEW c, NEW d, NEW t, NEW x \in AnyNote, c.told \in Seq(AnyNote),
         d.told = Append(c.told, x), x.t = t
  PROVE  Told(d, t) = Append(Told(c, t), x)
<1>1. x \in NotesOf(t)
  BY DEF NotesOf, AnyNote
<1>2. Chosen(Append(c.told, x), NotesOf(t))
        = IF x \in NotesOf(t) THEN Append(Chosen(c.told, NotesOf(t)), x) ELSE Chosen(c.told, NotesOf(t))
  <2>1. PICK s \in Seq(AnyNote) : s = c.told
    OBVIOUS
  <2>2. \A P : Chosen(Append(s, x), P) = IF x \in P THEN Append(Chosen(s, P), x) ELSE Chosen(s, P)
    BY ChosenAppend
  <2>3. QED
    BY <2>1, <2>2, Zenon
<1>3. QED
  BY <1>1, <1>2, Zenon DEF Told, NotesOf

\* One package more, and a notice that is neither a package nor unreachable.
LEMMA GotMore ==
  ASSUME NEW c, NEW d, NEW x \in AnyNote, x.t = "RECV", c.told \in Seq(AnyNote),
         d.told = Append(c.told, x)
  PROVE  Got(d) = Append(Got(c), x) /\ Told(d, "UNREACH") = Told(c, "UNREACH")
<1>1. PICK t, u : t = "RECV" /\ u = "UNREACH"
  OBVIOUS
<1>2. x.t = t /\ x.t # u
  BY <1>1
<1> HIDE <1>1
<1>3. Told(d, t) = Append(Told(c, t), x) /\ Told(d, u) = Told(c, u)
  BY <1>2, ToldSame, ToldOther, SMTT(30)
<1>4. QED
  BY <1>1, <1>3, Zenon DEF Got

\* Neither a package nor an unreachable one.
LEMMA GotSame ==
  ASSUME NEW c, NEW d, NEW x \in AnyNote, x.t \notin {"RECV", "UNREACH"},
         c.told \in Seq(AnyNote), d.told = Append(c.told, x)
  PROVE  Got(d) = Got(c) /\ Told(d, "UNREACH") = Told(c, "UNREACH")
<1>1. PICK t, u : t = "RECV" /\ u = "UNREACH"
  OBVIOUS
<1>2. x.t # t /\ x.t # u
  BY <1>1
<1> HIDE <1>1
<1>3. Told(d, t) = Told(c, t) /\ Told(d, u) = Told(c, u)
  BY <1>2, ToldOther
<1>4. QED
  BY <1>1, <1>3, Zenon DEF Got

\* The notices of a kind are notices, and have numbers.
LEMMA ToldType ==
  ASSUME NEW c, NEW t, c.told \in Seq(AnyNote)
  PROVE  /\ Told(c, t) \in Seq(AnyNote)
         /\ Numbers(Told(c, t)) \in Seq(Nat) /\ Len(Numbers(Told(c, t))) = Len(Told(c, t))
<1>1. PICK s \in Seq(AnyNote) : s = c.told
  OBVIOUS
<1>2. \A P : Chosen(s, P) \in Seq(AnyNote)
  BY ChosenType
<1>3. Told(c, t) \in Seq(AnyNote)
  BY <1>1, <1>2, Zenon DEF Told
<1>4. PICK r \in Seq(AnyNote) : r = Told(c, t)
  BY <1>3
<1>5. Numbers(r) \in Seq(Nat) /\ Len(Numbers(r)) = Len(r)
  <2>1. \A e \in AnyNote : e.n \in Nat
    BY DEF AnyNote
  <2>2. QED
    BY <2>1, NumbersType
<1>6. QED
  BY <1>3, <1>4, <1>5, Zenon

\* Of an owner that was told nothing.
LEMMA ToldNothing ==
  ASSUME NEW c, NEW t, c.told = <<>>
  PROVE  Told(c, t) = <<>>
BY ChosenEmpty, Zenon DEF Told

\* Of a sequence that is in a set, and of one that is not.
LEMMA ChosenIn ==
  ASSUME NEW E, NEW s \in Seq(E), NEW P, \A i \in 1 .. Len(s) : s[i] \in P
  PROVE  Chosen(s, P) = s
<1>1. s \in Seq(P)
  OBVIOUS
<1>2. QED
  BY <1>1, ChosenAll

\* The notices of unreachable packages.
LEMMA ToldUnreachable ==
  ASSUME NEW c, NEW d, c.told \in Seq(AnyNote), c.wbl \in Seq(Nat),
         Told(c, "UNREACH") = <<>>, d.told = TellUnreachable(c).told,
         "told" \in DOMAIN c
  PROVE  /\ \E u \in Seq(AnyNote) :
              d.told = c.told \o u /\ \A i \in 1 .. Len(u) : u[i].t = "UNREACH"
         /\ d.told \in Seq(AnyNote)
         /\ Got(d) = Got(c)
         /\ Numbers(Told(d, "UNREACH")) = Owned(c.wbl)
<1>1. PICK owned : owned = Owned(c.wbl)
  OBVIOUS
<1>2. owned \in Seq(Nat)
  BY <1>1, ChosenType DEF Owned
<1>3. PICK u : u = [i \in DOMAIN owned |-> Note("UNREACH", owned[i])]
  OBVIOUS
<1>4. /\ u \in Seq(AnyNote) /\ Len(u) = Len(owned)
      /\ \A i \in 1 .. Len(u) : u[i] = Note("UNREACH", owned[i]) /\ u[i].t = "UNREACH"
  <2>1. DOMAIN owned = 1 .. Len(owned) /\ \A i \in 1 .. Len(owned) : owned[i] \in Nat
    BY <1>2
  <2>2. u = [i \in 1 .. Len(owned) |-> Note("UNREACH", owned[i])]
    BY <1>3, <2>1
  <2>3. ASSUME NEW i \in 1 .. Len(owned)
        PROVE  Note("UNREACH", owned[i]) \in AnyNote /\ Note("UNREACH", owned[i]).t = "UNREACH"
    BY <2>1 DEF Note, AnyNote, Notices
  <2>4. Len(owned) \in Nat
    BY <1>2
  <2>5. u \in Seq(AnyNote) /\ Len(u) = Len(owned)
    BY <2>2, <2>3, <2>4
  <2>6. QED
    BY <2>2, <2>3, <2>5
<1>5. d.told = c.told \o u
  <2>1. TellUnreachable(c) = [c EXCEPT !.told = @ \o u]
    BY <1>1, <1>3 DEF TellUnreachable, Owned
  <2>2. QED
    BY <2>1
<1>6. PICK s \in Seq(AnyNote) : s = c.told
  OBVIOUS
<1>7. \A P : Chosen(s \o u, P) = Chosen(s, P) \o Chosen(u, P)
  BY <1>4, ChosenConcat
<1>8. Got(d) = Got(c)
  <2>1. \A i \in 1 .. Len(u) : u[i] \notin NotesOf("RECV")
    BY <1>4 DEF NotesOf
  <2>2. Chosen(u, NotesOf("RECV")) = <<>>
    BY <1>4, <2>1, ChosenNone
  <2>3. Chosen(s, NotesOf("RECV")) \in Seq(AnyNote)
    BY ChosenType
  <2>4. Chosen(s, NotesOf("RECV")) \o <<>> = Chosen(s, NotesOf("RECV"))
    BY <2>3, ConcatEmpty
  <2>5. Chosen(d.told, NotesOf("RECV")) = Chosen(c.told, NotesOf("RECV"))
    BY <1>5, <1>6, <1>7, <2>2, <2>4, Zenon
  <2>6. QED
    BY <2>5, Zenon DEF Got, Told, NotesOf
<1>9. Told(d, "UNREACH") = u
  <2>1. \A i \in 1 .. Len(u) : u[i] \in NotesOf("UNREACH")
    <3>1. ASSUME NEW i \in 1 .. Len(u)
          PROVE  u[i] \in NotesOf("UNREACH")
      <4>1. owned[i] \in Nat /\ u[i] = Note("UNREACH", owned[i])
        BY <1>2, <1>4
      <4>2. QED
        BY <4>1 DEF NotesOf, Note
    <3>2. QED
      BY <3>1
  <2>2. Chosen(u, NotesOf("UNREACH")) = u
    BY <1>4, <2>1, ChosenIn
  <2>3. Chosen(s, NotesOf("UNREACH")) = <<>>
    BY <1>6, Zenon DEF Told, NotesOf
  <2>4. <<>> \o u = u
    BY <1>4, ConcatEmpty
  <2>5. Chosen(d.told, NotesOf("UNREACH")) = u
    BY <1>5, <1>6, <1>7, <2>2, <2>3, <2>4, Zenon
  <2>6. QED
    BY <2>5, Zenon DEF Told, NotesOf
<1>10. Numbers(u) = owned
  <2>1. DOMAIN u = 1 .. Len(owned) /\ owned = [i \in 1 .. Len(owned) |-> owned[i]]
    BY <1>2, <1>4
  <2>2. \A i \in 1 .. Len(owned) : u[i].n = owned[i]
    <3>1. \A k : Note("UNREACH", k).n = k
      BY DEF Note
    <3>2. QED
      BY <1>4, <3>1, Zenon
  <2>3. QED
    BY <2>1, <2>2 DEF Numbers
<1>11. d.told \in Seq(AnyNote)
  BY <1>4, <1>5
<1>12. QED
  BY <1>1, <1>4, <1>5, <1>8, <1>9, <1>10, <1>11

-----------------------------------------------------------------------------
(* A package in two units.                                                 *)

\* Of a head and a body, only the body can be chosen.
LEMMA ChosenTwo ==
  ASSUME NEW E, NEW a \in E, NEW b \in E, NEW P, a \notin P
  PROVE  Chosen(<<a, b>>, P) = IF b \in P THEN <<b>> ELSE <<>>
<1>1. PICK e, one : e = <<>> /\ one = Append(e, a)
  OBVIOUS
<1>2. e \in Seq(E) /\ one \in Seq(E) /\ <<a, b>> = Append(one, b) /\ Append(e, b) = <<b>>
  BY <1>1
<1>3. Chosen(e, P) = e
  BY <1>1, ChosenEmpty, Zenon
<1>4. Chosen(one, P) = e
  <2>1. Chosen(Append(e, a), P) = Chosen(e, P)
    BY <1>2, ChosenAppend
  <2>2. QED
    BY <1>1, <1>3, <2>1, Zenon
<1>5. Chosen(Append(one, b), P) = IF b \in P THEN Append(Chosen(one, P), b) ELSE Chosen(one, P)
  BY <1>2, ChosenAppend
<1>6. QED
  BY <1>1, <1>2, <1>4, <1>5, Zenon

\* What is behind the first package.
Rest(r) == SubSeq(r, 3, Len(r))

\* A package in front of a buffer, and the rest of it.
LEMMA Behind ==
  ASSUME NEW E, NEW r \in Seq(E), Len(r) >= 2
  PROVE  /\ Rest(r) \in Seq(E) /\ Len(Rest(r)) = Len(r) - 2
         /\ \A i \in 1 .. Len(Rest(r)) : Rest(r)[i] = r[i + 2]
         /\ r = <<r[1], r[2]>> \o Rest(r)
<1>1. Len(r) \in Nat
  OBVIOUS
<1>2. /\ SubSeq(r, 3, Len(r)) \in Seq(E)
      /\ Len(SubSeq(r, 3, Len(r))) = IF 3 <= Len(r) THEN Len(r) - 3 + 1 ELSE 0
      /\ \A i \in 1 .. Len(r) - 3 + 1 : SubSeq(r, 3, Len(r))[i] = r[3 + i - 1]
  BY <1>1, SubSeqProperties
<1>3. PICK q : q = Rest(r)
  OBVIOUS
<1>4. q \in Seq(E) /\ \A i \in 1 .. Len(r) - 3 + 1 : q[i] = r[3 + i - 1]
  BY <1>2, <1>3, Zenon DEF Rest
<1>5. Len(q) = Len(r) - 2
  <2>1. Len(q) = IF 3 <= Len(r) THEN Len(r) - 3 + 1 ELSE 0
    BY <1>2, <1>3, Zenon DEF Rest
  <2>2. QED
    BY <1>1, <2>1, SMTT(30)
<1>6. ASSUME NEW i \in 1 .. Len(r) - 2
      PROVE  q[i] = r[i + 2]
  <2>1. i \in 1 .. Len(r) - 3 + 1 /\ 3 + i - 1 = i + 2
    BY <1>1
  <2>2. q[3 + i - 1 - 2] = r[3 + i - 1]
    BY <1>4, <2>1
  <2>3. QED
    BY <2>1, <2>2
<1>7. r = <<r[1], r[2]>> \o q
  <2>1. PICK h : h = <<r[1], r[2]>>
    OBVIOUS
  <2>2. /\ h \in Seq(E) /\ Len(h) = 2 /\ h[1] = r[1] /\ h[2] = r[2]
    BY <1>1, <2>1
  <2>3. PICK w : w = h \o q
    OBVIOUS
  <2>33. /\ h \o q \in Seq(E) /\ Len(h \o q) = Len(h) + Len(q)
         /\ \A i \in 1 .. Len(h) + Len(q) :
              (h \o q)[i] = IF i <= Len(h) THEN h[i] ELSE q[i - Len(h)]
    BY <1>4, <2>2, ConcatProperties
  <2>34. /\ w \in Seq(E) /\ Len(w) = Len(h) + Len(q)
         /\ \A i \in 1 .. Len(h) + Len(q) : w[i] = IF i <= Len(h) THEN h[i] ELSE q[i - Len(h)]
    BY <2>3, <2>33, Zenon
  <2>4. w \in Seq(E) /\ Len(w) = Len(r)
    BY <1>1, <1>5, <2>2, <2>34
  <2>5. ASSUME NEW i \in 1 .. Len(r)
        PROVE  w[i] = r[i]
    <3>1. CASE i <= 2
      BY <1>1, <1>5, <2>2, <2>34, <3>1
    <3>2. CASE i > 2
      <4>1. w[i] = q[i - 2] /\ i - 2 \in 1 .. Len(r) - 2 /\ (i - 2) + 2 = i
        BY <1>1, <1>5, <2>2, <2>34, <3>2
      <4>2. QED
        BY <1>6, <4>1
    <3>3. QED
      BY <1>1, <3>1, <3>2
  <2>6. w = r
    BY <1>1, <2>4, <2>5
  <2>7. QED
    BY <2>1, <2>3, <2>6, Zenon
<1>8. QED
  BY <1>3, <1>4, <1>5, <1>6, <1>7, Zenon

\* Without its first package a buffer still holds packages in two units.
LEMMA HeadOff ==
  ASSUME NEW r \in Seq(Unit), Paired(r), Len(r) >= 2, NEW q, q = Rest(r)
  PROVE  /\ q \in Seq(Unit) /\ Len(q) = Len(r) - 2 /\ Paired(q)
         /\ \A i \in 1 .. Len(q) : q[i] = r[i + 2]
         /\ r[1] \in Unit /\ r[2] \in Unit /\ r[1].part = 1 /\ r[2].part = 2
         /\ r[2].n = r[1].n /\ r[2].kind = r[1].kind
<1>1. /\ q \in Seq(Unit) /\ Len(q) = Len(r) - 2 /\ Len(r) \in Nat /\ Len(q) \in Nat
      /\ \A i \in 1 .. Len(q) : q[i] = r[i + 2]
      /\ r[1] \in Unit /\ r[2] \in Unit /\ r # <<>>
  <2>1. Len(r) \in Nat /\ r[1] \in Unit /\ r[2] \in Unit /\ r # <<>>
    OBVIOUS
  <2>2. q \in Seq(Unit) /\ Len(q) = Len(r) - 2 /\ \A i \in 1 .. Len(q) : q[i] = r[i + 2]
    BY Behind
  <2>3. Len(q) \in Nat
    BY <2>2
  <2>5. QED
    BY <2>1, <2>2, <2>3
<1>2. 1 \in 1 .. Len(r) - 1 /\ r[1].part = 1
  BY <1>1 DEF Paired
<1>3. r[2].part = 2 /\ r[2].n = r[1].n /\ r[2].kind = r[1].kind
  BY <1>2 DEF Paired
<1>4. q # <<>> => q[1].part = 1
  <2> SUFFICES ASSUME q # <<>>
               PROVE  q[1].part = 1
    OBVIOUS
  <2>1. Len(q) >= 1 /\ 2 \in 1 .. Len(r) - 1 /\ q[1] = r[3]
    BY <1>1
  <2>2. r[3].part = 1
    BY <1>3, <2>1 DEF Paired
  <2>3. QED
    BY <2>1, <2>2
<1>5. ASSUME NEW i \in 1 .. Len(q) - 1
      PROVE  IF q[i].part = 1
             THEN q[i + 1].part = 2 /\ q[i + 1].kind = q[i].kind /\ q[i + 1].n = q[i].n
             ELSE q[i + 1].part = 1
  <2>1. /\ i + 2 \in 1 .. Len(r) - 1 /\ (i + 1) + 2 = (i + 2) + 1
        /\ i \in 1 .. Len(q) /\ i + 1 \in 1 .. Len(q)
    BY <1>1
  <2>2. q[i] = r[i + 2] /\ q[i + 1] = r[(i + 2) + 1]
    BY <1>1, <2>1
  <2>3. QED
    BY <2>1, <2>2 DEF Paired
<1>6. Paired(q)
  BY <1>4, <1>5 DEF Paired
<1>7. QED
  BY <1>1, <1>2, <1>3, <1>6

\* The application packages are the first, if it is one, and those behind.
LEMMA HeadChosen ==
  ASSUME NEW r \in Seq(Unit), Paired(r), Len(r) >= 2, NEW q, q = Rest(r)
  PROVE  Numbers(Chosen(r, App)) = (IF r[1].kind = "app" THEN <<r[1].n>> ELSE <<>>)
                                     \o Numbers(Chosen(q, App))
<1>1. /\ q \in Seq(Unit) /\ r[1] \in Unit /\ r[2] \in Unit /\ r[1].part = 1 /\ r[2].part = 2
      /\ r[2].n = r[1].n /\ r[2].kind = r[1].kind
  BY HeadOff
<1>2. PICK h : h = <<r[1], r[2]>>
  OBVIOUS
<1>3. h \in Seq(Unit)
  BY <1>1, <1>2
<1>33. r = h \o q
  BY <1>2, Behind
<1>4. Chosen(r, App) = Chosen(h, App) \o Chosen(q, App)
  <2>0. h \in Seq(Unit) /\ q \in Seq(Unit)
    BY <1>1, <1>3
  <2>1. \A P : Chosen(h \o q, P) = Chosen(h, P) \o Chosen(q, P)
    BY ONLY <2>0, ChosenConcat
  <2>2. QED
    BY <1>33, <2>1, Zenon
<1>5. r[1] \notin App /\ (r[2] \in App <=> r[1].kind = "app")
  BY <1>1 DEF App, Unit
<1>6. Chosen(h, App) = IF r[1].kind = "app" THEN <<r[2]>> ELSE <<>>
  BY <1>1, <1>2, <1>5, ChosenTwo
<1>7. Numbers(Chosen(h, App)) = IF r[1].kind = "app" THEN <<r[1].n>> ELSE <<>>
  BY <1>1, <1>6, NumbersEmpty, NumbersOne, Zenon
<1>8. PICK a \in Seq(Unit), b \in Seq(Unit) : a = Chosen(h, App) /\ b = Chosen(q, App)
  BY <1>1, <1>3, ChosenType
<1>9. Numbers(a \o b) = Numbers(a) \o Numbers(b)
  BY NumbersConcat
<1>10. QED
  BY <1>4, <1>7, <1>8, <1>9, Zenon

\* The units chosen of what came, and their numbers.
LEMMA UnitNumbers ==
  ASSUME NEW s \in Seq(Unit), NEW P
  PROVE  Chosen(s, P) \in Seq(Unit) /\ Numbers(Chosen(s, P)) \in Seq(Nat)
         /\ Len(Numbers(Chosen(s, P))) = Len(Chosen(s, P))
<1>1. PICK r \in Seq(Unit) : r = Chosen(s, P)
  BY ChosenType
<1>2. \A e \in Unit : e.n \in Nat
  BY DEF Unit
<1>3. Numbers(r) \in Seq(Nat) /\ Len(Numbers(r)) = Len(r)
  BY <1>2, NumbersType
<1>4. QED
  BY <1>1, <1>3, Zenon

-----------------------------------------------------------------------------
(* A connection of tcpsac or tcppkg that is not over.                      *)

\* The fields of a tcpsac or tcppkg connection.
LEMMA PkgFields ==
  ASSUME NEW c \in PkgConn
  PROVE  /\ c.proto \in {"tcpsac", "tcppkg"} /\ c.proto \in Proto
         /\ c.role \in {"listener", "client", "server"} /\ c.st \in States
         /\ c.pr \in PkgParser /\ c.pr.step \in {"HEAD", "BODY", "ERROR"}
         /\ c.linked \in BOOLEAN /\ c.rbl \in Seq(Unit) /\ c.wbl \in Seq(0 .. MaxSend)
         /\ c.wbl \in Seq(Nat) /\ c.told \in Seq(AnyNote) /\ c.came \in Seq(Unit)
         /\ c.sent \in 0 .. MaxSend /\ c.up \in BOOLEAN /\ c.bye \in BOOLEAN /\ c.old \in BOOLEAN
<1>1. MaxSend \in Nat
  BY NetAssumption
<1>2. c.wbl \in Seq(0 .. MaxSend)
  BY DEF PkgConn, Conns
<1>3. c.wbl \in Seq(Nat)
  BY <1>1, <1>2
<1>4. QED
  BY <1>2, <1>3 DEF PkgConn, Conns, PkgParser

\* A connection that is not over, in the middle of a handler: nothing of what
\* came is lost, and no package was called unreachable.
Live(c) ==
  /\ c \in PkgConn /\ c.st # "CLOSE" /\ c.up /\ ~c.bye /\ ~c.linked
  /\ Unparsed(c) /\ Kept(c) /\ Told(c, "UNREACH") = <<>>

\* A package is taken from the read buffer, and told of if it is the
\* application's.
LEMMA TakesPackage ==
  ASSUME NEW c, NEW d, Live(c), d \in PkgConn, Len(c.rbl) >= 2,
         d.proto = c.proto, d.came = c.came, d.rbl = Rest(c.rbl),
         d.pr.step = "HEAD", d.st # "CLOSE", d.up, ~d.bye, ~d.linked,
         \/ c.rbl[1].kind = "app" /\ d.told = Append(c.told, Note("RECV", c.rbl[1].n))
         \/ c.rbl[1].kind # "app" /\ d.told = c.told
  PROVE  Live(d) /\ Len(d.rbl) = Len(c.rbl) - 2
<1>1. /\ c.rbl \in Seq(Unit) /\ c.told \in Seq(AnyNote) /\ c.came \in Seq(Unit)
      /\ Paired(c.rbl)
  BY PkgFields DEF Live, Unparsed
<1>2. PICK r, q : r = c.rbl /\ q = d.rbl
  OBVIOUS
<1>22. r \in Seq(Unit) /\ Paired(r) /\ Len(r) >= 2 /\ q = Rest(r) /\ Len(r) \in Nat
  BY <1>1, <1>2
<1>3. /\ q \in Seq(Unit) /\ Len(q) = Len(r) - 2 /\ Paired(q)
      /\ \A i \in 1 .. Len(q) : q[i] = r[i + 2]
      /\ r[1] \in Unit /\ r[2] \in Unit /\ r[1].part = 1 /\ r[2].part = 2
      /\ r[2].n = r[1].n /\ r[2].kind = r[1].kind
  BY <1>22, HeadOff
<1>4. Unparsed(d)
  <2>1. \A i \in 1 .. Len(q) : q[i].kind \in KindsOf(c.proto)
    <3>1. \A i \in 1 .. Len(r) : r[i].kind \in KindsOf(c.proto)
      BY <1>2 DEF Live, Unparsed
    <3>2. QED
      BY <1>1, <1>2, <1>3, <3>1
  <2>2. c.came # <<>> /\ c.came[Len(c.came)] = r[Len(r)]
    BY <1>22, <1>2 DEF Live, Unparsed
  <2>3. q # <<>> => q[Len(q)] = r[Len(r)]
    BY <1>22, <1>3
  <2>4. q = <<>> => c.came[Len(c.came)].part = 2
    <3>1. q = <<>> => Len(q) = 0
      OBVIOUS
    <3>2. Len(q) = 0 => Len(r) = 2
      BY <1>22, <1>3
    <3>3. QED
      BY <1>3, <2>2, <3>1, <3>2, Zenon
  <2>5. KindsOf(d.proto) = KindsOf(c.proto)
    BY Zenon
  <2>6. QED
    BY <1>2, <1>3, <2>1, <2>2, <2>3, <2>4, <2>5 DEF Unparsed
<1>5. Told(d, "UNREACH") = <<>>
  <2>1. CASE c.rbl[1].kind = "app"
    <3>1. Note("RECV", c.rbl[1].n) \in AnyNote /\ Note("RECV", c.rbl[1].n).t = "RECV"
      BY <1>2, <1>3 DEF Note, AnyNote, Notices, Unit
    <3>2. Told(d, "UNREACH") = Told(c, "UNREACH")
      BY <1>1, <2>1, <3>1, GotMore
    <3>3. QED
      BY <3>2 DEF Live
  <2>2. CASE c.rbl[1].kind # "app"
    BY <2>2 DEF Live, Told
  <2>3. QED
    BY <2>1, <2>2
<1>6. Kept(d)
  <2>1. Numbers(Chosen(r, App)) = (IF r[1].kind = "app" THEN <<r[1].n>> ELSE <<>>)
                                     \o Numbers(Chosen(q, App))
    BY <1>22, HeadChosen
  <2>2. PICK x, g : x = Numbers(Chosen(q, App)) /\ g = Numbers(Got(c))
    OBVIOUS
  <2>3. x \in Seq(Nat)
    BY <1>3, <2>2, UnitNumbers
  <2>4. g \in Seq(Nat)
    BY <1>1, <2>2, ToldType, Zenon DEF Got
  <2>5. r[1].n \in Nat
    BY <1>3 DEF Unit
  <2>6. g \o Numbers(Chosen(r, App)) = Numbers(Whole(c))
    BY <1>2, <2>2 DEF Live, Kept
  <2>7. Whole(d) = Whole(c)
    BY Zenon DEF Whole
  <2>8. CASE r[1].kind = "app"
    <3>1. PICK m : m = Note("RECV", r[1].n)
      OBVIOUS
    <3>2. m \in AnyNote /\ m.t = "RECV" /\ m.n = r[1].n
      BY <2>5, <3>1 DEF Note, AnyNote, Notices
    <3>3. Got(d) = Append(Got(c), m)
      <4>1. d.told = Append(c.told, m)
        BY <1>2, <2>8, <3>1
      <4>2. QED
        BY <1>1, <3>2, <4>1, GotMore
    <3>4. PICK k \in Seq(AnyNote) : k = Got(c)
      BY <1>1, ToldType DEF Got
    <3>5. Numbers(Append(k, m)) = Append(Numbers(k), m.n)
      BY <3>2, NumbersAppend
    <3>6. Numbers(Got(d)) = Append(g, r[1].n)
      BY <2>2, <3>2, <3>3, <3>4, <3>5, Zenon
    <3>7. Append(g, r[1].n) \o x = g \o (<<r[1].n>> \o x)
      BY <2>3, <2>4, <2>5
    <3>8. Numbers(Got(d)) \o x = Numbers(Whole(d))
      BY <2>1, <2>2, <2>6, <2>7, <2>8, <3>6, <3>7, Zenon
    <3>9. QED
      BY <1>2, <2>2, <3>8 DEF Kept
  <2>9. CASE r[1].kind # "app"
    <3>1. <<>> \o x = x
      BY <2>3
    <3>2. Numbers(Chosen(r, App)) = x
      BY <2>1, <2>2, <2>9, <3>1, Zenon
    <3>3. Got(d) = Got(c)
      BY <1>2, <2>9 DEF Got, Told
    <3>4. QED
      BY <1>2, <2>2, <2>6, <2>7, <3>2, <3>3 DEF Kept
  <2>10. QED
    BY <2>8, <2>9
<1>7. QED
  BY <1>2, <1>3, <1>4, <1>5, <1>6 DEF Live

-----------------------------------------------------------------------------
(* What a handler leaves.                                                  *)

\* A step of a connection, as the session of its owner sees it.
Moves(c, d) ==
  /\ d.proto = c.proto /\ d.role = c.role /\ d.bye = c.bye
  /\ \E at \in Ats \ {"wrong", "ending"} :
       /\ Tells(c, d, at)
       /\ Phase(d) = at \/ (Phase(d) = "over" /\ (at = "offered" \/ c.proto = "http"))

\* Got is of what came.
LEMMA KeptPrefix ==
  ASSUME NEW c \in PkgConn, Kept(c)
  PROVE  IsPrefix(Numbers(Got(c)), Numbers(Whole(c)))
<1>1. PICK g, x : g = Numbers(Got(c)) /\ x = Numbers(Chosen(c.rbl, App))
  OBVIOUS
<1>2. g \in Seq(Nat) /\ x \in Seq(Nat)
  <2>1. c.told \in Seq(AnyNote) /\ c.rbl \in Seq(Unit)
    BY PkgFields
  <2>2. Numbers(Told(c, "RECV")) \in Seq(Nat)
    BY <2>1, ToldType
  <2>3. g \in Seq(Nat)
    BY <1>1, <2>2, Zenon DEF Got
  <2>4. x \in Seq(Nat)
    BY <1>1, <2>1, UnitNumbers
  <2>5. QED
    BY <2>3, <2>4
<1>3. IsPrefix(g, g \o x)
  BY <1>2, PrefixOf
<1>4. QED
  BY <1>1, <1>3, Zenon DEF Kept

\* A connection that ends keeps the invariant, when its packages are accounted for
\* or its owner closed it.
LEMMA Ends ==
  ASSUME NEW c, NEW d \in PkgConn, Live(c), d.st = "CLOSE", ~d.up, ~d.linked,
         d.proto = c.proto, d.role = c.role, d.came = c.came, Got(d) = Got(c),
         HeardOf(d) => Checked(d),
         d.bye \/ Numbers(Told(d, "UNREACH")) = Owned(d.wbl)
  PROVE  PkgInv(d)
<1>1. IsPrefix(Numbers(Got(d)), Numbers(Whole(d)))
  <2>1. IsPrefix(Numbers(Got(c)), Numbers(Whole(c)))
    BY KeptPrefix DEF Live
  <2>2. Whole(d) = Whole(c)
    BY Zenon DEF Whole
  <2>3. QED
    BY <2>1, <2>2
<1>2. Common(d)
  <2>1. d.up \in BOOLEAN
    BY PkgFields
  <2>2. d.up = (d.st # "CLOSE")
    BY <2>1
  <2>3. d.st \in Stages(d.proto, d.role)
    BY DEF Stages
  <2>4. QED
    BY <2>2, <2>3 DEF Common
<1>3. QED
  BY <1>1, <1>2 DEF PkgInv

\* An open connection with no whole package left keeps the invariant.
LEMMA StaysOpen ==
  ASSUME NEW c, Live(c), c.st = "TRANS", Len(c.rbl) < 2, Checked(c), c.role # "listener"
  PROVE  PkgInv(c)
<1>1. IsPrefix(Numbers(Got(c)), Numbers(Whole(c)))
  BY KeptPrefix DEF Live
<1>2. Common(c)
  BY DEF Common, Stages, Live
<1>3. c \in PkgConn /\ Unparsed(c) /\ Kept(c) /\ Told(c, "UNREACH") = <<>>
  BY DEF Live
<1>4. QED
  BY <1>1, <1>2, <1>3 DEF PkgInv

-----------------------------------------------------------------------------
(* A connection that breaks.                                               *)

\* What Lost of both protocols leaves.
Gone(c) == Shut(Tell(TellUnreachable(c), "CLOSE", 0))

\* The fields of a connection that is lost, and what its owner was told.
LEMMA GoneFields ==
  ASSUME NEW c \in PkgConn, Told(c, "UNREACH") = <<>>
  PROVE  /\ Gone(c) \in PkgConn /\ Gone(c).st = "CLOSE" /\ ~Gone(c).up
         /\ \A d \in {Gone(c)} : /\ d.proto = c.proto /\ d.role = c.role /\ d.came = c.came
                                 /\ d.bye = c.bye /\ d.linked = c.linked /\ d.wbl = c.wbl
                                 /\ d.rbl = c.rbl
         /\ \E u \in Seq(AnyNote) :
              /\ Gone(c).told = Append(c.told \o u, Note("CLOSE", 0))
              /\ \A i \in 1 .. Len(u) : u[i].t = "UNREACH"
         /\ Got(Gone(c)) = Got(c) /\ Numbers(Told(Gone(c), "UNREACH")) = Owned(c.wbl)
<1>1. PICK d : d = TellUnreachable(c)
  OBVIOUS
<1>2. c.told \in Seq(AnyNote) /\ c.wbl \in Seq(Nat) /\ "told" \in DOMAIN c
  <2>1. "told" \in DOMAIN c
    BY DEF PkgConn, Conns
  <2>2. QED
    BY <2>1, PkgFields
<1>3. PICK u \in Seq(AnyNote) :
        d.told = c.told \o u /\ \A i \in 1 .. Len(u) : u[i].t = "UNREACH"
  BY <1>1, <1>2, ToldUnreachable, ZenonT(30)
<1>4. /\ d.told \in Seq(AnyNote) /\ Got(d) = Got(c)
      /\ Numbers(Told(d, "UNREACH")) = Owned(c.wbl)
  BY <1>1, <1>2, ToldUnreachable
<1>5. d = [c EXCEPT !.told = d.told]
  <2>1. PICK v : v = Chosen(c.wbl, Nat \ {0})
    OBVIOUS
  <2>2. d = [c EXCEPT !.told = c.told \o [i \in DOMAIN v |-> Note("UNREACH", v[i])]]
    BY <1>1, <2>1 DEF TellUnreachable
  <2>3. PICK w : w = c.told \o [i \in DOMAIN v |-> Note("UNREACH", v[i])]
    OBVIOUS
  <2>4. d = [c EXCEPT !.told = w]
    BY <2>2, <2>3
  <2>5. QED
    BY <1>2, <2>4
<1>6. PICK m : m = Note("CLOSE", 0)
  OBVIOUS
<1>7. m \in AnyNote /\ m.t = "CLOSE"
  BY <1>6 DEF Note, AnyNote, Notices
<1>8. PICK told : told = Append(d.told, m)
  OBVIOUS
<1>9. told \in Seq(AnyNote)
  BY <1>4, <1>7, <1>8
<1>10. Gone(c) = [c EXCEPT !.told = told, !.st = "CLOSE", !.up = FALSE]
  <2>1. Tell(d, "CLOSE", 0) = [d EXCEPT !.told = told]
    BY <1>6, <1>8 DEF Tell
  <2>2. Gone(c) = [[d EXCEPT !.told = told] EXCEPT !.st = "CLOSE", !.up = FALSE]
    BY <1>1, <2>1 DEF Gone, Shut
  <2>3. QED
    BY <1>2, <1>5, <2>2 DEF PkgConn, Conns
<1>11. PICK e : e = Gone(c)
  OBVIOUS
<1>12. e \in PkgConn /\ e.told = told /\ e.st = "CLOSE" /\ ~e.up
  BY <1>9, <1>10, <1>11 DEF PkgConn, Conns, States
<1>13. /\ e.proto = c.proto /\ e.role = c.role /\ e.came = c.came
       /\ e.bye = c.bye /\ e.linked = c.linked /\ e.wbl = c.wbl /\ e.rbl = c.rbl
  BY <1>10, <1>11 DEF PkgConn, Conns
<1>14. Got(e) = Got(d) /\ Told(e, "UNREACH") = Told(d, "UNREACH")
  BY <1>4, <1>7, <1>8, <1>12, GotSame
<1>15. QED
  BY <1>3, <1>4, <1>6, <1>8, <1>11, <1>12, <1>13, <1>14

\* d is l but for its parser and its read buffer.
Like(l, d) ==
  /\ d \in PkgConn /\ d.proto = l.proto /\ d.role = l.role /\ d.bye = l.bye
  /\ d.told = l.told /\ d.came = l.came /\ d.wbl = l.wbl /\ ~d.linked

\* A connection that is lost keeps the invariant, and its owner's session.
LEMMA BreaksOff ==
  ASSUME NEW c, NEW l, NEW d, NEW e, Live(l), Checked(l), Tells(c, l, "open"),
         Like(l, d), e = Gone(d), c.st \in States, c.told \in Seq(AnyNote),
         l.proto = c.proto, l.role = c.role, l.bye = c.bye
  PROVE  PkgInv(e) /\ Moves(c, e)
<1>1. d \in PkgConn /\ ~d.linked
  BY DEF Like
<1>11. Told(d, "UNREACH") = <<>> /\ Got(d) = Got(l)
  BY DEF Like, Live, Told, Got
<1>2. /\ e \in PkgConn /\ e.st = "CLOSE" /\ ~e.up
      /\ e.proto = d.proto /\ e.role = d.role /\ e.came = d.came /\ e.bye = d.bye
      /\ ~e.linked /\ e.wbl = d.wbl
      /\ Got(e) = Got(d) /\ Numbers(Told(e, "UNREACH")) = Owned(d.wbl)
  BY <1>1, <1>11, GoneFields
<1>3. PICK u \in Seq(AnyNote) :
        /\ e.told = Append(d.told \o u, Note("CLOSE", 0))
        /\ \A i \in 1 .. Len(u) : u[i].t = "UNREACH"
  BY <1>1, <1>11, GoneFields
<1>33. /\ e.proto = l.proto /\ e.role = l.role /\ e.came = l.came /\ e.bye = l.bye
       /\ e.told = Append(l.told \o u, Note("CLOSE", 0)) /\ Got(e) = Got(l)
       /\ Numbers(Told(e, "UNREACH")) = Owned(e.wbl)
  BY <1>11, <1>2, <1>3 DEF Like
<1>4. Checked(e)
  BY <1>33 DEF Checked
<1>5. PkgInv(e)
  BY <1>2, <1>33, <1>4, Ends
<1>6. PICK w : w = [told |-> l.told \o u]
  OBVIOUS
<1>7. w.told = l.told \o u
  BY <1>6
<1>8. PICK at \in {"open", "ending"} : Tells(c, w, at)
  BY <1>3, <1>7, TellsUnreachable
<1>9. Note("CLOSE", 0) \in AnyNote
  BY DEF Note, AnyNote, Notices
<1>10. Tells(c, e, S!After(at, Note("CLOSE", 0)))
  BY <1>33, <1>7, <1>8, <1>9, TellsMore
<1>12. S!After(at, Note("CLOSE", 0)) = "over"
  BY <1>8 DEF S!After, Note
<1>13. Phase(e) = "over"
  BY <1>2 DEF Phase
<1>14. QED
  BY <1>33, <1>5, <1>10, <1>12, <1>13 DEF Moves, Ats

\* One whose close is told of and nothing else, with nothing that has an owner.
LEMMA BreaksQuietly ==
  ASSUME NEW c, NEW l, NEW d, NEW e, Live(l), Checked(l), Tells(c, l, "open"),
         Like(l, d), Owned(d.wbl) = <<>>, e = Shut(Tell(d, "CLOSE", 0)),
         c.st \in States, c.told \in Seq(AnyNote),
         l.proto = c.proto, l.role = c.role, l.bye = c.bye
  PROVE  PkgInv(e) /\ Moves(c, e)
<1>1. PICK m : m = Note("CLOSE", 0)
  OBVIOUS
<1>2. m \in AnyNote /\ m.t = "CLOSE"
  BY <1>1 DEF Note, AnyNote, Notices
<1>3. l.told \in Seq(AnyNote) /\ Told(l, "UNREACH") = <<>>
  BY PkgFields DEF Live
<1>4. PICK told : told = Append(l.told, m)
  OBVIOUS
<1>5. told \in Seq(AnyNote)
  BY <1>2, <1>3, <1>4
<1>6. e = [d EXCEPT !.told = told, !.st = "CLOSE", !.up = FALSE]
  <2>1. Tell(d, "CLOSE", 0) = [d EXCEPT !.told = told]
    BY <1>1, <1>4 DEF Tell, Like
  <2>2. QED
    BY <2>1 DEF Shut, Like, PkgConn, Conns
<1>7. e \in PkgConn /\ e.told = told /\ e.st = "CLOSE" /\ ~e.up
  BY <1>5, <1>6 DEF Like, PkgConn, Conns, States
<1>8. /\ e.proto = l.proto /\ e.role = l.role /\ e.came = l.came
      /\ e.bye = l.bye /\ ~e.linked /\ e.wbl = d.wbl
  BY <1>6 DEF Like, PkgConn, Conns
<1>9. Got(e) = Got(l) /\ Told(e, "UNREACH") = <<>>
  BY <1>2, <1>3, <1>4, <1>7, GotSame
<1>10. Numbers(Told(e, "UNREACH")) = Owned(e.wbl)
  BY <1>8, <1>9, NumbersEmpty
<1>11. Checked(e)
  BY <1>8 DEF Checked
<1>12. PkgInv(e)
  BY <1>7, <1>8, <1>9, <1>10, <1>11, Ends
<1>13. Tells(c, e, S!After("open", m))
  BY <1>2, <1>4, <1>7, TellsMore
<1>14. S!After("open", m) = "over"
  BY <1>2 DEF S!After
<1>15. Phase(e) = "over"
  BY <1>7 DEF Phase
<1>16. QED
  BY <1>8, <1>12, <1>13, <1>14, <1>15 DEF Moves, Ats

-----------------------------------------------------------------------------
(* The loop of the receive handlers.                                       *)

\* In the loop that began with b: before its last turn, and after it.
Running(b, c) ==
  /\ Live(c) /\ c.st = "TRANS" /\ c.role # "listener" /\ Checked(c)
  /\ c.proto = b.proto /\ c.role = b.role /\ c.bye = b.bye
  /\ Tells(b, c, "open")

\* After a handler: the invariant again, from b on a step of the session.
Finished(b, c) == PkgInv(c) /\ Moves(b, c)

\* What the loop is told of the connection it begins with.
Begun(b) == b.st \in States /\ b.told \in Seq(AnyNote)

\* Less than a package is left: the loop is over.
LEMMA RunsOut ==
  ASSUME NEW b, NEW c, NEW x \in {"HEAD", "BODY"}, Running(b, c), Len(c.rbl) < 2,
         x = "BODY" => c.rbl # <<>> /\ c.rbl[1].kind # "bad"
  PROVE  Finished(b, [c EXCEPT !.pr.step = x])
<1>1. PICK d : d = [c EXCEPT !.pr.step = x]
  OBVIOUS
<1>2. c \in PkgConn /\ c.pr \in PkgParser
  BY PkgFields DEF Running, Live
<1>3. /\ d \in PkgConn /\ d.pr.step = x
      /\ d.proto = c.proto /\ d.role = c.role /\ d.st = c.st /\ d.linked = c.linked
      /\ d.rbl = c.rbl /\ d.wbl = c.wbl /\ d.told = c.told /\ d.came = c.came
      /\ d.up = c.up /\ d.bye = c.bye
  BY <1>1, <1>2 DEF PkgConn, Conns, PkgParser
<1>4. Unparsed(d)
  BY <1>3 DEF Running, Live, Unparsed
<1>5. Kept(d) /\ Told(d, "UNREACH") = <<>>
  BY <1>3 DEF Running, Live, Kept, Got, Told, Whole
<1>6. Live(d) /\ Checked(d)
  BY <1>3, <1>4, <1>5 DEF Running, Live, Checked
<1>7. PkgInv(d)
  BY <1>3, <1>6, StaysOpen DEF Running
<1>8. Tells(b, d, "open") /\ Phase(d) = "open"
  BY <1>3 DEF Running, Tells, Phase
<1>9. QED
  BY <1>1, <1>3, <1>7, <1>8 DEF Finished, Moves, Ats, Running

\* An application package was delivered: the loop goes on with two units less.
LEMMA RunsOn ==
  ASSUME NEW b, NEW c, NEW d \in PkgConn, Begun(b), Running(b, c), Len(c.rbl) >= 2,
         c.rbl[1].kind = "app",
         d.proto = c.proto, d.role = c.role, d.st = c.st, d.linked = c.linked,
         d.came = c.came, d.up = c.up, d.bye = c.bye, d.pr.step = "HEAD",
         d.told = Append(c.told, Note("RECV", c.rbl[1].n)), d.rbl = Rest(c.rbl)
  PROVE  Running(b, d) /\ Len(d.rbl) = Len(c.rbl) - 2
<1>1. Live(c)
  BY DEF Running
<1>2. Live(d) /\ Len(d.rbl) = Len(c.rbl) - 2
  BY <1>1, TakesPackage DEF Live
<1>3. c.rbl \in Seq(Unit)
  BY <1>1, PkgFields DEF Live
<1>4. c.rbl[1] \in Unit
  BY <1>3
<1>5. PICK m : m = Note("RECV", c.rbl[1].n)
  OBVIOUS
<1>6. m \in AnyNote /\ m.t = "RECV"
  BY <1>4, <1>5 DEF Note, AnyNote, Notices, Unit
<1>7. Tells(b, d, S!After("open", m))
  BY <1>5, <1>6, TellsMore DEF Running, Begun
<1>8. S!After("open", m) = "open"
  BY <1>6 DEF S!After
<1>9. Checked(d)
  BY DEF Running, Checked
<1>10. QED
  BY <1>2, <1>7, <1>8, <1>9 DEF Running

\* An error: the connection is lost, or, where nothing has an owner, closed.
LEMMA RunsDown ==
  ASSUME NEW b, NEW c, NEW d, Begun(b), Running(b, c), Like(c, d)
  PROVE  /\ Finished(b, Gone(d))
         /\ Owned(d.wbl) = <<>> => Finished(b, Shut(Tell(d, "CLOSE", 0)))
<1>1. Live(c) /\ Checked(c) /\ Tells(b, c, "open") /\ c.proto = b.proto /\ c.role = b.role /\ c.bye = b.bye
  BY DEF Running
<1>2. b.st \in States /\ b.told \in Seq(AnyNote)
  BY DEF Begun
<1>3. PkgInv(Gone(d)) /\ Moves(b, Gone(d))
  BY <1>1, <1>2, BreaksOff
<1>4. ASSUME Owned(d.wbl) = <<>>
      PROVE  PkgInv(Shut(Tell(d, "CLOSE", 0))) /\ Moves(b, Shut(Tell(d, "CLOSE", 0)))
  BY <1>1, <1>2, <1>4, BreaksQuietly
<1>5. QED
  BY <1>3, <1>4 DEF Finished

-----------------------------------------------------------------------------
(* tcpsac.                                                                 *)

\* The states of the loop of tcpsac.
SacTurns(b) ==
  {s \in [c : PkgConn, done : BOOLEAN] : IF s.done THEN Finished(b, s.c) ELSE Running(b, s.c)}

\* The turns that are left.
SacLeft(s) == IF s.done THEN 0 ELSE Len(s.c.rbl) + 1

\* Lost of tcpsac is Gone.
LEMMA SacGone ==
  ASSUME NEW c
  PROVE  Sac!Lost(c) = Gone(c)
BY DEF Sac!Lost, Sac!Shut, Sac!NotifyClose, Sac!Tell, Sac!NotifyUnreachable, Sac!TellUnreachable,
       Sac!Chosen, Sac!Note, Gone, Shut, Tell, TellUnreachable, Chosen, Note

\* A turn stays in the loop's states and leaves fewer turns.
LEMMA SacTurn ==
  ASSUME NEW b, Begun(b), b.proto = "tcpsac", NEW s \in SacTurns(b)
  PROVE  /\ Sac!RecvTurn(s) \in SacTurns(b)
         /\ SacLeft(s) \in Nat
         /\ \/ SacLeft(Sac!RecvTurn(s)) < SacLeft(s)
            \/ SacLeft(Sac!RecvTurn(s)) = 0 /\ SacLeft(s) = 0
<1>1. s.c \in PkgConn /\ s.done \in BOOLEAN /\ s = [c |-> s.c, done |-> s.done]
  BY DEF SacTurns
<1>2. s.c.rbl \in Seq(Unit) /\ s.c.pr \in PkgParser /\ s.c.pr.step \in {"HEAD", "BODY", "ERROR"}
      /\ s.c.told \in Seq(AnyNote)
  BY <1>1, PkgFields
<1>3. Len(s.c.rbl) \in Nat /\ SacLeft(s) \in Nat
  BY <1>2 DEF SacLeft
<1>4. CASE s.done
  <2>1. Sac!RecvTurn(s) = s
    BY <1>4 DEF Sac!RecvTurn
  <2>2. QED
    BY <1>3, <1>4, <2>1 DEF SacLeft
<1>5. CASE ~s.done
  <2>1. Running(b, s.c)
    BY <1>5 DEF SacTurns
  <2>2. PICK p : p = Sac!Parser(s.c)
    OBVIOUS
  <2>3. PICK c : c = s.c
    OBVIOUS
  <2>4. PICK parsed : parsed = [c EXCEPT !.pr.step = p.step]
    OBVIOUS
  <2>5. /\ p.ret = "more" => Sac!RecvTurn(s) = [c |-> parsed, done |-> TRUE]
        /\ p.ret = "bad" => Sac!RecvTurn(s) = [c |-> Sac!Lost(parsed), done |-> TRUE]
        /\ p.ret = "package" => Sac!RecvTurn(s) = [c |-> Sac!Package(parsed), done |-> FALSE]
    BY <1>5, <2>2, <2>3, <2>4 DEF Sac!RecvTurn
  <2>6. /\ c \in PkgConn /\ c.rbl \in Seq(Unit) /\ c.pr \in PkgParser
        /\ c.pr.step \in {"HEAD", "BODY"} /\ c.told \in Seq(AnyNote)
        /\ Paired(c.rbl) /\ (c.pr.step = "BODY" => c.rbl # <<>> /\ c.rbl[1].kind # "bad")
        /\ \A i \in 1 .. Len(c.rbl) : c.rbl[i].kind \in {"app", "bad"}
    BY <1>1, <1>2, <2>1, <2>3 DEF Running, Live, Unparsed, KindsOf, Sac!Kinds
  <2>7. \/ /\ p.ret = "more" /\ p.step \in {"HEAD", "BODY"} /\ Len(c.rbl) < 2
           /\ p.step = "BODY" => c.rbl # <<>> /\ c.rbl[1].kind # "bad"
        \/ p.ret = "bad" /\ p.step = "ERROR"
        \/ /\ p.ret = "package" /\ p.step = "HEAD" /\ Len(c.rbl) >= 2
           /\ c.rbl[1].kind = "app"
    BY <2>2, <2>3, <2>6 DEF Sac!Parser
  <2>8. CASE p.ret = "more"
    <3>1. Sac!RecvTurn(s) = [c |-> parsed, done |-> TRUE]
      BY <2>5, <2>8
    <3>2. Finished(b, parsed)
      BY <2>1, <2>3, <2>4, <2>7, <2>8, RunsOut
    <3>3. parsed \in PkgConn
      BY <3>2 DEF Finished, PkgInv
    <3>4. QED
      BY <1>3, <1>5, <3>1, <3>2, <3>3 DEF SacTurns, SacLeft
  <2>9. CASE p.ret = "bad"
    <3>1. Sac!RecvTurn(s) = [c |-> Gone(parsed), done |-> TRUE]
      BY <2>5, <2>9, SacGone
    <3>2. Like(c, parsed)
      BY <2>1, <2>3, <2>4, <2>6, <2>7, <2>9 DEF Like, PkgConn, Conns, PkgParser, Running, Live
    <3>3. Finished(b, Gone(parsed))
      BY <2>1, <2>3, <3>2, RunsDown
    <3>4. Gone(parsed) \in PkgConn
      BY <3>3 DEF Finished, PkgInv
    <3>5. QED
      BY <1>3, <1>5, <3>1, <3>3, <3>4 DEF SacTurns, SacLeft
  <2>10. CASE p.ret = "package"
    <3>1. PICK d : d = Sac!Package(parsed)
      OBVIOUS
    <3>2. Sac!RecvTurn(s) = [c |-> d, done |-> FALSE]
      BY <2>5, <2>10, <3>1
    <3>3. PICK told, q : told = Append(c.told, Note("RECV", c.rbl[1].n)) /\ q = Rest(c.rbl)
      OBVIOUS
    <3>4. told \in Seq(AnyNote) /\ q \in Seq(Unit)
      <4>1. c.rbl[1] \in Unit
        BY <2>6, <2>7, <2>10
      <4>2. Note("RECV", c.rbl[1].n) \in AnyNote
        BY <4>1 DEF Note, AnyNote, Notices, Unit
      <4>3. QED
        <5>1. PICK r : r = c.rbl
          OBVIOUS
        <5>2. r \in Seq(Unit) /\ Len(r) >= 2
          BY <2>6, <2>7, <2>10, <5>1
        <5>3. q \in Seq(Unit)
          BY <3>3, <5>1, <5>2, Behind
        <5>4. QED
          BY <2>6, <3>3, <4>2, <5>3
    <3>5. d = [c EXCEPT !.pr.step = "HEAD", !.told = told, !.rbl = q]
      <4>1. Sac!Package(parsed) = [[parsed EXCEPT !.told = told] EXCEPT !.rbl = q]
        BY <2>4, <2>6, <2>7, <2>10, <3>3
           DEF Sac!Package, Sac!Consume, Sac!Tell, Sac!Note, Note, Rest, PkgConn, Conns
      <4>2. QED
        BY <2>4, <2>6, <2>7, <2>10, <3>1, <4>1 DEF PkgConn, Conns
    <3>6. /\ d \in PkgConn /\ d.pr.step = "HEAD" /\ d.told = told /\ d.rbl = q
          /\ d.proto = c.proto /\ d.role = c.role /\ d.st = c.st /\ d.linked = c.linked
          /\ d.came = c.came /\ d.up = c.up /\ d.bye = c.bye
      BY <2>6, <3>4, <3>5 DEF PkgConn, Conns, PkgParser
    <3>7. Running(b, d) /\ Len(d.rbl) = Len(c.rbl) - 2
      BY <2>1, <2>3, <2>7, <2>10, <3>3, <3>6, RunsOn, ZenonT(30)
    <3>8. SacLeft(Sac!RecvTurn(s)) < SacLeft(s)
      BY <1>3, <1>5, <2>3, <2>7, <2>10, <3>2, <3>7 DEF SacLeft
    <3>9. QED
      BY <1>3, <3>2, <3>6, <3>7, <3>8 DEF SacTurns
  <2>11. QED
    BY <2>7, <2>8, <2>9, <2>10
<1>6. QED
  BY <1>1, <1>4, <1>5

\* After enough turns the loop is over.
LEMMA SacLoop ==
  ASSUME NEW b, Begun(b), b.proto = "tcpsac", NEW s \in SacTurns(b), NEW n \in Nat,
         SacLeft(s) <= n
  PROVE  Finished(b, Sac!Turns(Sac!RecvTurn, s, n).c)
<1> DEFINE Q == SacTurns(b)
           F == [k \in 1 .. n |-> [x \in Q |-> Sac!RecvTurn(x)]]
           Step(f) == [k \in 0 .. n |-> IF k = 0 THEN s ELSE Sac!RecvTurn(f[k - 1])]
<1>1. F \in [1 .. n -> [Q -> Q]]
  <2>1. \A x \in Q : Sac!RecvTurn(x) \in Q /\ SacLeft(x) \in Nat
    BY SacTurn
  <2> HIDE DEF Q
  <2>2. QED
    BY <2>1
<1>2. PICK p \in [0 .. n -> Q] : Loop(p, n, s, F)
  <2> HIDE DEF F
  <2>1. s \in Q
    OBVIOUS
  <2> HIDE DEF Q
  <2>2. QED
    BY <1>1, <2>1, LoopRuns
<1>3. ASSUME NEW k \in 1 .. n
      PROVE  p[k - 1] \in Q /\ p[k] \in Q /\ p[k] = Sac!RecvTurn(p[k - 1])
  <2>0. k - 1 \in 0 .. n /\ k \in 0 .. n
    OBVIOUS
  <2>1. p[k - 1] \in Q /\ p[k] \in Q /\ p[k] = F[k][p[k - 1]]
    <3> HIDE DEF F, Q
    <3>1. QED
      BY <1>2, <2>0 DEF Loop
  <2>2. F[k] = [x \in Q |-> Sac!RecvTurn(x)]
    OBVIOUS
  <2> HIDE DEF F, Q
  <2>3. QED
    BY <2>1, <2>2
<1>4. p[0] = s
  BY <1>2 DEF Loop
<1>5. p = Step(p)
  <2>1. \A k \in 0 .. n : p[k] = Step(p)[k]
    <3>1. ASSUME NEW k \in 0 .. n, k # 0
          PROVE  k \in 1 .. n
      BY <3>1
    <3> HIDE DEF Q
    <3>2. QED
      BY <1>3, <1>4, <3>1
  <2> HIDE DEF Q
  <2>2. QED
    BY <1>2, <2>1
<1>6. PICK f : f = Step(f) /\ Sac!Turns(Sac!RecvTurn, s, n) = f[n]
  <2> DEFINE f == CHOOSE g : g = Step(g)
  <2>1. f = Step(f)
    <3> HIDE DEF Step
    <3>1. QED
      BY <1>5
  <2>2. Sac!Turns(Sac!RecvTurn, s, n) = f[n]
    BY DEF Sac!Turns
  <2> HIDE DEF f
  <2>3. QED
    BY <2>1, <2>2
<1>7. \A k \in 0 .. n : f[k] = IF k = 0 THEN s ELSE Sac!RecvTurn(f[k - 1])
  BY <1>6
<1> DEFINE T == {k \in 0 .. n : f[k] = p[k]}
<1>8. 0 \in T
  BY <1>4, <1>7
<1>9. ASSUME NEW k \in 0 .. n - 1, k \in T
      PROVE  k + 1 \in T
  <2>1. k + 1 \in 1 .. n /\ k + 1 \in 0 .. n /\ (k + 1) - 1 = k /\ k + 1 # 0
    OBVIOUS
  <2>2. QED
    BY <1>3, <1>7, <1>9, <2>1
<1>10. \A k \in 0 .. n : k \in T
  <2> HIDE DEF T
  <2>1. QED
    BY <1>8, <1>9, Ascends
<1>11. p[n] = f[n] /\ p[n] \in Q
  <2> HIDE DEF Q
  <2>1. QED
    BY <1>2, <1>10
<1> DEFINE m == [k \in 0 .. n |-> SacLeft(p[k])]
<1>12. /\ m \in [0 .. n -> Nat] /\ m[0] <= n
       /\ \A k \in 1 .. n : m[k] < m[k - 1] \/ (m[k] = 0 /\ m[k - 1] = 0)
  <2>1. \A k \in 0 .. n : p[k] \in SacTurns(b) /\ SacLeft(p[k]) \in Nat
    BY <1>2, SacTurn
  <2>2. m \in [0 .. n -> Nat]
    BY <2>1
  <2>3. m[0] <= n
    BY <1>4
  <2>4. ASSUME NEW k \in 1 .. n
        PROVE  m[k] < m[k - 1] \/ (m[k] = 0 /\ m[k - 1] = 0)
    <3>1. m[k] = SacLeft(p[k]) /\ m[k - 1] = SacLeft(p[k - 1])
      OBVIOUS
    <3>2. p[k - 1] \in SacTurns(b) /\ p[k] = Sac!RecvTurn(p[k - 1])
      BY <1>3
    <3>3. QED
      BY <3>1, <3>2, SacTurn
  <2> HIDE DEF m
  <2>5. QED
    BY <2>2, <2>3, <2>4
<1>13. m[n] = SacLeft(p[n])
  OBVIOUS
<1>14. m[n] = 0
  <2> HIDE DEF m
  <2>1. QED
    BY <1>12, LoopEnds
<1>15. SacLeft(p[n]) = 0
  BY <1>13, <1>14
<1>16. p[n].done
  <2>1. p[n].c \in PkgConn
    BY <1>11 DEF SacTurns
  <2>2. Len(p[n].c.rbl) \in Nat
    BY <2>1, PkgFields
  <2>3. QED
    BY <1>11, <1>15, <2>2 DEF SacLeft, SacTurns
<1>17. Finished(b, p[n].c)
  BY <1>11, <1>16 DEF SacTurns
<1>18. QED
  BY <1>6, <1>11, <1>17, Zenon

-----------------------------------------------------------------------------
(* tcppkg.                                                                 *)

\* The states of the loop of tcppkg; behind a validation nothing has an owner.
PkgTurns(b) ==
  {s \in [c : PkgConn, unreachable : BOOLEAN, done : BOOLEAN] :
     IF s.done THEN Finished(b, s.c)
     ELSE Running(b, s.c) /\ (s.unreachable \/ Owned(s.c.wbl) = <<>>)}

\* The turns that are left.
PkgLeft(s) == IF s.done THEN 0 ELSE Len(s.c.rbl) + 1

\* Lost of tcppkg is Gone.
LEMMA PkgGone ==
  ASSUME NEW c
  PROVE  /\ Pkg!Lost(c) = Gone(c)
         /\ Pkg!Shut(Pkg!NotifyClose(c)) = Shut(Tell(c, "CLOSE", 0))
BY DEF Pkg!Lost, Pkg!Shut, Pkg!NotifyClose, Pkg!Tell, Pkg!NotifyUnreachable, Pkg!TellUnreachable,
       Pkg!Chosen, Pkg!Note, Gone, Shut, Tell, TellUnreachable, Chosen, Note

\* The parser at a step, and behind a package.
AtStep(c, x) == [c EXCEPT !.pr.step = x]
Ahead(c) == [c EXCEPT !.pr.step = "HEAD", !.rbl = Rest(c.rbl)]

\* What jetnet_tcppkg_recv_pkg may return.
LEMMA PkgReceives ==
  ASSUME NEW c, Live(c), c.proto = "tcppkg", NEW type, type \in {"APP", "SYS"},
         NEW p, p = Pkg!RecvPkg(c, type)
  PROVE  \/ /\ p.ret = "more" /\ Len(c.rbl) < 2
            /\ \E x \in {"HEAD", "BODY"} :
                 /\ p.c = AtStep(c, x)
                 /\ x = "BODY" => c.rbl # <<>> /\ c.rbl[1].kind # "bad"
         \/ p.ret = "bad" /\ Like(c, p.c) /\ p.c.st = c.st
         \/ /\ p.ret = "package" /\ Len(c.rbl) >= 2 /\ c.rbl[1].kind \in Pkg!Kinds \ {"bad"}
            /\ type = "APP" <=> c.rbl[1].kind = "app"
            /\ p.got = c.rbl[1]
            /\ p.c = Ahead(c)
            /\ p.c \in PkgConn
<1>1. PICK q : q = Pkg!Parser(c)
  OBVIOUS
<1>2. /\ c \in PkgConn /\ c.rbl \in Seq(Unit) /\ c.pr \in PkgParser
      /\ c.pr.step \in {"HEAD", "BODY"} /\ c.told \in Seq(AnyNote)
      /\ Paired(c.rbl) /\ (c.pr.step = "BODY" => c.rbl # <<>> /\ c.rbl[1].kind # "bad")
      /\ \A i \in 1 .. Len(c.rbl) : c.rbl[i].kind \in Pkg!Kinds
  BY PkgFields DEF Live, Unparsed, KindsOf
<1>3. \/ /\ q.ret = "more" /\ q.step \in {"HEAD", "BODY"} /\ Len(c.rbl) < 2
         /\ q.step = "BODY" => c.rbl # <<>> /\ c.rbl[1].kind # "bad"
      \/ q.ret = "bad" /\ q.step = "ERROR"
      \/ /\ q.ret = "package" /\ q.step = "HEAD" /\ Len(c.rbl) >= 2
         /\ c.rbl[1].kind # "bad"
  BY <1>1, <1>2 DEF Pkg!Parser
<1>4. CASE q.ret = "more"
  <2>1. p = [ret |-> q.ret, c |-> [c EXCEPT !.pr.step = q.step]]
    BY <1>1, <1>4 DEF Pkg!RecvPkg
  <2>2. p.c = AtStep(c, q.step) /\ p.ret = "more"
    BY <1>4, <2>1 DEF AtStep
  <2>3. QED
    BY <1>3, <1>4, <2>2
<1>5. CASE q.ret = "bad"
  <2>1. p = [ret |-> q.ret, c |-> [c EXCEPT !.pr.step = q.step]]
    BY <1>1, <1>5 DEF Pkg!RecvPkg
  <2>2. Like(c, p.c) /\ p.c.st = c.st
    <3>1. PICK d : d = p.c
      OBVIOUS
    <3>2. d = [c EXCEPT !.pr.step = "ERROR"]
      BY <1>3, <1>5, <2>1, <3>1
    <3>3. d \in PkgConn
      BY <1>2, <3>2 DEF PkgConn, Conns, PkgParser
    <3>4. Like(c, d) /\ d.st = c.st
      BY <1>2, <3>2, <3>3 DEF Like, PkgConn, Conns, Live
    <3>5. QED
      BY <3>1, <3>4
  <2>3. QED
    BY <1>5, <2>1, <2>2
<1>6. CASE q.ret = "package"
  <2>0. c.rbl[1].kind \in Pkg!Kinds \ {"bad"}
    BY <1>2, <1>3, <1>6
  <2>1. CASE Pkg!MessageType(c.rbl[1].kind) # type
    <3>1. p = [ret |-> "bad", c |-> Pkg!Consume([c EXCEPT !.pr.step = "ERROR"], 1)]
      BY <1>1, <1>6, <2>1 DEF Pkg!RecvPkg
    <3>2. PICK r : r = SubSeq(c.rbl, 1 + 1, Len(c.rbl))
      OBVIOUS
    <3>3. r \in Seq(Unit)
      BY <1>2, <3>2
    <3>4. p.c = [[c EXCEPT !.pr.step = "ERROR"] EXCEPT !.rbl = r]
      BY <1>2, <3>1, <3>2 DEF Pkg!Consume, PkgConn, Conns
    <3>5. Like(c, p.c) /\ p.c.st = c.st
      <4>1. PICK d : d = p.c
        OBVIOUS
      <4>2. d = [c EXCEPT !.pr.step = "ERROR", !.rbl = r]
        BY <1>2, <3>4, <4>1 DEF PkgConn, Conns
      <4>3. d \in PkgConn
        BY <1>2, <3>3, <4>2 DEF PkgConn, Conns, PkgParser
      <4>4. Like(c, d) /\ d.st = c.st
        BY <1>2, <4>2, <4>3 DEF Like, PkgConn, Conns, Live
      <4>5. QED
        BY <4>1, <4>4
    <3>6. QED
      BY <3>1, <3>5
  <2>2. CASE Pkg!MessageType(c.rbl[1].kind) = type
    <3>1. p = [ret |-> "package", got |-> c.rbl[1], c |-> Pkg!Consume([c EXCEPT !.pr.step = "HEAD"], 2)]
      BY <1>1, <1>6, <2>2 DEF Pkg!RecvPkg
    <3>2. PICK r : r = Rest(c.rbl)
      OBVIOUS
    <3>3. r \in Seq(Unit)
      <4>1. PICK s : s = c.rbl
        OBVIOUS
      <4>2. s \in Seq(Unit) /\ Len(s) >= 2
        BY <1>2, <1>3, <1>6, <4>1
      <4>3. QED
        BY <3>2, <4>1, <4>2, Behind
    <3>4. p.c = [[c EXCEPT !.pr.step = "HEAD"] EXCEPT !.rbl = r]
      BY <1>2, <3>1, <3>2 DEF Pkg!Consume, PkgConn, Conns, Rest
    <3>5. p.c = [c EXCEPT !.pr.step = "HEAD", !.rbl = r]
      BY <1>2, <3>4 DEF PkgConn, Conns
    <3>6. p.c \in PkgConn
      BY <1>2, <3>3, <3>5, ZenonT(30) DEF PkgConn, Conns, PkgParser
    <3>7. type = "APP" <=> c.rbl[1].kind = "app"
      BY <2>0, <2>2 DEF Pkg!MessageType, Pkg!Kinds
    <3>8. QED
      BY <1>3, <1>6, <2>0, <3>1, <3>2, <3>5, <3>6, <3>7 DEF Ahead
  <2>3. QED
    BY <2>1, <2>2
<1>7. QED
  BY <1>3, <1>4, <1>5, <1>6

\* A turn stays in the loop's states and leaves fewer turns.
LEMMA PkgTurn ==
  ASSUME NEW b, Begun(b), b.proto = "tcppkg", NEW s \in PkgTurns(b)
  PROVE  /\ Pkg!RecvTurn(s) \in PkgTurns(b)
         /\ PkgLeft(s) \in Nat
         /\ \/ PkgLeft(Pkg!RecvTurn(s)) < PkgLeft(s)
            \/ PkgLeft(Pkg!RecvTurn(s)) = 0 /\ PkgLeft(s) = 0
<1>1. /\ s.c \in PkgConn /\ s.done \in BOOLEAN /\ s.unreachable \in BOOLEAN
      /\ s = [c |-> s.c, unreachable |-> s.unreachable, done |-> s.done]
  BY DEF PkgTurns
<1>2. s.c.rbl \in Seq(Unit) /\ s.c.told \in Seq(AnyNote)
  BY <1>1, PkgFields
<1>3. Len(s.c.rbl) \in Nat /\ PkgLeft(s) \in Nat
  BY <1>2 DEF PkgLeft
<1>4. CASE s.done
  <2>1. Pkg!RecvTurn(s) = s
    BY <1>4 DEF Pkg!RecvTurn
  <2>2. QED
    BY <1>3, <1>4, <2>1 DEF PkgLeft
<1>5. CASE ~s.done
  <2>1. Running(b, s.c) /\ (s.unreachable \/ Owned(s.c.wbl) = <<>>)
    BY <1>5 DEF PkgTurns
  <2>2. PICK c : c = s.c
    OBVIOUS
  <2>3. PICK p : p = Pkg!RecvPkg(c, "APP")
    OBVIOUS
  <2>4. Live(c) /\ c.proto = "tcppkg" /\ c \in PkgConn
    BY <1>1, <2>1, <2>2 DEF Running
  <2>5. \/ /\ p.ret = "more" /\ Len(c.rbl) < 2
           /\ \E x \in {"HEAD", "BODY"} :
                /\ p.c = AtStep(c, x)
                /\ x = "BODY" => c.rbl # <<>> /\ c.rbl[1].kind # "bad"
        \/ p.ret = "bad" /\ Like(c, p.c)
        \/ /\ p.ret = "package" /\ Len(c.rbl) >= 2 /\ c.rbl[1].kind = "app"
           /\ p.got = c.rbl[1]
           /\ p.c = Ahead(c)
           /\ p.c \in PkgConn
    <3>1. PICK type : type = "APP"
      OBVIOUS
    <3>2. \/ /\ p.ret = "more" /\ Len(c.rbl) < 2
             /\ \E x \in {"HEAD", "BODY"} :
                  /\ p.c = AtStep(c, x)
                  /\ x = "BODY" => c.rbl # <<>> /\ c.rbl[1].kind # "bad"
          \/ p.ret = "bad" /\ Like(c, p.c) /\ p.c.st = c.st
          \/ /\ p.ret = "package" /\ Len(c.rbl) >= 2 /\ c.rbl[1].kind \in Pkg!Kinds \ {"bad"}
             /\ type = "APP" <=> c.rbl[1].kind = "app"
             /\ p.got = c.rbl[1]
             /\ p.c = Ahead(c)
             /\ p.c \in PkgConn
      <4>1. type \in {"APP", "SYS"} /\ p = Pkg!RecvPkg(c, type)
        BY <2>3, <3>1
      <4> HIDE <3>1
      <4>2. QED
        BY <2>4, <4>1, PkgReceives
    <3>3. QED
      BY <3>1, <3>2
  <2>6. PICK broken : broken = IF s.unreachable THEN Pkg!Lost(p.c) ELSE Pkg!Shut(Pkg!NotifyClose(p.c))
    OBVIOUS
  <2>7. /\ p.ret = "more" => Pkg!RecvTurn(s) = [s EXCEPT !.c = p.c, !.done = TRUE]
        /\ p.ret = "bad" => Pkg!RecvTurn(s) = [s EXCEPT !.c = broken, !.done = TRUE]
        /\ p.ret = "package" => Pkg!RecvTurn(s) = [s EXCEPT !.c = Pkg!Tell(p.c, "RECV", p.got.n)]
    BY <1>5, <2>2, <2>3, <2>6 DEF Pkg!RecvTurn
  <2>8. CASE p.ret = "more"
    <3>1. Finished(b, p.c)
      <4>1. PICK x \in {"HEAD", "BODY"} :
              p.c = AtStep(c, x) /\ (x = "BODY" => c.rbl # <<>> /\ c.rbl[1].kind # "bad")
        BY <2>5, <2>8
      <4>2. Running(b, c) /\ Len(c.rbl) < 2
        BY <2>1, <2>2, <2>5, <2>8
      <4>3. Finished(b, AtStep(c, x))
        BY <4>1, <4>2, RunsOut DEF AtStep
      <4>4. QED
        BY <4>1, <4>3, Zenon
    <3>2. p.c \in PkgConn
      BY <3>1 DEF Finished, PkgInv
    <3>3. PICK t : t = Pkg!RecvTurn(s)
      OBVIOUS
    <3>4. t = [c |-> p.c, unreachable |-> s.unreachable, done |-> TRUE]
      BY <1>1, <2>7, <2>8, <3>3
    <3>5. t \in PkgTurns(b)
      BY <1>1, <3>1, <3>2, <3>4 DEF PkgTurns
    <3>6. PkgLeft(t) = 0 /\ PkgLeft(s) > 0
      BY <1>3, <1>5, <3>4 DEF PkgLeft
    <3>7. QED
      BY <1>3, <3>3, <3>5, <3>6
  <2>9. CASE p.ret = "bad"
    <3>1. Like(c, p.c)
      BY <2>5, <2>9
    <3>2. s.unreachable => Finished(b, Gone(p.c))
      BY <2>1, <2>2, <3>1, RunsDown
    <3>3. ~s.unreachable => Finished(b, Shut(Tell(p.c, "CLOSE", 0)))
      BY <2>1, <2>2, <3>1, RunsDown DEF Like
    <3>4. Finished(b, broken)
      BY <2>6, <3>2, <3>3, PkgGone
    <3>5. broken \in PkgConn
      BY <3>4 DEF Finished, PkgInv
    <3>6. PICK t : t = Pkg!RecvTurn(s)
      OBVIOUS
    <3>7. t = [c |-> broken, unreachable |-> s.unreachable, done |-> TRUE]
      BY <1>1, <2>7, <2>9, <3>6
    <3>8. t \in PkgTurns(b)
      BY <1>1, <3>4, <3>5, <3>7 DEF PkgTurns
    <3>9. PkgLeft(t) = 0 /\ PkgLeft(s) > 0
      BY <1>3, <1>5, <3>7 DEF PkgLeft
    <3>10. QED
      BY <1>3, <3>6, <3>8, <3>9
  <2>10. CASE p.ret = "package"
    <3>1. PICK d : d = Pkg!Tell(p.c, "RECV", p.got.n)
      OBVIOUS
    <3>2. PICK told, q : told = Append(c.told, Note("RECV", c.rbl[1].n)) /\ q = Rest(c.rbl)
      OBVIOUS
    <3>3. c.told \in Seq(AnyNote) /\ c.rbl \in Seq(Unit) /\ c.pr \in PkgParser
      BY <2>4, PkgFields
    <3>4. told \in Seq(AnyNote)
      <4>1. c.rbl[1] \in Unit
        BY <2>5, <2>10, <3>3
      <4>2. Note("RECV", c.rbl[1].n) \in AnyNote
        BY <4>1 DEF Note, AnyNote, Notices, Unit
      <4>3. QED
        BY <3>2, <3>3, <4>2
    <3>5. d = [p.c EXCEPT !.told = told]
      <4>1. p.c.told = c.told /\ p.got.n = c.rbl[1].n
        BY <2>4, <2>5, <2>10 DEF PkgConn, Conns, Ahead
      <4>2. QED
        BY <3>1, <3>2, <4>1 DEF Pkg!Tell, Pkg!Note, Note
    <3>6. /\ d \in PkgConn /\ d.pr.step = "HEAD" /\ d.told = told /\ d.rbl = q /\ d.wbl = c.wbl
          /\ d.proto = c.proto /\ d.role = c.role /\ d.st = c.st /\ d.linked = c.linked
          /\ d.came = c.came /\ d.up = c.up /\ d.bye = c.bye
      <4>1. PICK e : e = p.c
        OBVIOUS
      <4>2. e \in PkgConn /\ e = [c EXCEPT !.pr.step = "HEAD", !.rbl = q] /\ d = [e EXCEPT !.told = told]
        BY <2>5, <2>10, <3>2, <3>5, <4>1 DEF Ahead
      <4>3. /\ e.pr.step = "HEAD" /\ e.rbl = q /\ e.wbl = c.wbl
            /\ e.proto = c.proto /\ e.role = c.role /\ e.st = c.st /\ e.linked = c.linked
            /\ e.came = c.came /\ e.up = c.up /\ e.bye = c.bye
        BY <2>4, <3>3, <4>2 DEF PkgConn, Conns, PkgParser
      <4>4. d \in PkgConn
        BY <3>4, <4>2 DEF PkgConn, Conns
      <4>5. /\ d.pr = e.pr /\ d.told = told /\ d.rbl = e.rbl /\ d.wbl = e.wbl
            /\ d.proto = e.proto /\ d.role = e.role /\ d.st = e.st /\ d.linked = e.linked
            /\ d.came = e.came /\ d.up = e.up /\ d.bye = e.bye
        BY <4>2 DEF PkgConn, Conns
      <4>6. QED
        BY <4>3, <4>4, <4>5
    <3>7. Running(b, d) /\ Len(d.rbl) = Len(c.rbl) - 2
      <4>1. Running(b, c) /\ Len(c.rbl) >= 2 /\ c.rbl[1].kind = "app"
        BY <2>1, <2>2, <2>5, <2>10
      <4>2. d.told = Append(c.told, Note("RECV", c.rbl[1].n)) /\ d.rbl = Rest(c.rbl)
        BY <3>2, <3>6
      <4>3. QED
        BY <3>6, <4>1, <4>2, RunsOn
    <3>8. PICK t : t = Pkg!RecvTurn(s)
      OBVIOUS
    <3>9. t = [c |-> d, unreachable |-> s.unreachable, done |-> FALSE]
      BY <1>1, <1>5, <2>7, <2>10, <3>1, <3>8
    <3>10. t \in PkgTurns(b)
      BY <1>1, <2>1, <2>2, <3>6, <3>7, <3>9 DEF PkgTurns
    <3>11. PkgLeft(t) < PkgLeft(s)
      BY <1>3, <1>5, <2>2, <2>5, <2>10, <3>7, <3>9 DEF PkgLeft
    <3>12. QED
      BY <1>3, <3>8, <3>10, <3>11
  <2>11. QED
    BY <2>5, <2>8, <2>9, <2>10
<1>6. QED
  BY <1>1, <1>4, <1>5

\* After enough turns the loop is over.
LEMMA PkgLoop ==
  ASSUME NEW b, Begun(b), b.proto = "tcppkg", NEW s \in PkgTurns(b), NEW n \in Nat,
         PkgLeft(s) <= n
  PROVE  Finished(b, Pkg!Turns(Pkg!RecvTurn, s, n).c)
<1> DEFINE Q == PkgTurns(b)
           F == [k \in 1 .. n |-> [x \in Q |-> Pkg!RecvTurn(x)]]
           Step(f) == [k \in 0 .. n |-> IF k = 0 THEN s ELSE Pkg!RecvTurn(f[k - 1])]
<1>1. F \in [1 .. n -> [Q -> Q]]
  <2>1. \A x \in Q : Pkg!RecvTurn(x) \in Q /\ PkgLeft(x) \in Nat
    BY PkgTurn
  <2> HIDE DEF Q
  <2>2. QED
    BY <2>1
<1>2. PICK p \in [0 .. n -> Q] : Loop(p, n, s, F)
  <2> HIDE DEF F
  <2>1. s \in Q
    OBVIOUS
  <2> HIDE DEF Q
  <2>2. QED
    BY <1>1, <2>1, LoopRuns
<1>3. ASSUME NEW k \in 1 .. n
      PROVE  p[k - 1] \in Q /\ p[k] \in Q /\ p[k] = Pkg!RecvTurn(p[k - 1])
  <2>0. k - 1 \in 0 .. n /\ k \in 0 .. n
    OBVIOUS
  <2>1. p[k - 1] \in Q /\ p[k] \in Q /\ p[k] = F[k][p[k - 1]]
    <3> HIDE DEF F, Q
    <3>1. QED
      BY <1>2, <2>0 DEF Loop
  <2>2. F[k] = [x \in Q |-> Pkg!RecvTurn(x)]
    OBVIOUS
  <2> HIDE DEF F, Q
  <2>3. QED
    BY <2>1, <2>2
<1>4. p[0] = s
  BY <1>2 DEF Loop
<1>5. p = Step(p)
  <2>1. \A k \in 0 .. n : p[k] = Step(p)[k]
    <3>1. ASSUME NEW k \in 0 .. n, k # 0
          PROVE  k \in 1 .. n
      BY <3>1
    <3> HIDE DEF Q
    <3>2. QED
      BY <1>3, <1>4, <3>1
  <2> HIDE DEF Q
  <2>2. QED
    BY <1>2, <2>1
<1>6. PICK f : f = Step(f) /\ Pkg!Turns(Pkg!RecvTurn, s, n) = f[n]
  <2> DEFINE f == CHOOSE g : g = Step(g)
  <2>1. f = Step(f)
    <3> HIDE DEF Step
    <3>1. QED
      BY <1>5
  <2>2. Pkg!Turns(Pkg!RecvTurn, s, n) = f[n]
    BY DEF Pkg!Turns
  <2> HIDE DEF f
  <2>3. QED
    BY <2>1, <2>2
<1>7. \A k \in 0 .. n : f[k] = IF k = 0 THEN s ELSE Pkg!RecvTurn(f[k - 1])
  BY <1>6
<1> DEFINE T == {k \in 0 .. n : f[k] = p[k]}
<1>8. 0 \in T
  BY <1>4, <1>7
<1>9. ASSUME NEW k \in 0 .. n - 1, k \in T
      PROVE  k + 1 \in T
  <2>1. k + 1 \in 1 .. n /\ k + 1 \in 0 .. n /\ (k + 1) - 1 = k /\ k + 1 # 0
    OBVIOUS
  <2>2. QED
    BY <1>3, <1>7, <1>9, <2>1
<1>10. \A k \in 0 .. n : k \in T
  <2> HIDE DEF T
  <2>1. QED
    BY <1>8, <1>9, Ascends
<1>11. p[n] = f[n] /\ p[n] \in Q
  <2> HIDE DEF Q
  <2>1. QED
    BY <1>2, <1>10
<1> DEFINE m == [k \in 0 .. n |-> PkgLeft(p[k])]
<1>12. /\ m \in [0 .. n -> Nat] /\ m[0] <= n
       /\ \A k \in 1 .. n : m[k] < m[k - 1] \/ (m[k] = 0 /\ m[k - 1] = 0)
  <2>1. \A k \in 0 .. n : p[k] \in PkgTurns(b) /\ PkgLeft(p[k]) \in Nat
    BY <1>2, PkgTurn
  <2>2. m \in [0 .. n -> Nat]
    BY <2>1
  <2>3. m[0] <= n
    BY <1>4
  <2>4. ASSUME NEW k \in 1 .. n
        PROVE  m[k] < m[k - 1] \/ (m[k] = 0 /\ m[k - 1] = 0)
    <3>1. m[k] = PkgLeft(p[k]) /\ m[k - 1] = PkgLeft(p[k - 1])
      OBVIOUS
    <3>2. p[k - 1] \in PkgTurns(b) /\ p[k] = Pkg!RecvTurn(p[k - 1])
      BY <1>3
    <3>3. QED
      BY <3>1, <3>2, PkgTurn
  <2> HIDE DEF m
  <2>5. QED
    BY <2>2, <2>3, <2>4
<1>13. m[n] = PkgLeft(p[n])
  OBVIOUS
<1>14. m[n] = 0
  <2> HIDE DEF m
  <2>1. QED
    BY <1>12, LoopEnds
<1>15. PkgLeft(p[n]) = 0
  BY <1>13, <1>14
<1>16. p[n].done
  <2>1. p[n].c \in PkgConn
    BY <1>11 DEF PkgTurns
  <2>2. Len(p[n].c.rbl) \in Nat
    BY <2>1, PkgFields
  <2>3. QED
    BY <1>11, <1>15, <2>2 DEF PkgLeft, PkgTurns
<1>17. Finished(b, p[n].c)
  BY <1>11, <1>16 DEF PkgTurns
<1>18. QED
  BY <1>6, <1>11, <1>17, Zenon

-----------------------------------------------------------------------------
(* What one poll may have read.                                            *)

\* A unit more of what came, at the end of the read buffer.
Fed(c, u) == [c EXCEPT !.rbl = Append(@, u), !.came = Append(@, u)]

\* A set that is closed under one unit more has all that a poll may read.
LEMMA ReadsIn ==
  ASSUME NEW Q, NEW c \in Q, \A d \in Q : \A u \in NextUnits(d) : Fed(d, u) \in Q
  PROVE  Reads(c) \subseteq Q
<1> DEFINE n == MaxUnit
           More(d) == IF Len(d.came) >= MaxUnit THEN {}
                      ELSE {[d EXCEPT !.rbl = Append(@, u), !.came = Append(@, u)] :
                              u \in NextUnits(d)}
           A == SUBSET Q
           F == [k \in 1 .. n |-> [a \in A |-> UNION {More(d) : d \in a}]]
           Step(f) == [k \in 0 .. n |-> IF k = 0 THEN {c} ELSE UNION {More(d) : d \in f[k - 1]}]
<1>0. n \in Nat
  BY NetAssumption
<1>1. F \in [1 .. n -> [A -> A]]
  <2>1. \A d \in Q : More(d) \subseteq Q
    BY DEF Fed
  <2> HIDE DEF More
  <2>2. \A a \in A : UNION {More(d) : d \in a} \in A
    BY <2>1
  <2> HIDE DEF A
  <2>3. QED
    BY <2>2
<1>2. PICK p \in [0 .. n -> A] : Loop(p, n, {c}, F)
  <2>1. {c} \in A
    OBVIOUS
  <2> HIDE DEF F, A, n
  <2>2. QED
    BY <1>0, <1>1, <2>1, LoopRuns
<1>3. ASSUME NEW k \in 1 .. n
      PROVE  p[k] = UNION {More(d) : d \in p[k - 1]}
  <2>0. k - 1 \in 0 .. n /\ k \in 0 .. n
    BY <1>0
  <2>1. p[k - 1] \in A /\ p[k] = F[k][p[k - 1]]
    <3> HIDE DEF F, A, n
    <3>1. QED
      BY <1>2, <2>0 DEF Loop
  <2> HIDE DEF More
  <2>2. F[k] = [a \in A |-> UNION {More(d) : d \in a}]
    OBVIOUS
  <2> HIDE DEF F, A
  <2>3. QED
    BY <2>1, <2>2
<1>4. p[0] = {c}
  BY <1>2 DEF Loop
<1>5. p = Step(p)
  <2> HIDE DEF More
  <2>1. \A k \in 0 .. n : p[k] = Step(p)[k]
    <3>1. ASSUME NEW k \in 0 .. n, k # 0
          PROVE  k \in 1 .. n
      BY <1>0, <3>1
    <3> HIDE DEF A, n
    <3>2. QED
      BY <1>3, <1>4, <3>1
  <2> HIDE DEF A, n
  <2>2. QED
    BY <1>2, <2>1
<1>6. PICK f : f = Step(f) /\ Reads(c) = UNION {f[k] : k \in 1 .. n}
  <2> DEFINE f == CHOOSE g : g = Step(g)
  <2>1. f = Step(f)
    <3> HIDE DEF Step
    <3>1. QED
      BY <1>5
  <2>2. Reads(c) = UNION {f[k] : k \in 1 .. n}
    BY DEF Reads
  <2> HIDE DEF f, Step, More, n
  <2>3. QED
    BY <2>1, <2>2
<1> HIDE DEF More
<1>7. \A k \in 0 .. n : f[k] = IF k = 0 THEN {c} ELSE UNION {More(d) : d \in f[k - 1]}
  BY <1>6
<1> DEFINE T == {k \in 0 .. n : f[k] = p[k]}
<1>8. 0 \in T
  <2>1. 0 \in 0 .. n
    BY <1>0
  <2>2. f[0] = {c}
    BY <1>7, <2>1
  <2>3. QED
    BY <1>4, <2>1, <2>2
<1>9. ASSUME NEW k \in 0 .. n - 1, k \in T
      PROVE  k + 1 \in T
  <2>1. k + 1 \in 1 .. n /\ k + 1 \in 0 .. n /\ (k + 1) - 1 = k /\ k + 1 # 0 /\ k \in 0 .. n
    BY <1>0
  <2>2. f[k] = p[k]
    BY <1>9
  <2>3. f[k + 1] = UNION {More(d) : d \in f[k]}
    BY <1>7, <2>1
  <2>4. p[k + 1] = UNION {More(d) : d \in p[k]}
    BY <1>3, <2>1
  <2>5. QED
    BY <2>1, <2>2, <2>3, <2>4
<1>10. \A k \in 0 .. n : k \in T
  <2> HIDE DEF T
  <2>1. QED
    BY <1>0, <1>8, <1>9, Ascends
<1>11. \A k \in 1 .. n : f[k] \subseteq Q
  <2>1. \A k \in 1 .. n : k \in 0 .. n
    BY <1>0
  <2>2. \A k \in 1 .. n : f[k] = p[k] /\ p[k] \in A
    <3> HIDE DEF n, A
    <3>1. QED
      BY <1>2, <1>10, <2>1
  <2>3. QED
    BY <2>2
<1>12. QED
  <2> HIDE DEF Step, n
  <2>1. Reads(c) = UNION {f[k] : k \in 1 .. n}
    BY <1>6
  <2>2. QED
    BY <1>11, <2>1

\* A unit more changes the buffer and the history, and nothing else.
LEMMA FedFields ==
  ASSUME NEW P, NEW R, NEW c \in Conns(P, R), NEW u \in Unit
  PROVE  /\ Fed(c, u) \in Conns(P, R)
         /\ \A d \in {Fed(c, u)} :
              /\ d.rbl = Append(c.rbl, u) /\ d.came = Append(c.came, u)
              /\ d.proto = c.proto /\ d.role = c.role /\ d.st = c.st /\ d.linked = c.linked
              /\ d.wbl = c.wbl /\ d.told = c.told /\ d.up = c.up /\ d.bye = c.bye
              /\ d.pr = c.pr /\ d.old = c.old /\ d.sent = c.sent
<1>1. PICK r, s : r = Append(c.rbl, u) /\ s = Append(c.came, u)
  OBVIOUS
<1>2. r \in Seq(Unit) /\ s \in Seq(Unit)
  BY <1>1 DEF Conns
<1>3. Fed(c, u) = [c EXCEPT !.rbl = r, !.came = s]
  BY <1>1 DEF Fed
<1>4. PICK d : d = Fed(c, u)
  OBVIOUS
<1>5. d \in Conns(P, R)
  BY <1>2, <1>3, <1>4 DEF Conns
<1>6. /\ d.rbl = r /\ d.came = s
      /\ d.proto = c.proto /\ d.role = c.role /\ d.st = c.st /\ d.linked = c.linked
      /\ d.wbl = c.wbl /\ d.told = c.told /\ d.up = c.up /\ d.bye = c.bye
      /\ d.pr = c.pr /\ d.old = c.old /\ d.sent = c.sent
  BY <1>3, <1>4 DEF Conns
<1>7. QED
  BY <1>1, <1>4, <1>5, <1>6

-----------------------------------------------------------------------------
(* The units of a package.                                                 *)

\* The next unit is the rest of a package, or the head of another.
LEMMA NextIs ==
  ASSUME NEW c \in PkgConn, NEW u \in NextUnits(c)
  PROVE  /\ u \in Unit
         /\ \/ /\ c.came # <<>> /\ c.came[Len(c.came)].part = 1 /\ u.part = 2
               /\ u.kind = c.came[Len(c.came)].kind /\ u.n = c.came[Len(c.came)].n
            \/ /\ c.came = <<>> \/ c.came[Len(c.came)].part = 2
               /\ u.part = 1 /\ u.kind \in KindsOf(c.proto)
<1>1. c.proto \in {"tcpsac", "tcppkg"} /\ c.came \in Seq(Unit)
  BY PkgFields
<1>2. PICK s : s = c.came
  OBVIOUS
<1>3. s \in Seq(Unit) /\ Len(s) \in Nat
  BY <1>1, <1>2
<1>4. PICK l : l = IF s = <<>> THEN [kind |-> "none", part |-> 0, n |-> 0] ELSE s[Len(s)]
  OBVIOUS
<1>5. s # <<>> => l = s[Len(s)] /\ l \in Unit
  BY <1>3, <1>4
<1>6. s = <<>> => l.part = 0 /\ l.n = 0
  BY <1>4
<1>7. u \in IF l.part = 1 THEN {[l EXCEPT !.part = 2]}
            ELSE {[kind |-> k, part |-> 1, n |-> l.n + 1] :
                    k \in IF c.proto = "tcpsac" THEN Sac!Kinds ELSE Pkg!Kinds}
  BY <1>1, <1>2, <1>4 DEF NextUnits
<1>8. CASE l.part = 1
  <2>1. s # <<>> /\ l = s[Len(s)] /\ l \in Unit
    BY <1>5, <1>6, <1>8
  <2>2. u = [l EXCEPT !.part = 2]
    BY <1>7, <1>8
  <2>3. u \in Unit /\ u.part = 2 /\ u.kind = l.kind /\ u.n = l.n
    BY <2>1, <2>2 DEF Unit
  <2>4. QED
    BY <1>2, <1>8, <2>1, <2>3
<1>9. CASE l.part # 1
  <2>1. PICK k \in KindsOf(c.proto) : u = [kind |-> k, part |-> 1, n |-> l.n + 1]
    BY <1>7, <1>9 DEF KindsOf
  <2>2. l.n \in Nat
    BY <1>5, <1>6 DEF Unit
  <2>3. k \in UnitKinds
    BY DEF KindsOf, Sac!Kinds, Pkg!Kinds, UnitKinds
  <2>4. u \in Unit /\ u.part = 1 /\ u.kind = k
    BY <2>1, <2>2, <2>3 DEF Unit
  <2>5. s = <<>> \/ s[Len(s)].part = 2
    BY <1>5, <1>9 DEF Unit
  <2>6. QED
    BY <1>2, <2>4, <2>5
<1>10. QED
  BY <1>8, <1>9

\* One unit more leaves a live connection alive.
LEMMA FedLives ==
  ASSUME NEW c, Live(c), NEW u \in NextUnits(c)
  PROVE  Live(Fed(c, u))
<1>1. c \in PkgConn /\ c.rbl \in Seq(Unit) /\ c.came \in Seq(Unit) /\ c.told \in Seq(AnyNote)
  BY PkgFields DEF Live
<1>2. PICK d : d = Fed(c, u)
  OBVIOUS
<1>3. /\ u \in Unit
      /\ \/ /\ c.came # <<>> /\ c.came[Len(c.came)].part = 1 /\ u.part = 2
            /\ u.kind = c.came[Len(c.came)].kind /\ u.n = c.came[Len(c.came)].n
         \/ /\ c.came = <<>> \/ c.came[Len(c.came)].part = 2
            /\ u.part = 1 /\ u.kind \in KindsOf(c.proto)
  BY <1>1, NextIs
<1>4. /\ d \in PkgConn /\ d.rbl = Append(c.rbl, u) /\ d.came = Append(c.came, u)
      /\ d.proto = c.proto /\ d.role = c.role /\ d.st = c.st /\ d.linked = c.linked
      /\ d.told = c.told /\ d.up = c.up /\ d.bye = c.bye /\ d.pr = c.pr
  <2>1. PICK P, R : PkgConn = Conns(P, R)
    BY DEF PkgConn
  <2>2. c \in Conns(P, R)
    BY <1>1, <2>1
  <2>3. QED
    BY <1>2, <1>3, <2>1, <2>2, FedFields
<1>5. PICK r, s : r = c.rbl /\ s = c.came
  OBVIOUS
<1>6. /\ r \in Seq(Unit) /\ s \in Seq(Unit) /\ Len(r) \in Nat /\ Len(s) \in Nat
  BY <1>1, <1>5
<1>7. /\ Paired(r) /\ \A i \in 1 .. Len(r) : r[i].kind \in KindsOf(c.proto)
      /\ r # <<>> => s # <<>> /\ s[Len(s)] = r[Len(r)]
      /\ r = <<>> /\ s # <<>> => s[Len(s)].part = 2
      /\ c.pr.step \in {"HEAD", "BODY"}
      /\ c.pr.step = "BODY" => r # <<>> /\ r[1].kind # "bad"
  BY <1>5 DEF Live, Unparsed
<1>8. PICK q, t : q = Append(r, u) /\ t = Append(s, u)
  OBVIOUS
<1>9. /\ q \in Seq(Unit) /\ Len(q) = Len(r) + 1 /\ q[Len(r) + 1] = u
      /\ \A i \in 1 .. Len(r) : q[i] = r[i]
      /\ t \in Seq(Unit) /\ Len(t) = Len(s) + 1 /\ t[Len(s) + 1] = u
  BY <1>3, <1>6, <1>8, AppendProperties
<1>10. \/ /\ r # <<>> /\ r[Len(r)].part = 1 /\ u.part = 2
          /\ u.kind = r[Len(r)].kind /\ u.n = r[Len(r)].n
       \/ /\ r # <<>> => r[Len(r)].part = 2
          /\ u.part = 1 /\ u.kind \in KindsOf(c.proto)
  BY <1>3, <1>5, <1>7
<1>11. Unparsed(d)
  <2>1. q[1].part = 1
    <3>1. CASE r = <<>>
      BY <1>6, <1>9, <1>10, <3>1
    <3>2. CASE r # <<>>
      <4>1. r[1].part = 1 /\ 1 \in 1 .. Len(r)
        BY <1>6, <1>7, <3>2 DEF Paired
      <4>2. QED
        BY <1>9, <4>1
    <3>3. QED
      BY <3>1, <3>2
  <2>2. ASSUME NEW i \in 1 .. Len(q) - 1
        PROVE  IF q[i].part = 1
               THEN q[i + 1].part = 2 /\ q[i + 1].kind = q[i].kind /\ q[i + 1].n = q[i].n
               ELSE q[i + 1].part = 1
    <3>1. CASE i = Len(r)
      <4>1. r # <<>> /\ q[i] = r[Len(r)] /\ q[i + 1] = u
        BY <1>6, <1>9, <3>1
      <4>2. QED
        BY <1>10, <4>1
    <3>2. CASE i # Len(r)
      <4>1. i \in 1 .. Len(r) - 1 /\ i \in 1 .. Len(r) /\ i + 1 \in 1 .. Len(r)
        BY <1>6, <1>9, <3>2
      <4>2. q[i] = r[i] /\ q[i + 1] = r[i + 1]
        BY <1>9, <4>1
      <4>3. QED
        BY <1>7, <4>1, <4>2 DEF Paired
    <3>3. QED
      BY <3>1, <3>2
  <2>3. Paired(q)
    BY <2>1, <2>2 DEF Paired
  <2>4. ASSUME NEW i \in 1 .. Len(q)
        PROVE  q[i].kind \in KindsOf(c.proto)
    <3>1. CASE i = Len(r) + 1
      BY <1>6, <1>7, <1>9, <1>10, <3>1
    <3>2. CASE i # Len(r) + 1
      BY <1>6, <1>7, <1>9, <3>2
    <3>3. QED
      BY <3>1, <3>2
  <2>5. q # <<>> /\ t # <<>> /\ t[Len(t)] = q[Len(q)]
    BY <1>6, <1>9
  <2>6. d.pr.step = "BODY" => q[1].kind # "bad"
    <3>1. r # <<>> => q[1] = r[1]
      BY <1>6, <1>9
    <3>2. QED
      BY <1>4, <1>7, <3>1
  <2>7. KindsOf(d.proto) = KindsOf(c.proto)
    BY <1>4, Zenon
  <2>8. d.rbl = q /\ d.came = t /\ d.pr.step \in {"HEAD", "BODY"}
    BY <1>4, <1>5, <1>7, <1>8
  <2>9. QED
    BY <2>3, <2>4, <2>5, <2>6, <2>7, <2>8 DEF Unparsed
<1>12. Kept(d)
  <2>1. /\ Chosen(q, App) = IF u \in App THEN Append(Chosen(r, App), u) ELSE Chosen(r, App)
        /\ Chosen(t, App) = IF u \in App THEN Append(Chosen(s, App), u) ELSE Chosen(s, App)
    <3>1. Chosen(q, App) = IF u \in App THEN Append(Chosen(r, App), u) ELSE Chosen(r, App)
      BY <1>3, <1>6, <1>8, ChosenAppend
    <3>2. Chosen(t, App) = IF u \in App THEN Append(Chosen(s, App), u) ELSE Chosen(s, App)
      BY <1>3, <1>6, <1>8, ChosenAppend
    <3>3. QED
      BY <3>1, <3>2
  <2>2. PICK a, b : a = Chosen(r, App) /\ b = Chosen(s, App)
    OBVIOUS
  <2>3. a \in Seq(Unit) /\ b \in Seq(Unit) /\ Numbers(a) \in Seq(Nat) /\ Numbers(b) \in Seq(Nat)
    BY <1>6, <2>2, UnitNumbers
  <2>4. Numbers(Append(a, u)) = Append(Numbers(a), u.n) /\ Numbers(Append(b, u)) = Append(Numbers(b), u.n)
    BY <1>3, <2>3, NumbersAppend
  <2>5. PICK g : g = Numbers(Got(c))
    OBVIOUS
  <2>6. g \in Seq(Nat)
    BY <1>1, <2>5, ToldType, Zenon DEF Got
  <2>7. g \o Numbers(a) = Numbers(b)
    BY <1>5, <2>2, <2>5 DEF Live, Kept, Whole, App
  <2>8. Got(d) = Got(c)
    BY <1>4 DEF Got, Told
  <2>9. u.n \in Nat
    BY <1>3 DEF Unit
  <2>10. g \o Numbers(Chosen(q, App)) = Numbers(Chosen(t, App))
    <3>1. CASE u \in App
      <4>1. g \o Append(Numbers(a), u.n) = Append(g \o Numbers(a), u.n)
        <5>1. PICK x, y : x = Numbers(a) /\ y = u.n
          OBVIOUS
        <5>2. x \in Seq(Nat) /\ y \in Nat
          BY <2>3, <2>9, <5>1
        <5>3. g \o Append(x, y) = Append(g \o x, y)
          BY ONLY <2>6, <5>2, ConcatAppend
        <5>4. QED
          BY <5>1, <5>3, Zenon
      <4>2. QED
        BY <2>1, <2>2, <2>4, <2>7, <3>1, <4>1, Zenon
    <3>2. CASE u \notin App
      BY <2>1, <2>2, <2>7, <3>2, Zenon
    <3>3. QED
      BY <3>1, <3>2
  <2>11. Numbers(Got(d)) \o Numbers(Chosen(d.rbl, App)) = Numbers(Chosen(d.came, App))
    BY <1>4, <1>5, <1>8, <2>5, <2>8, <2>10, Zenon
  <2>12. QED
    BY <2>11, Zenon DEF Kept, Whole, App
<1>13. Told(d, "UNREACH") = <<>>
  BY <1>4 DEF Told, Live
<1>14. QED
  BY <1>2, <1>4, <1>11, <1>12, <1>13 DEF Live

\* What was read of c is d.
ReadOf(c, d) ==
  /\ Live(d) /\ d.proto = c.proto /\ d.role = c.role /\ d.st = c.st /\ d.bye = c.bye
  /\ d.told = c.told /\ d.wbl = c.wbl /\ d.sent = c.sent
  /\ c.rbl = c.came => d.rbl = d.came
  /\ Checked(c) => Checked(d)

\* What a poll may have read of a tcpsac or tcppkg connection.
LEMMA PkgReads ==
  ASSUME NEW c, Live(c), NEW d \in Reads(c)
  PROVE  ReadOf(c, d)
<1> DEFINE Q == {e \in PkgConn : ReadOf(c, e)}
<1>1. c \in Q
  BY DEF ReadOf, Live
<1>2. ASSUME NEW e \in Q, NEW u \in NextUnits(e)
      PROVE  Fed(e, u) \in Q
  <2>1. ReadOf(c, e) /\ Live(e) /\ e \in PkgConn
    BY DEF ReadOf
  <2>2. PICK f : f = Fed(e, u)
    OBVIOUS
  <2>3. Live(f) /\ f \in PkgConn
    BY <2>1, <2>2, FedLives DEF Live
  <2>4. u \in Unit
    BY <2>1, NextIs
  <2>5. /\ f.rbl = Append(e.rbl, u) /\ f.came = Append(e.came, u)
        /\ f.proto = e.proto /\ f.role = e.role /\ f.st = e.st /\ f.told = e.told
        /\ f.wbl = e.wbl /\ f.bye = e.bye /\ f.sent = e.sent
    <3>1. PICK P, R : PkgConn = Conns(P, R)
      BY DEF PkgConn
    <3>2. e \in Conns(P, R)
      BY <2>1, <3>1
    <3>3. QED
      BY <2>2, <2>4, <3>2, FedFields
  <2>6. e.came \in Seq(Unit)
    BY <2>1, PkgFields
  <2>7. Checked(e) => Checked(f)
    <3>1. Len(e.came) >= 2 => Len(f.came) >= 2 /\ f.came[2] = e.came[2]
      BY <2>4, <2>5, <2>6
    <3>2. QED
      BY <2>5, <3>1 DEF Checked
  <2>8. c.rbl = c.came => f.rbl = f.came
    BY <2>1, <2>5 DEF ReadOf
  <2>9. QED
    BY <2>1, <2>2, <2>3, <2>5, <2>7, <2>8 DEF ReadOf
<1>3. Reads(c) \subseteq Q
  <2> HIDE DEF Q
  <2>1. QED
    BY <1>1, <1>2, ReadsIn
<1>4. QED
  BY <1>3

-----------------------------------------------------------------------------
(* Every handler of tcpsac and tcppkg.                                     *)

\* The invariant makes a connection that is not over a live one.
LEMMA LiveOf ==
  ASSUME NEW c, PkgInv(c), c.st # "CLOSE"
  PROVE  Live(c) /\ Begun(c) /\ c \in PkgConn
<1>1. c.st \in States /\ c.told \in Seq(AnyNote)
  BY PkgFields DEF PkgInv
<1>2. QED
  BY <1>1 DEF PkgInv, Common, Live, Begun

\* A step that does not touch the buffers leaves it alive.
LEMMA LiveSame ==
  ASSUME NEW c, NEW d \in PkgConn, Live(c), d.st # "CLOSE", d.up, ~d.bye, ~d.linked,
         d.proto = c.proto, d.rbl = c.rbl, d.came = c.came, d.pr.step \in {c.pr.step, "HEAD"},
         Got(d) = Got(c), Told(d, "UNREACH") = Told(c, "UNREACH")
  PROVE  Live(d)
<1>1. Unparsed(d)
  BY DEF Live, Unparsed
<1>2. Kept(d)
  BY DEF Live, Kept, Whole
<1>3. QED
  BY <1>1, <1>2 DEF Live

\* Buffers without an owner owe nobody a notice.
LEMMA NoOwner ==
  ASSUME NEW w \in Seq(Nat), \A i \in 1 .. Len(w) : w[i] = 0
  PROVE  Owned(w) = <<>>
<1>1. \A i \in 1 .. Len(w) : w[i] \notin Nat \ {0}
  OBVIOUS
<1>2. QED
  BY <1>1, ChosenNone DEF Owned

\* A connection that ends with a first and last notice.
LEMMA EndsAtOnce ==
  ASSUME NEW b, NEW c, NEW d, NEW e, NEW m \in AnyNote, Begun(b), Live(c), Like(c, d),
         c.proto = b.proto, c.role = b.role, c.bye = b.bye, c.told = <<>>, b.told = <<>>,
         m.t \in {"FAIL", "CLOSE"}, S!After(Phase(b), m) = "over",
         Owned(d.wbl) = <<>>,
         e = [d EXCEPT !.told = Append(<<>>, m), !.st = "CLOSE", !.up = FALSE]
  PROVE  Finished(b, e)
<1>1. /\ d \in PkgConn /\ d.proto = c.proto /\ d.role = c.role /\ d.bye = c.bye
      /\ d.told = c.told /\ d.came = c.came /\ ~d.linked
  BY DEF Like
<1>2. PICK told : told = Append(<<>>, m)
  OBVIOUS
<1>3. told \in Seq(AnyNote)
  BY <1>2
<1>4. e = [d EXCEPT !.told = told, !.st = "CLOSE", !.up = FALSE]
  BY <1>2
<1>5. /\ e \in PkgConn /\ e.told = told /\ e.st = "CLOSE" /\ ~e.up
      /\ e.proto = c.proto /\ e.role = c.role /\ e.bye = c.bye /\ e.came = c.came
      /\ ~e.linked /\ e.wbl = d.wbl
  BY <1>1, <1>3, <1>4, ZenonT(30) DEF PkgConn, Conns, States
<1>6. PICK told0 \in Seq(AnyNote) : told0 = c.told
  BY PkgFields DEF Live
<1>7. e.told = Append(c.told, m) /\ c.told \in Seq(AnyNote)
  BY <1>2, <1>5, <1>6
<1>8. Got(e) = Got(c) /\ Told(e, "UNREACH") = Told(c, "UNREACH")
  BY <1>7, GotSame
<1>9. Numbers(Told(e, "UNREACH")) = Owned(e.wbl)
  BY <1>5, <1>8, NumbersEmpty DEF Live
<1>10. ~HeardOf(e)
  <2>1. Len(e.told) = 1 /\ e.told[1] = m
    BY <1>2, <1>5
  <2>2. QED
    BY <2>1 DEF HeardOf
<1>11. PkgInv(e)
  BY <1>5, <1>8, <1>9, <1>10, Ends
<1>12. Tells(b, e, "over")
  <2>1. Tells(b, c, Phase(b))
    BY <1>6, TellsNothing DEF Begun
  <2>2. PICK at : at = Phase(b)
    OBVIOUS
  <2>3. Tells(b, e, S!After(at, m))
    BY <1>7, <2>1, <2>2, TellsMore DEF Begun
  <2>4. QED
    BY <2>2, <2>3
<1>13. Phase(e) = "over"
  BY <1>5 DEF Phase
<1>14. QED
  BY <1>5, <1>11, <1>12, <1>13 DEF Finished, Moves, Ats

\* One that was offered ends without a notice.
LEMMA EndsUnheard ==
  ASSUME NEW b, NEW c, NEW d, NEW e, Begun(b), Live(c), Like(c, d),
         c.proto = b.proto, c.role = b.role, c.bye = b.bye, c.told = <<>>, b.told = <<>>,
         Phase(b) = "offered", Owned(d.wbl) = <<>>,
         e = [d EXCEPT !.st = "CLOSE", !.up = FALSE]
  PROVE  Finished(b, e)
<1>1. /\ d \in PkgConn /\ d.proto = c.proto /\ d.role = c.role /\ d.bye = c.bye
      /\ d.told = c.told /\ d.came = c.came /\ ~d.linked
  BY DEF Like
<1>2. /\ e \in PkgConn /\ e.told = c.told /\ e.st = "CLOSE" /\ ~e.up
      /\ e.proto = c.proto /\ e.role = c.role /\ e.bye = c.bye /\ e.came = c.came
      /\ ~e.linked /\ e.wbl = d.wbl
  BY <1>1 DEF PkgConn, Conns, States
<1>3. Got(e) = Got(c) /\ Told(e, "UNREACH") = Told(c, "UNREACH")
  BY <1>2 DEF Got, Told
<1>4. Numbers(Told(e, "UNREACH")) = Owned(e.wbl)
  BY <1>2, <1>3, NumbersEmpty DEF Live
<1>5. ~HeardOf(e)
  BY <1>2 DEF HeardOf
<1>6. PkgInv(e)
  BY <1>2, <1>3, <1>4, <1>5, Ends
<1>7. Tells(b, e, "offered")
  BY <1>2, TellsNothing DEF Begun
<1>8. Phase(e) = "over"
  BY <1>2 DEF Phase
<1>9. QED
  BY <1>2, <1>6, <1>7, <1>8 DEF Finished, Moves, Ats

\* One that goes on waiting.
LEMMA WaitsOn ==
  ASSUME NEW b, NEW c, Begun(b), Live(c), Common(c), c.told = b.told,
         c.proto = b.proto, c.role = b.role, c.bye = b.bye, Phase(c) = Phase(b),
         c.st \notin {"TRANS", "CLOSE"}, Early(c), c.st = "CONNECTING" => c.came = <<>>
  PROVE  Finished(b, c)
<1>1. IsPrefix(Numbers(Got(c)), Numbers(Whole(c)))
  BY KeptPrefix DEF Live
<1>2. ~HeardOf(c)
  BY DEF Early, HeardOf
<1>3. PkgInv(c)
  BY <1>1, <1>2 DEF PkgInv, Live
<1>4. Tells(b, c, Phase(b))
  BY TellsNothing DEF Begun
<1>5. Phase(b) \in Ats \ {"wrong", "ending"}
  BY PhaseType DEF Begun, Ats
<1>6. QED
  BY <1>3, <1>4, <1>5 DEF Finished, Moves

\* One that opens.
LEMMA OpensUp ==
  ASSUME NEW b, NEW c, NEW d, NEW m \in AnyNote, Begun(b), Live(c), d \in PkgConn,
         c.proto = b.proto, c.role = b.role, c.bye = b.bye, c.told = <<>>, b.told = <<>>,
         d.proto = c.proto, d.role = c.role, d.bye = c.bye, d.came = c.came, d.rbl = c.rbl,
         d.pr.step \in {c.pr.step, "HEAD"}, ~d.linked, d.up, d.st = "TRANS",
         d.told = Append(<<>>, m), m.t \in {"CONNECT", "ACCEPT"},
         S!After(Phase(b), m) = "open", Checked(c), c.role # "listener"
  PROVE  Running(b, d)
<1>1. PICK told0 \in Seq(AnyNote) : told0 = c.told
  BY PkgFields DEF Live
<1>2. d.told = Append(c.told, m) /\ c.told \in Seq(AnyNote)
  BY <1>1
<1>3. Got(d) = Got(c) /\ Told(d, "UNREACH") = Told(c, "UNREACH")
  BY <1>2, GotSame
<1>4. ~d.bye
  BY DEF Live
<1>5. Live(d)
  BY <1>3, <1>4, LiveSame
<1>6. Tells(b, c, Phase(b))
  BY <1>1, TellsNothing DEF Begun
<1>7. Tells(b, d, "open")
  BY <1>2, <1>6, TellsMore DEF Begun
<1>8. Checked(d)
  BY DEF Checked
<1>9. QED
  BY <1>5, <1>7, <1>8 DEF Running

\* The receive loop of tcpsac, from its first turn to its last.
LEMMA SacRecvLoop ==
  ASSUME NEW b, NEW c, Begun(b), b.proto = "tcpsac", Running(b, c)
  PROVE  Finished(b, Sac!RecvLoop(c))
<1>1. c \in PkgConn /\ c.rbl \in Seq(Unit)
  BY PkgFields DEF Running, Live
<1>2. PICK s, n : s = [c |-> c, done |-> FALSE] /\ n = Len(c.rbl) + 1
  OBVIOUS
<1>3. s \in SacTurns(b) /\ n \in Nat /\ SacLeft(s) <= n
  BY <1>1, <1>2 DEF SacTurns, SacLeft
<1>4. Finished(b, Sac!Turns(Sac!RecvTurn, s, n).c)
  BY <1>3, SacLoop
<1>5. QED
  BY <1>2, <1>4, Zenon DEF Sac!RecvLoop

\* The receive loop of tcppkg, from its first turn to its last.
LEMMA PkgRecvLoop ==
  ASSUME NEW b, NEW c, NEW u \in BOOLEAN, Begun(b), b.proto = "tcppkg", Running(b, c),
         u \/ Owned(c.wbl) = <<>>
  PROVE  Finished(b, Pkg!RecvLoop(c, u))
<1>1. c \in PkgConn /\ c.rbl \in Seq(Unit)
  BY PkgFields DEF Running, Live
<1>2. PICK s, n : s = [c |-> c, unreachable |-> u, done |-> FALSE] /\ n = Len(c.rbl) + 1
  OBVIOUS
<1>3. s \in PkgTurns(b) /\ n \in Nat /\ PkgLeft(s) <= n
  BY <1>1, <1>2 DEF PkgTurns, PkgLeft
<1>4. Finished(b, Pkg!Turns(Pkg!RecvTurn, s, n).c)
  BY <1>3, PkgLoop
<1>5. QED
  BY <1>2, <1>4, Zenon DEF Pkg!RecvLoop

\* An open connection was validated, and is not a listener.
LEMMA Opened ==
  ASSUME NEW c, PkgInv(c), c.st = "TRANS"
  PROVE  Checked(c) /\ c.role # "listener" /\ Phase(c) = "open"
BY DEF PkgInv, Common, Phase

\* The loop, of what was read.
LEMMA RunsOver ==
  ASSUME NEW c, NEW d, PkgInv(c), c.st = "TRANS", ReadOf(c, d)
  PROVE  Running(c, d) /\ Begun(c)
<1>1. Begun(c) /\ Checked(c) /\ c.role # "listener" /\ Phase(c) = "open"
  BY LiveOf, Opened
<1>2. Tells(c, d, Phase(c))
  BY <1>1, TellsNothing DEF Begun, ReadOf
<1>3. Live(d) /\ d.st = "TRANS" /\ d.proto = c.proto /\ d.role = c.role /\ d.bye = c.bye /\ Checked(d)
  BY <1>1 DEF ReadOf
<1>4. QED
  BY <1>1, <1>2, <1>3 DEF Running

\* A live connection is like itself.
LEMMA LikeSelf ==
  ASSUME NEW c, Live(c)
  PROVE  Like(c, c)
BY DEF Live, Like

\* The states that a protocol gives a role.
LEMMA StagesOf ==
  ASSUME NEW c, PkgInv(c)
  PROVE  /\ c.proto \in {"tcpsac", "tcppkg"} /\ c.role \in {"listener", "client", "server"}
         /\ c.role = "listener" => c.st \in {"LISTEN", "CLOSE"}
         /\ c.role = "client" /\ c.proto = "tcpsac" => c.st \in {"CONNECTING", "TRANS", "CLOSE"}
         /\ c.role = "client" /\ c.proto = "tcppkg" => c.st \in {"CONNECTING", "VALIDING", "TRANS", "CLOSE"}
         /\ c.role = "server" /\ c.proto = "tcpsac" => c.st \in {"TRANS", "CLOSE"}
         /\ c.role = "server" /\ c.proto = "tcppkg" => c.st \in {"CONNECTED", "TRANS", "CLOSE"}
<1>1. c.proto \in {"tcpsac", "tcppkg"} /\ c.role \in {"listener", "client", "server"}
  BY PkgFields DEF PkgInv
<1>2. c.st \in Stages(c.proto, c.role) /\ (c.role = "listener" => c.st # "TRANS")
  BY DEF PkgInv, Common
<1>3. QED
  BY <1>1, <1>2 DEF Stages

\* jetnet_tcpsac_handle_*_recv.
LEMMA SacReceived ==
  ASSUME NEW c, NEW d, PkgInv(c), c.proto = "tcpsac", c.st \notin {"CLOSE", "CONNECTING"},
         c.role # "listener", ReadOf(c, d)
  PROVE  Finished(c, Sac!HandleClientRecv(d)) /\ Finished(c, Sac!HandleServerRecv(d))
<1>1. c.st = "TRANS"
  BY StagesOf
<1>2. Running(c, d) /\ Begun(c) /\ d.st = "TRANS"
  BY <1>1, RunsOver DEF ReadOf
<1>3. Finished(c, Sac!RecvLoop(d))
  BY <1>2, SacRecvLoop
<1>4. QED
  BY <1>2, <1>3 DEF Sac!HandleClientRecv, Sac!HandleServerRecv

\* What an early connection is.
LEMMA EarlyIs ==
  ASSUME NEW c, PkgInv(c), c.st \notin {"TRANS", "CLOSE"}
  PROVE  /\ Live(c) /\ Begun(c) /\ c \in PkgConn /\ c.told = <<>> /\ c.rbl = c.came
         /\ c.wbl \in Seq(Nat) /\ \A i \in 1 .. Len(c.wbl) : c.wbl[i] = 0
         /\ Owned(c.wbl) = <<>> /\ Like(c, c)
<1>1. Live(c) /\ Begun(c) /\ c \in PkgConn
  BY LiveOf
<1>2. Early(c)
  BY DEF PkgInv
<1>3. c.wbl \in Seq(Nat)
  BY <1>1, PkgFields
<1>4. Owned(c.wbl) = <<>>
  BY <1>2, <1>3, NoOwner DEF Early
<1>5. QED
  BY <1>1, <1>2, <1>3, <1>4, LikeSelf DEF Early

\* Notices without a package.
LEMMA NoteIs ==
  ASSUME NEW t \in Notices
  PROVE  Note(t, 0) \in AnyNote /\ Note(t, 0).t = t
BY DEF Note, AnyNote

\* A notice to one that was told nothing, and its end.
LEMMA FailsAtOnce ==
  ASSUME NEW b, NEW c, NEW d, Begun(b), Live(c), Like(c, d),
         c.proto = b.proto, c.role = b.role, c.bye = b.bye, c.told = <<>>, b.told = <<>>,
         Owned(d.wbl) = <<>>
  PROVE  /\ Phase(b) = "asked" => Finished(b, Shut(Tell(d, "FAIL", 0)))
         /\ Phase(b) = "listening" => Finished(b, Shut(Tell(d, "CLOSE", 0)))
         /\ Phase(b) = "offered" => Finished(b, Shut(d))
<1>1. d.told = <<>> /\ d \in PkgConn
  BY DEF Like
<1>2. ASSUME NEW t, t \in {"FAIL", "CLOSE"}, S!After(Phase(b), Note(t, 0)) = "over"
      PROVE  Finished(b, Shut(Tell(d, t, 0)))
  <2>1. PICK m : m = Note(t, 0)
    OBVIOUS
  <2>2. m \in AnyNote /\ m.t \in {"FAIL", "CLOSE"} /\ S!After(Phase(b), m) = "over"
    BY <1>2, <2>1 DEF Note, AnyNote, Notices
  <2>3. Shut(Tell(d, t, 0)) = [d EXCEPT !.told = Append(<<>>, m), !.st = "CLOSE", !.up = FALSE]
    <3>1. Tell(d, t, 0) = [d EXCEPT !.told = Append(<<>>, m)]
      BY <1>1, <2>1 DEF Tell
    <3>2. QED
      BY <1>1, <3>1 DEF Shut, PkgConn, Conns
  <2>4. QED
    BY <2>2, <2>3, EndsAtOnce
<1>3. Phase(b) = "asked" => S!After(Phase(b), Note("FAIL", 0)) = "over"
  BY DEF S!After, Note
<1>4. Phase(b) = "listening" => S!After(Phase(b), Note("CLOSE", 0)) = "over"
  BY DEF S!After, Note
<1>5. ASSUME Phase(b) = "offered"
      PROVE  Finished(b, Shut(d))
  <2>1. Shut(d) = [d EXCEPT !.st = "CLOSE", !.up = FALSE]
    BY DEF Shut
  <2>2. QED
    BY <1>5, <2>1, EndsUnheard
<1>6. QED
  BY <1>2, <1>3, <1>4, <1>5

\* The phase of each state.
LEMMA PhaseOf ==
  ASSUME NEW c
  PROVE  /\ c.st = "LISTEN" => Phase(c) = "listening"
         /\ c.st \in {"CONNECTING", "VALIDING"} => Phase(c) = "asked"
         /\ c.st = "CONNECTED" => Phase(c) = "offered"
         /\ c.st = "TRANS" => Phase(c) = "open"
         /\ c.st = "CLOSE" => Phase(c) = "over"
BY DEF Phase

\* An open connection that breaks.
LEMMA Breaks ==
  ASSUME NEW c, PkgInv(c), c.st = "TRANS"
  PROVE  Finished(c, Gone(c))
<1>1. Live(c) /\ Begun(c) /\ Checked(c) /\ c.role # "listener" /\ Phase(c) = "open" /\ Like(c, c)
  BY LiveOf, Opened, LikeSelf
<1>2. Tells(c, c, "open")
  BY <1>1, TellsNothing DEF Begun
<1>3. Running(c, c)
  BY <1>1, <1>2 DEF Running
<1>4. QED
  BY <1>1, <1>3, RunsDown

\* jetnet_tcpsac_handle_*_close.
LEMMA SacClosed ==
  ASSUME NEW c, PkgInv(c), c.proto = "tcpsac", c.st # "CLOSE"
  PROVE  /\ c.role = "listener" => Finished(c, Sac!HandleListenerClose(c))
         /\ c.role = "client" => Finished(c, Sac!HandleClientClose(c))
         /\ c.role = "server" => Finished(c, Sac!HandleServerClose(c))
<1>1. ASSUME c.role = "listener"
      PROVE  Finished(c, Sac!HandleListenerClose(c))
  <2>1. c.st = "LISTEN"
    BY <1>1, StagesOf
  <2>2. Finished(c, Shut(Tell(c, "CLOSE", 0)))
    BY <2>1, EarlyIs, FailsAtOnce, PhaseOf
  <2>3. QED
    BY <2>2 DEF Sac!HandleListenerClose, Sac!Shut, Sac!NotifyClose, Sac!Tell, Sac!Note, Shut, Tell, Note
<1>2. ASSUME c.st = "TRANS"
      PROVE  Finished(c, Sac!Lost(c))
  BY <1>2, Breaks, SacGone
<1>3. ASSUME c.role = "client"
      PROVE  Finished(c, Sac!HandleClientClose(c))
  <2>1. CASE c.st = "CONNECTING"
    <3>1. Finished(c, Shut(Tell(c, "FAIL", 0)))
      BY <2>1, EarlyIs, FailsAtOnce, PhaseOf
    <3>2. QED
      BY <2>1, <3>1 DEF Sac!HandleClientClose, Sac!Shut, Sac!NotifyConnect, Sac!Tell, Sac!Note, Shut, Tell, Note
  <2>2. CASE c.st = "TRANS"
    BY <1>2, <2>2 DEF Sac!HandleClientClose
  <2>3. QED
    BY <1>3, <2>1, <2>2, StagesOf
<1>4. ASSUME c.role = "server"
      PROVE  Finished(c, Sac!HandleServerClose(c))
  <2>1. c.st = "TRANS"
    BY <1>4, StagesOf
  <2>2. QED
    BY <1>2, <2>1 DEF Sac!HandleServerClose
<1>5. QED
  BY <1>1, <1>3, <1>4

\* The loop ends between two packages.
LEMMA Settles ==
  ASSUME NEW b, NEW c, Running(b, c), Len(c.rbl) < 2
  PROVE  Finished(b, c)
<1>1. PkgInv(c)
  BY StaysOpen DEF Running
<1>2. Phase(c) = "open"
  BY PhaseOf DEF Running
<1>3. QED
  BY <1>1, <1>2 DEF Finished, Moves, Ats, Running

\* jetnet_tcpsac_handle_connect.
LEMMA SacConnected ==
  ASSUME NEW c, NEW ok \in BOOLEAN, PkgInv(c), c.proto = "tcpsac", c.st = "CONNECTING"
  PROVE  Finished(c, Sac!HandleConnect(c, ok))
<1>1. /\ Live(c) /\ Begun(c) /\ c \in PkgConn /\ c.told = <<>> /\ Like(c, c) /\ c.rbl = c.came
      /\ Owned(c.wbl) = <<>> /\ Phase(c) = "asked" /\ c.role = "client" /\ ~c.linked /\ c.up
  BY EarlyIs, PhaseOf, StagesOf DEF Live
<1>2. CASE ~ok
  <2>1. Finished(c, Shut(Tell(c, "FAIL", 0)))
    BY <1>1, FailsAtOnce
  <2>2. QED
    BY <1>2, <2>1 DEF Sac!HandleConnect, Sac!Shut, Sac!NotifyConnect, Sac!Tell, Sac!Note, Shut, Tell, Note
<1>3. CASE ok
  <2>1. PICK m : m = Note("CONNECT", 0)
    OBVIOUS
  <2>2. m \in AnyNote /\ m.t \in {"CONNECT", "ACCEPT"} /\ S!After(Phase(c), m) = "open"
    BY <1>1, <2>1 DEF Note, AnyNote, Notices, S!After
  <2>3. PICK told : told = Append(<<>>, m)
    OBVIOUS
  <2>4. told \in Seq(AnyNote)
    BY <2>2, <2>3
  <2>5. PICK d : d = Sac!HandleConnect(c, ok)
    OBVIOUS
  <2>6. d = [c EXCEPT !.st = "TRANS", !.pr = [step |-> "HEAD"], !.told = told]
    <3>1. d = Sac!NotifyConnect([c EXCEPT !.st = "TRANS", !.pr = [step |-> "HEAD"]], TRUE)
      BY <1>3, <2>5 DEF Sac!HandleConnect, Sac!Head0
    <3>2. QED
      BY <1>1, <2>1, <2>3, <3>1 DEF Sac!NotifyConnect, Sac!Tell, Sac!Note, Note, PkgConn, Conns
  <2>7. /\ d \in PkgConn /\ d.proto = c.proto /\ d.role = c.role /\ d.bye = c.bye /\ d.came = c.came
        /\ d.rbl = c.rbl /\ d.pr.step = "HEAD" /\ d.linked = c.linked /\ d.up = c.up /\ d.st = "TRANS"
        /\ d.told = told
    BY <1>1, <2>4, <2>6 DEF PkgConn, Conns, PkgParser, States
  <2>8. Checked(c)
    BY DEF Checked
  <2>9. Running(c, d)
    BY <1>1, <2>2, <2>3, <2>7, <2>8, OpensUp
  <2>10. Len(d.rbl) < 2
    <3>1. d.rbl = <<>>
      BY <1>1, <2>7 DEF PkgInv
    <3>2. QED
      BY <3>1
  <2>11. QED
    BY <2>5, <2>9, <2>10, Settles
<1>4. QED
  BY <1>2, <1>3

-----------------------------------------------------------------------------
(* tcppkg.                                                                 *)

\* jetnet_tcppkg_handle_*_close.
LEMMA PkgClosed ==
  ASSUME NEW c, PkgInv(c), c.proto = "tcppkg", c.st # "CLOSE"
  PROVE  /\ c.role = "listener" => Finished(c, Pkg!HandleListenerClose(c))
         /\ c.role = "client" => Finished(c, Pkg!HandleClientClose(c))
         /\ c.role = "server" => Finished(c, Pkg!HandleServerClose(c))
<1>1. ASSUME c.role = "listener"
      PROVE  Finished(c, Pkg!HandleListenerClose(c))
  <2>1. c.st = "LISTEN"
    BY <1>1, StagesOf
  <2>2. Finished(c, Shut(Tell(c, "CLOSE", 0)))
    BY <2>1, EarlyIs, FailsAtOnce, PhaseOf
  <2>3. QED
    BY <2>2, PkgGone DEF Pkg!HandleListenerClose
<1>2. ASSUME c.st = "TRANS"
      PROVE  Finished(c, Pkg!Lost(c))
  BY <1>2, Breaks, PkgGone
<1>3. ASSUME c.role = "client"
      PROVE  Finished(c, Pkg!HandleClientClose(c))
  <2>1. CASE c.st \in {"CONNECTING", "VALIDING"}
    <3>1. Finished(c, Shut(Tell(c, "FAIL", 0)))
      BY <2>1, EarlyIs, FailsAtOnce, PhaseOf
    <3>2. QED
      BY <2>1, <3>1 DEF Pkg!HandleClientClose, Pkg!Shut, Pkg!NotifyConnect, Pkg!Tell, Pkg!Note, Shut, Tell, Note
  <2>2. CASE c.st = "TRANS"
    BY <1>2, <2>2 DEF Pkg!HandleClientClose
  <2>3. QED
    BY <1>3, <2>1, <2>2, StagesOf
<1>4. ASSUME c.role = "server"
      PROVE  Finished(c, Pkg!HandleServerClose(c))
  <2>1. CASE c.st = "CONNECTED"
    <3>1. Finished(c, Shut(c)) /\ c \in PkgConn /\ ~c.linked
      BY <2>1, EarlyIs, FailsAtOnce, PhaseOf DEF Live
    <3>2. Pkg!Unlink(c) = c
      BY <3>1 DEF Pkg!Unlink, PkgConn, Conns
    <3>3. QED
      BY <2>1, <3>1, <3>2 DEF Pkg!HandleServerClose, Pkg!Shut, Shut
  <2>2. CASE c.st = "TRANS"
    BY <1>2, <2>2 DEF Pkg!HandleServerClose
  <2>3. QED
    BY <1>4, <2>1, <2>2, StagesOf
<1>5. QED
  BY <1>1, <1>3, <1>4

\* A command has no owner.
LEMMA CommandSent ==
  ASSUME NEW w \in Seq(0 .. MaxSend), \A i \in 1 .. Len(w) : w[i] = 0
  PROVE  /\ Append(w, 0) \in Seq(0 .. MaxSend)
         /\ \A i \in 1 .. Len(Append(w, 0)) : Append(w, 0)[i] = 0
         /\ Owned(Append(w, 0)) = <<>>
<1>1. MaxSend \in Nat /\ 0 \in 0 .. MaxSend
  BY NetAssumption
<1>2. PICK v : v = Append(w, 0)
  OBVIOUS
<1>3. v \in Seq(0 .. MaxSend) /\ v \in Seq(Nat)
  <2>1. w \in Seq(Nat)
    BY <1>1
  <2>2. QED
    BY <1>1, <1>2, <2>1
<1>4. \A i \in 1 .. Len(v) : v[i] = 0
  BY <1>2
<1>5. Owned(v) = <<>>
  BY <1>3, <1>4, NoOwner
<1>6. QED
  BY <1>2, <1>3, <1>4, <1>5

\* jetnet_tcppkg_handle_connect.
LEMMA PkgConnected ==
  ASSUME NEW c, NEW ok \in BOOLEAN, NEW out \in Outcome, PkgInv(c), c.proto = "tcppkg",
         c.st = "CONNECTING"
  PROVE  Finished(c, Pkg!HandleConnect(c, ok, out))
<1>1. /\ Live(c) /\ Begun(c) /\ c \in PkgConn /\ c.told = <<>> /\ Like(c, c) /\ c.rbl = c.came
      /\ Owned(c.wbl) = <<>> /\ Phase(c) = "asked" /\ c.role = "client" /\ ~c.linked /\ c.up /\ ~c.bye
      /\ \A i \in 1 .. Len(c.wbl) : c.wbl[i] = 0
  BY EarlyIs, PhaseOf, StagesOf DEF Live
<1>2. CASE ~ok \/ out = "failed"
  <2>1. Finished(c, Shut(Tell(c, "FAIL", 0)))
    BY <1>1, FailsAtOnce
  <2>2. QED
    BY <1>2, <2>1 DEF Pkg!HandleConnect, Pkg!Shut, Pkg!NotifyConnect, Pkg!Tell, Pkg!Note, Shut, Tell, Note
<1>3. CASE ok /\ out # "failed"
  <2>1. PICK d : d = Pkg!HandleConnect(c, ok, out)
    OBVIOUS
  <2>2. PICK w : w = IF out = "queued" THEN Append(c.wbl, 0) ELSE c.wbl
    OBVIOUS
  <2>3. w \in Seq(0 .. MaxSend) /\ \A i \in 1 .. Len(w) : w[i] = 0
    <3>1. c.wbl \in Seq(0 .. MaxSend)
      BY <1>1, PkgFields
    <3>2. QED
      BY <1>1, <2>2, <3>1, CommandSent
  <2>4. d = [c EXCEPT !.st = "VALIDING", !.pr = [step |-> "HEAD"], !.wbl = w]
    <3>1. PICK e : e = [c EXCEPT !.st = "VALIDING", !.pr = [step |-> "HEAD"]]
      OBVIOUS
    <3>2. e.wbl = c.wbl /\ e = [e EXCEPT !.wbl = c.wbl]
      BY <1>1, <3>1 DEF PkgConn, Conns
    <3>3. d = [e EXCEPT !.wbl = w]
      <4>1. d = Pkg!Write(e, 0, out)
        BY <1>3, <2>1, <3>1 DEF Pkg!HandleConnect, Pkg!Head0, Pkg!SendCommand
      <4>2. QED
        BY <2>2, <3>2, <4>1 DEF Pkg!Write
    <3>4. QED
      BY <1>1, <3>1, <3>3 DEF PkgConn, Conns
  <2>5. /\ d \in PkgConn /\ d.proto = c.proto /\ d.role = c.role /\ d.bye = c.bye /\ d.came = c.came
        /\ d.rbl = c.rbl /\ d.pr.step = "HEAD" /\ d.linked = c.linked /\ d.up = c.up /\ d.st = "VALIDING"
        /\ d.told = c.told /\ d.wbl = w
    BY <1>1, <2>3, <2>4 DEF PkgConn, Conns, PkgParser, States
  <2>6. Live(d)
    <3>1. Got(d) = Got(c) /\ Told(d, "UNREACH") = Told(c, "UNREACH")
      BY <2>5 DEF Got, Told
    <3>2. QED
      BY <1>1, <2>5, <3>1, LiveSame
  <2>7. Common(d)
    BY <1>1, <2>5 DEF Common, Stages
  <2>8. Early(d) /\ Phase(d) = Phase(c)
    BY <1>1, <2>3, <2>5, PhaseOf DEF Early
  <2>9. Finished(c, d)
    BY <1>1, <2>5, <2>6, <2>7, <2>8, WaitsOn
  <2>10. QED
    BY <2>1, <2>9
<1>4. QED
  BY <1>2, <1>3 DEF Outcome

\* The receive handlers of an open tcppkg connection.
LEMMA PkgReceivedOpen ==
  ASSUME NEW c, NEW d, PkgInv(c), c.proto = "tcppkg", c.st = "TRANS", ReadOf(c, d)
  PROVE  Finished(c, Pkg!RecvLoop(d, TRUE)) /\ d.st = "TRANS"
<1>1. Running(c, d) /\ Begun(c) /\ d.st = "TRANS"
  BY RunsOver DEF ReadOf
<1>2. PICK u \in BOOLEAN : u = TRUE
  OBVIOUS
<1>3. Finished(c, Pkg!RecvLoop(d, u))
  BY <1>1, <1>2, PkgRecvLoop
<1>4. QED
  BY <1>1, <1>2, <1>3, Zenon

\* The parser waits for the rest of a package.
LEMMA LivesAt ==
  ASSUME NEW c, NEW x \in {"HEAD", "BODY"}, Live(c),
         x = "BODY" => c.rbl # <<>> /\ c.rbl[1].kind # "bad",
         NEW d, d = AtStep(c, x)
  PROVE  /\ Live(d) /\ d.proto = c.proto /\ d.role = c.role /\ d.st = c.st /\ d.bye = c.bye
         /\ d.told = c.told /\ d.wbl = c.wbl /\ d.rbl = c.rbl /\ d.came = c.came
<1>1. c \in PkgConn /\ c.pr \in PkgParser
  BY PkgFields DEF Live
<1>2. d = [c EXCEPT !.pr.step = x] /\ x \in {"HEAD", "BODY"}
  BY DEF AtStep
<1>3. /\ d \in PkgConn /\ d.proto = c.proto /\ d.role = c.role /\ d.st = c.st /\ d.bye = c.bye
      /\ d.told = c.told /\ d.wbl = c.wbl /\ d.rbl = c.rbl /\ d.came = c.came /\ d.up = c.up
      /\ d.linked = c.linked /\ d.pr.step = x
  BY ONLY <1>1, <1>2 DEF PkgConn, Conns, PkgParser
<1>4. Unparsed(d)
  BY <1>3 DEF Live, Unparsed
<1>5. Got(d) = Got(c) /\ Told(d, "UNREACH") = Told(c, "UNREACH")
  BY <1>3 DEF Got, Told
<1>6. Kept(d)
  BY <1>3, <1>5 DEF Live, Kept, Whole
<1>7. QED
  BY <1>3, <1>4, <1>5, <1>6 DEF Live

\* What a handshake meets in what was read.
Meets(c, d, p) ==
  \/ p.ret = "more" /\ Finished(c, p.c)
  \/ p.ret = "bad" /\ Like(d, p.c)
  \/ /\ p.ret = "package" /\ Like(d, p.c) /\ Live(p.c) /\ p.c = Ahead(d)
     /\ p.got.kind \in Pkg!Kinds \ {"app", "bad"}
     /\ Len(p.c.came) >= 2 /\ p.c.came[2].kind = p.got.kind

\* The package that validates: it is the first that came, and no owner has
\* sent anything before it.
LEMMA Handshake ==
  ASSUME NEW c, NEW d, PkgInv(c), c.proto = "tcppkg", c.st \in {"VALIDING", "CONNECTED"},
         ReadOf(c, d)
  PROVE  /\ Meets(c, d, Pkg!RecvPkg(d, "SYS"))
         /\ Live(d) /\ Begun(c) /\ d.told = <<>> /\ c.told = <<>> /\ Owned(d.wbl) = <<>>
         /\ d.wbl \in Seq(0 .. MaxSend) /\ \A i \in 1 .. Len(d.wbl) : d.wbl[i] = 0
         /\ d.proto = c.proto /\ d.role = c.role /\ d.bye = c.bye /\ d.st = c.st
<1>1. /\ Live(c) /\ Begun(c) /\ c.told = <<>> /\ c.rbl = c.came
      /\ c.wbl \in Seq(Nat) /\ \A i \in 1 .. Len(c.wbl) : c.wbl[i] = 0
      /\ Owned(c.wbl) = <<>>
  BY EarlyIs
<1>2. /\ Live(d) /\ d.told = <<>> /\ d.rbl = d.came /\ d.wbl = c.wbl
      /\ d.proto = c.proto /\ d.role = c.role /\ d.bye = c.bye /\ d.st = c.st
  BY <1>1 DEF ReadOf
<1>3. d \in PkgConn /\ d.wbl \in Seq(0 .. MaxSend) /\ d.rbl \in Seq(Unit) /\ d.told \in Seq(AnyNote)
  BY <1>2, PkgFields DEF Live
<1>4. PICK p : p = Pkg!RecvPkg(d, "SYS")
  OBVIOUS
<1>5. \/ /\ p.ret = "more" /\ Len(d.rbl) < 2
         /\ \E x \in {"HEAD", "BODY"} :
              /\ p.c = AtStep(d, x)
              /\ x = "BODY" => d.rbl # <<>> /\ d.rbl[1].kind # "bad"
      \/ p.ret = "bad" /\ Like(d, p.c)
      \/ /\ p.ret = "package" /\ Len(d.rbl) >= 2 /\ d.rbl[1].kind \in Pkg!Kinds \ {"bad", "app"}
         /\ p.got = d.rbl[1]
         /\ p.c = Ahead(d)
         /\ p.c \in PkgConn
  <2>1. PICK type : type = "SYS"
    OBVIOUS
  <2>2. \/ /\ p.ret = "more" /\ Len(d.rbl) < 2
           /\ \E x \in {"HEAD", "BODY"} :
                /\ p.c = AtStep(d, x)
                /\ x = "BODY" => d.rbl # <<>> /\ d.rbl[1].kind # "bad"
        \/ p.ret = "bad" /\ Like(d, p.c) /\ p.c.st = d.st
        \/ /\ p.ret = "package" /\ Len(d.rbl) >= 2 /\ d.rbl[1].kind \in Pkg!Kinds \ {"bad"}
           /\ type = "APP" <=> d.rbl[1].kind = "app"
           /\ p.got = d.rbl[1]
           /\ p.c = Ahead(d)
           /\ p.c \in PkgConn
    <3>1. type \in {"APP", "SYS"} /\ p = Pkg!RecvPkg(d, type) /\ d.proto = "tcppkg"
      BY <1>2, <1>4, <2>1
    <3> HIDE <2>1
    <3>2. QED
      BY <1>2, <3>1, PkgReceives
  <2>3. QED
    BY <2>1, <2>2
<1>6. CASE p.ret = "more"
  <2>1. PICK x \in {"HEAD", "BODY"} :
          p.c = AtStep(d, x) /\ (x = "BODY" => d.rbl # <<>> /\ d.rbl[1].kind # "bad")
    BY <1>5, <1>6
  <2>2. PICK e : e = p.c
    OBVIOUS
  <2>3. /\ Live(e) /\ e.proto = d.proto /\ e.role = d.role /\ e.st = d.st /\ e.bye = d.bye
        /\ e.told = d.told /\ e.wbl = d.wbl /\ e.rbl = d.rbl /\ e.came = d.came
    <3>1. e = AtStep(d, x)
      BY <2>1, <2>2
    <3>2. QED
      BY <1>2, <2>1, <3>1, LivesAt
  <2>4. Common(e)
    <3>1. e.st \in Stages(e.proto, e.role)
      BY <1>2, <2>3 DEF PkgInv, Common
    <3>2. QED
      BY <1>2, <2>3, <3>1 DEF Common, Live
  <2>5. Early(e)
    BY <1>1, <1>2, <2>3 DEF Early
  <2>6. Phase(e) = Phase(c)
    BY <1>2, <2>3 DEF Phase
  <2>7. Finished(c, e)
    BY <1>1, <1>2, <2>3, <2>4, <2>5, <2>6, WaitsOn
  <2>8. QED
    BY <1>1, <1>2, <1>3, <1>4, <1>6, <2>2, <2>7 DEF Meets
<1>7. CASE p.ret = "bad"
  BY <1>1, <1>2, <1>3, <1>4, <1>5, <1>7 DEF Meets
<1>8. CASE p.ret = "package"
  <2>1. /\ Len(d.rbl) >= 2 /\ d.rbl[1].kind \in Pkg!Kinds \ {"bad", "app"} /\ p.got = d.rbl[1]
        /\ p.c = Ahead(d) /\ p.c \in PkgConn
    BY <1>5, <1>8
  <2>2. PICK e : e = Ahead(d)
    OBVIOUS
  <2>3. PICK q : q = Rest(d.rbl)
    OBVIOUS
  <2>4. e = [d EXCEPT !.pr.step = "HEAD", !.rbl = q]
    BY <2>2, <2>3 DEF Ahead
  <2>5. /\ e \in PkgConn /\ e.proto = d.proto /\ e.role = d.role /\ e.st = d.st /\ e.bye = d.bye
        /\ e.told = d.told /\ e.wbl = d.wbl /\ e.rbl = q /\ e.came = d.came /\ e.up = d.up
        /\ e.linked = d.linked /\ e.pr.step = "HEAD"
    BY <1>3, <2>1, <2>2, <2>4 DEF PkgConn, Conns, PkgParser
  <2>6. Live(e)
    <3>1. e.rbl = Rest(d.rbl) /\ d.rbl[1].kind # "app"
      BY <2>1, <2>3, <2>5
    <3>2. e.st # "CLOSE" /\ e.up /\ ~e.bye /\ ~e.linked
      BY <1>2, <2>5 DEF Live
    <3>3. QED
      BY <1>2, <2>1, <2>5, <3>1, <3>2, TakesPackage
  <2>7. Like(d, e)
    BY <1>2, <2>5 DEF Like, Live
  <2>8. Len(d.came) >= 2 /\ d.came[2].kind = d.rbl[1].kind
    <3>1. PICK r : r = d.rbl
      OBVIOUS
    <3>2. r \in Seq(Unit) /\ Paired(r) /\ Len(r) >= 2
      BY <1>2, <1>3, <2>1, <3>1 DEF Live, Unparsed
    <3>3. r[2].kind = r[1].kind
      BY <3>2, HeadOff
    <3>4. QED
      BY <1>2, <2>1, <3>1, <3>3
  <2>9. p.c.came = d.came /\ p.c = e
    BY <2>1, <2>2, <2>5
  <2>10. QED
    BY <1>1, <1>2, <1>3, <1>4, <1>8, <2>1, <2>2, <2>6, <2>7, <2>8, <2>9 DEF Meets
<1>9. QED
  BY <1>5, <1>6, <1>7, <1>8

\* A connection that its handshake opens, and the packages behind it.
LEMMA OpensAndRuns ==
  ASSUME NEW b, NEW c, NEW d, NEW w \in Seq(0 .. MaxSend), NEW t, Begun(b), b.proto = "tcppkg",
         Live(c), c.proto = b.proto, c.role = b.role, c.bye = b.bye, c.told = <<>>, b.told = <<>>,
         Checked(c), c.role # "listener", Owned(w) = <<>>,
         t \in {"CONNECT", "ACCEPT"}, S!After(Phase(b), Note(t, 0)) = "open",
         d = [c EXCEPT !.st = "TRANS", !.told = Append(<<>>, Note(t, 0)), !.wbl = w]
  PROVE  Finished(b, Pkg!RecvLoop(d, FALSE))
<1>1. c \in PkgConn /\ c.up /\ ~c.linked
  BY DEF Live
<1>2. PICK m : m = Note(t, 0)
  OBVIOUS
<1>3. m \in AnyNote /\ m.t \in {"CONNECT", "ACCEPT"} /\ S!After(Phase(b), m) = "open"
  BY <1>2 DEF Note, AnyNote, Notices
<1>4. PICK told : told = Append(<<>>, m)
  OBVIOUS
<1>5. told \in Seq(AnyNote)
  BY <1>3, <1>4
<1>6. d = [c EXCEPT !.st = "TRANS", !.told = told, !.wbl = w]
  BY <1>2, <1>4
<1>7. /\ d \in PkgConn /\ d.proto = c.proto /\ d.role = c.role /\ d.bye = c.bye /\ d.came = c.came
      /\ d.rbl = c.rbl /\ d.pr = c.pr /\ d.linked = c.linked /\ d.up = c.up /\ d.st = "TRANS"
      /\ d.told = told /\ d.wbl = w
  BY <1>1, <1>5, <1>6, ZenonT(30) DEF PkgConn, Conns, States
<1>8. Running(b, d)
  BY <1>1, <1>3, <1>4, <1>7, OpensUp, ZenonT(30)
<1>9. PICK u \in BOOLEAN : u = FALSE
  OBVIOUS
<1>10. Finished(b, Pkg!RecvLoop(d, u))
  BY <1>7, <1>8, PkgRecvLoop
<1>11. QED
  BY <1>9, <1>10, Zenon

\* A client's wait for the VALID_ACK.
LEMMA PkgValiding ==
  ASSUME NEW c, NEW d, PkgInv(c), c.proto = "tcppkg", c.st = "VALIDING", ReadOf(c, d)
  PROVE  Finished(c, Pkg!HandleClientRecv(d))
<1>1. PICK p : p = Pkg!RecvPkg(d, "SYS")
  OBVIOUS
<1>2. /\ Meets(c, d, p)
      /\ Live(d) /\ Begun(c) /\ d.told = <<>> /\ c.told = <<>> /\ Owned(d.wbl) = <<>>
      /\ d.wbl \in Seq(0 .. MaxSend)
      /\ d.proto = c.proto /\ d.role = c.role /\ d.bye = c.bye /\ d.st = c.st
  BY <1>1, Handshake
<1>3. Phase(c) = "asked" /\ c.role = "client"
  BY PhaseOf, StagesOf
<1>4. Pkg!HandleClientRecv(d) = Pkg!ClientValiding(d)
  BY <1>2 DEF Pkg!HandleClientRecv
<1>5. CASE p.ret = "more"
  <2>1. Pkg!ClientValiding(d) = p.c
    BY <1>1, <1>5 DEF Pkg!ClientValiding
  <2>2. QED
    BY <1>2, <1>4, <1>5, <2>1, Zenon DEF Meets
<1>6. CASE p.ret = "package" /\ p.got.kind = "ack"
  <2>1. PICK e : e = p.c
    OBVIOUS
  <2>2. /\ Live(e) /\ Like(d, e) /\ Len(e.came) >= 2 /\ e.came[2].kind = "ack"
    BY <1>2, <1>6, <2>1 DEF Meets
  <2>3. e \in PkgConn /\ e.told = <<>> /\ e.wbl = d.wbl /\ e.proto = c.proto /\ e.role = c.role /\ e.bye = c.bye
    BY <1>2, <2>2 DEF Like
  <2>4. PICK f : f = Pkg!NotifyConnect([e EXCEPT !.st = "TRANS"], TRUE)
    OBVIOUS
  <2>5. Pkg!ClientValiding(d) = Pkg!RecvLoop(f, FALSE)
    <3>1. Pkg!Command(p.got) = "ack" /\ p.ret # "more"
      BY <1>6 DEF Pkg!Command
    <3>2. Pkg!ClientValiding(d) = Pkg!AfterValidation(f)
      BY <1>1, <1>6, <2>1, <2>4, <3>1 DEF Pkg!ClientValiding
    <3>3. QED
      BY <3>2 DEF Pkg!AfterValidation
  <2>6. PICK t : t = "CONNECT"
    OBVIOUS
  <2>7. f = [e EXCEPT !.st = "TRANS", !.told = Append(<<>>, Note(t, 0)), !.wbl = d.wbl]
    <3>1. PICK m : m = Note(t, 0)
      OBVIOUS
    <3>2. f = Pkg!Tell([e EXCEPT !.st = "TRANS"], t, 0)
      BY <2>4, <2>6 DEF Pkg!NotifyConnect
    <3>3. f = [[e EXCEPT !.st = "TRANS"] EXCEPT !.told = Append(@, m)]
      BY <3>1, <3>2 DEF Pkg!Tell, Pkg!Note, Note
    <3>4. PICK told : told = Append(<<>>, m)
      OBVIOUS
    <3>5. f = [[e EXCEPT !.st = "TRANS"] EXCEPT !.told = told]
      BY <2>3, <3>3, <3>4 DEF PkgConn, Conns
    <3>6. f = [e EXCEPT !.st = "TRANS", !.told = told, !.wbl = e.wbl]
      BY <2>3, <3>5 DEF PkgConn, Conns
    <3>7. QED
      BY <2>3, <3>1, <3>4, <3>6
  <2>8. t \in {"CONNECT", "ACCEPT"} /\ S!After(Phase(c), Note(t, 0)) = "open"
    BY <1>3, <2>6 DEF S!After, Note
  <2> HIDE <2>6
  <2>9. Checked(e)
    BY <1>3, <2>2, <2>3 DEF Checked
  <2>10. Finished(c, Pkg!RecvLoop(f, FALSE))
    BY <1>2, <1>3, <2>2, <2>3, <2>7, <2>8, <2>9, OpensAndRuns
  <2>11. QED
    BY <1>4, <2>5, <2>10, Zenon
<1>7. CASE p.ret = "bad" \/ (p.ret = "package" /\ p.got.kind # "ack")
  <2>1. Like(d, p.c)
    BY <1>2, <1>7 DEF Meets
  <2>2. Pkg!ClientValiding(d) = Pkg!Shut(Pkg!NotifyConnect(p.c, FALSE))
    <3>1. p.ret # "more" /\ (p.ret = "package" => Pkg!Command(p.got) # "ack")
      BY <1>7 DEF Pkg!Command
    <3>2. QED
      BY <1>1, <3>1 DEF Pkg!ClientValiding
  <2>3. Owned(p.c.wbl) = <<>>
    BY <1>2, <2>1 DEF Like
  <2>4. Finished(c, Shut(Tell(p.c, "FAIL", 0)))
    BY <1>2, <1>3, <2>1, <2>3, FailsAtOnce
  <2>5. Pkg!Shut(Pkg!NotifyConnect(p.c, FALSE)) = Shut(Tell(p.c, "FAIL", 0))
    BY DEF Pkg!Shut, Pkg!NotifyConnect, Pkg!Tell, Pkg!Note, Shut, Tell, Note
  <2>6. QED
    BY <1>4, <2>2, <2>4, <2>5, Zenon
<1>8. QED
  BY <1>2, <1>5, <1>6, <1>7 DEF Meets

\* A server's wait for the VALID_REQ.
LEMMA PkgOffered ==
  ASSUME NEW c, NEW d, NEW out \in Outcome, PkgInv(c), c.proto = "tcppkg", c.st = "CONNECTED",
         ReadOf(c, d)
  PROVE  Finished(c, Pkg!HandleServerRecv(d, out))
<1>1. PICK p : p = Pkg!RecvPkg(d, "SYS")
  OBVIOUS
<1>2. /\ Meets(c, d, p)
      /\ Live(d) /\ Begun(c) /\ d.told = <<>> /\ c.told = <<>> /\ Owned(d.wbl) = <<>>
      /\ d.wbl \in Seq(0 .. MaxSend) /\ \A i \in 1 .. Len(d.wbl) : d.wbl[i] = 0
      /\ d.proto = c.proto /\ d.role = c.role /\ d.bye = c.bye /\ d.st = c.st
  BY <1>1, Handshake
<1>3. Phase(c) = "offered" /\ c.role = "server"
  BY PhaseOf, StagesOf
<1>4. Pkg!HandleServerRecv(d, out) = Pkg!ServerConnected(d, out)
  BY <1>2 DEF Pkg!HandleServerRecv
<1>5. CASE p.ret = "more"
  <2>1. Pkg!ServerConnected(d, out) = p.c
    BY <1>1, <1>5 DEF Pkg!ServerConnected
  <2>2. QED
    BY <1>2, <1>4, <1>5, <2>1, Zenon DEF Meets
<1>6. CASE p.ret = "package" /\ p.got.kind = "req" /\ out # "failed"
  <2>1. PICK e : e = p.c
    OBVIOUS
  <2>2. /\ Live(e) /\ Like(d, e) /\ Len(e.came) >= 2 /\ e.came[2].kind = "req"
    BY <1>2, <1>6, <2>1 DEF Meets
  <2>3. /\ e \in PkgConn /\ e.told = <<>> /\ e.wbl = d.wbl /\ e.proto = c.proto /\ e.role = c.role
        /\ e.bye = c.bye /\ ~e.linked /\ e.linked \in BOOLEAN
    <3>1. e \in PkgConn /\ e.linked \in BOOLEAN
      BY <2>2, PkgFields DEF Live
    <3>2. QED
      BY <1>2, <2>2, <3>1 DEF Like
  <2>4. PICK w : w = IF out = "queued" THEN Append(d.wbl, 0) ELSE d.wbl
    OBVIOUS
  <2>5. w \in Seq(0 .. MaxSend) /\ Owned(w) = <<>>
    BY <1>2, <2>4, CommandSent
  <2>6. PICK f : f = Pkg!NotifyAccept([Pkg!Unlink(Pkg!SendCommand(e, out)) EXCEPT !.st = "TRANS"])
    OBVIOUS
  <2>7. Pkg!ServerConnected(d, out) = Pkg!RecvLoop(f, FALSE)
    <3>1. Pkg!Command(p.got) = "req" /\ p.ret # "more"
      BY <1>6 DEF Pkg!Command
    <3>2. Pkg!ServerConnected(d, out) = Pkg!AfterValidation(f)
      BY <1>1, <1>6, <2>1, <2>6, <3>1 DEF Pkg!ServerConnected
    <3>3. QED
      BY <3>2 DEF Pkg!AfterValidation
  <2>8. PICK t : t = "ACCEPT"
    OBVIOUS
  <2>9. f = [e EXCEPT !.st = "TRANS", !.told = Append(<<>>, Note(t, 0)), !.wbl = w]
    <3>1. PICK m, told : m = Note(t, 0) /\ told = Append(<<>>, m)
      OBVIOUS
    <3>2. PICK g : g = Pkg!SendCommand(e, out)
      OBVIOUS
    <3>3. g = [e EXCEPT !.wbl = w]
      <4>1. e = [e EXCEPT !.wbl = d.wbl]
        BY <2>3 DEF PkgConn, Conns
      <4>2. QED
        BY <2>3, <2>4, <3>2, <4>1 DEF Pkg!SendCommand, Pkg!Write
    <3>4. [Pkg!Unlink(g) EXCEPT !.st = "TRANS"] = [e EXCEPT !.st = "TRANS", !.wbl = w]
      BY <2>3, <2>5, <3>3 DEF Pkg!Unlink, PkgConn, Conns
    <3>5. f = Pkg!Tell([Pkg!Unlink(g) EXCEPT !.st = "TRANS"], t, 0)
      BY <2>6, <2>8, <3>2 DEF Pkg!NotifyAccept
    <3>6. f = [[e EXCEPT !.st = "TRANS", !.wbl = w] EXCEPT !.told = Append(@, m)]
      BY <3>1, <3>4, <3>5 DEF Pkg!Tell, Pkg!Note, Note
    <3>7. f = [e EXCEPT !.st = "TRANS", !.told = told, !.wbl = w]
      BY <2>3, <3>1, <3>6 DEF PkgConn, Conns
    <3>8. QED
      BY <3>1, <3>7
  <2>10. t \in {"CONNECT", "ACCEPT"} /\ S!After(Phase(c), Note(t, 0)) = "open"
    BY <1>3, <2>8 DEF S!After, Note
  <2> HIDE <2>8
  <2>11. Checked(e)
    BY <1>3, <2>2, <2>3 DEF Checked
  <2>12. Finished(c, Pkg!RecvLoop(f, FALSE))
    BY <1>2, <1>3, <2>2, <2>3, <2>5, <2>9, <2>10, <2>11, OpensAndRuns
  <2>13. QED
    BY <1>4, <2>7, <2>12, Zenon
<1>7. CASE p.ret = "bad" \/ (p.ret = "package" /\ (p.got.kind # "req" \/ out = "failed"))
  <2>1. PICK e : e = p.c
    OBVIOUS
  <2>2. Like(d, e) /\ e \in PkgConn /\ ~e.linked
    BY <1>2, <1>7, <2>1 DEF Meets, Like
  <2>3. Pkg!ServerConnected(d, out) = Pkg!Shut(Pkg!Unlink(e))
    <3>1. p.ret # "more" /\ ~(p.ret = "package" /\ Pkg!Command(p.got) = "req" /\ out # "failed")
      BY <1>7 DEF Pkg!Command
    <3>2. QED
      BY <1>1, <2>1, <3>1 DEF Pkg!ServerConnected
  <2>4. Pkg!Unlink(e) = e
    <3>1. e.linked \in BOOLEAN
      BY <2>2, PkgFields
    <3>2. QED
      BY <2>2, <3>1 DEF Pkg!Unlink, PkgConn, Conns
  <2>5. Owned(e.wbl) = <<>>
    BY <1>2, <2>2 DEF Like
  <2>6. Finished(c, Shut(e))
    BY <1>2, <1>3, <2>2, <2>5, FailsAtOnce
  <2>7. Pkg!Shut(Pkg!Unlink(e)) = Shut(e)
    BY <2>4 DEF Pkg!Shut, Shut
  <2>8. QED
    BY <1>4, <2>3, <2>6, <2>7, Zenon
<1>8. QED
  BY <1>2, <1>5, <1>6, <1>7 DEF Meets

\* jetnet_tcppkg_handle_*_recv.
LEMMA PkgReceived ==
  ASSUME NEW c, NEW d, NEW out \in Outcome, PkgInv(c), c.proto = "tcppkg",
         c.st \notin {"CLOSE", "CONNECTING"}, ReadOf(c, d)
  PROVE  /\ c.role = "client" => Finished(c, Pkg!HandleClientRecv(d))
         /\ c.role = "server" => Finished(c, Pkg!HandleServerRecv(d, out))
<1>1. CASE c.st = "TRANS"
  <2>1. Finished(c, Pkg!RecvLoop(d, TRUE)) /\ d.st = "TRANS"
    BY <1>1, PkgReceivedOpen
  <2>2. Pkg!HandleClientRecv(d) = Pkg!RecvLoop(d, TRUE) /\ Pkg!HandleServerRecv(d, out) = Pkg!RecvLoop(d, TRUE)
    BY <2>1 DEF Pkg!HandleClientRecv, Pkg!HandleServerRecv
  <2>3. QED
    BY <2>1, <2>2, Zenon
<1>2. CASE c.st = "VALIDING"
  BY <1>2, PkgValiding, StagesOf
<1>3. CASE c.st = "CONNECTED"
  BY <1>3, PkgOffered, StagesOf
<1>4. QED
  BY <1>1, <1>2, <1>3, StagesOf

-----------------------------------------------------------------------------
(* The calls of the owner.                                                 *)

\* A step its owner is not told of, and one it makes itself.
Still(c, d) == d.proto = c.proto /\ d.st = c.st /\ d.told = c.told /\ d.bye = c.bye
Hung(c, d) ==
  d.proto = c.proto /\ d.told = c.told /\ c.st # "CLOSE" /\ d.st = "CLOSE" /\ d.bye

\* A step that touches only the write buffer, and none of an owner before it is
\* open.
LEMMA Untold ==
  ASSUME NEW c, NEW d \in PkgConn, PkgInv(c), c.st # "CLOSE",
         d.proto = c.proto, d.role = c.role, d.st = c.st, d.pr = c.pr, d.linked = c.linked,
         d.rbl = c.rbl, d.told = c.told, d.came = c.came, d.up = c.up, d.bye = c.bye,
         c.st # "TRANS" => \A i \in 1 .. Len(d.wbl) : d.wbl[i] = 0
  PROVE  PkgInv(d) /\ Still(c, d)
<1>1. Got(d) = Got(c) /\ Told(d, "UNREACH") = Told(c, "UNREACH")
  BY DEF Got, Told
<1>2. Whole(d) = Whole(c)
  BY DEF Whole
<1>3. Unparsed(d) /\ Kept(d)
  <2>1. Unparsed(c) /\ Kept(c)
    BY DEF PkgInv
  <2>2. Unparsed(d)
    BY <2>1 DEF Unparsed
  <2>3. Kept(d)
    BY <1>1, <1>2, <2>1 DEF Kept
  <2>4. QED
    BY <2>2, <2>3
<1>4. Common(d)
  BY DEF PkgInv, Common
<1>5. c.st # "TRANS" => Early(d)
  BY DEF PkgInv, Early
<1>6. (HeardOf(d) => HeardOf(c)) /\ (Checked(c) => Checked(d))
  BY DEF HeardOf, Checked
<1>7. IsPrefix(Numbers(Got(d)), Numbers(Whole(d)))
  BY <1>1, <1>2 DEF PkgInv
<1>8. Told(d, "UNREACH") = <<>> /\ (d.st = "TRANS" => Len(d.rbl) < 2) /\ (d.st = "CONNECTING" => d.came = <<>>)
  BY <1>1 DEF PkgInv
<1>9. d.st = "TRANS" \/ HeardOf(d) => Checked(d)
  BY <1>6 DEF PkgInv
<1>10. PkgInv(d)
  BY <1>3, <1>4, <1>5, <1>7, <1>8, <1>9 DEF PkgInv
<1>11. QED
  BY <1>10 DEF Still

\* jetnet_net_send, on tcpsac and tcppkg.
LEMMA PkgSends ==
  ASSUME NEW c, NEW d, NEW seq \in 0 .. MaxSend, NEW k \in 0 .. MaxSend, PkgInv(c), c.st # "CLOSE",
         \/ d = [c EXCEPT !.sent = k]
         \/ c.st = "TRANS" /\ d = [[c EXCEPT !.wbl = Append(@, seq)] EXCEPT !.sent = k]
  PROVE  PkgInv(d) /\ Still(c, d)
<1>1. c \in PkgConn /\ c.wbl \in Seq(0 .. MaxSend)
  BY PkgFields DEF PkgInv
<1>2. PICK w : w = Append(c.wbl, seq)
  OBVIOUS
<1>3. w \in Seq(0 .. MaxSend)
  BY <1>1, <1>2
<1>4. PICK v \in {c.wbl, w} : d = [c EXCEPT !.wbl = v, !.sent = k] /\ (c.st # "TRANS" => v = c.wbl)
  <2>1. [c EXCEPT !.sent = k] = [c EXCEPT !.wbl = c.wbl, !.sent = k]
    BY <1>1 DEF PkgConn, Conns
  <2>2. [[c EXCEPT !.wbl = Append(@, seq)] EXCEPT !.sent = k] = [c EXCEPT !.wbl = w, !.sent = k]
    BY <1>1, <1>2 DEF PkgConn, Conns
  <2>3. QED
    BY <2>1, <2>2
<1>5. v \in Seq(0 .. MaxSend)
  BY <1>1, <1>3
<1>6. /\ d \in PkgConn /\ d.proto = c.proto /\ d.role = c.role /\ d.st = c.st /\ d.pr = c.pr
      /\ d.linked = c.linked /\ d.rbl = c.rbl /\ d.told = c.told /\ d.came = c.came
      /\ d.up = c.up /\ d.bye = c.bye /\ d.wbl = v
  BY <1>1, <1>4, <1>5 DEF PkgConn, Conns
<1>7. c.st # "TRANS" => \A i \in 1 .. Len(d.wbl) : d.wbl[i] = 0
  BY <1>4, <1>6 DEF PkgInv, Early
<1>8. QED
  BY <1>6, <1>7, Untold

\* A write buffer goes out.
LEMMA PkgFlushes ==
  ASSUME NEW c, NEW d, PkgInv(c), c.st # "CLOSE", c.wbl # <<>>, d = [c EXCEPT !.wbl = Tail(@)]
  PROVE  PkgInv(d) /\ Still(c, d)
<1>1. c \in PkgConn /\ c.wbl \in Seq(0 .. MaxSend)
  BY PkgFields DEF PkgInv
<1>2. PICK w : w = Tail(c.wbl)
  OBVIOUS
<1>3. w \in Seq(0 .. MaxSend) /\ Len(w) = Len(c.wbl) - 1 /\ \A i \in 1 .. Len(w) : w[i] = c.wbl[i + 1]
  <2>1. PICK s : s = c.wbl
    OBVIOUS
  <2>2. PICK Q : Q = 0 .. MaxSend
    OBVIOUS
  <2>3. s \in Seq(Q) /\ s # <<>> /\ w = Tail(s)
    BY <1>1, <1>2, <2>1, <2>2
  <2>4. w \in Seq(Q) /\ Len(w) = Len(s) - 1 /\ \A i \in 1 .. Len(w) : w[i] = s[i + 1]
    BY ONLY <2>3
  <2>5. QED
    BY <2>1, <2>2, <2>4
<1>4. d = [c EXCEPT !.wbl = w]
  BY <1>1, <1>2 DEF PkgConn, Conns
<1>5. /\ d \in PkgConn /\ d.proto = c.proto /\ d.role = c.role /\ d.st = c.st /\ d.pr = c.pr
      /\ d.linked = c.linked /\ d.rbl = c.rbl /\ d.told = c.told /\ d.came = c.came
      /\ d.up = c.up /\ d.bye = c.bye /\ d.wbl = w
  BY <1>1, <1>3, <1>4 DEF PkgConn, Conns
<1>6. ASSUME c.st # "TRANS"
      PROVE  \A i \in 1 .. Len(d.wbl) : d.wbl[i] = 0
  <2>1. \A i \in 1 .. Len(c.wbl) : c.wbl[i] = 0
    BY <1>6 DEF PkgInv, Early
  <2>2. \A i \in 1 .. Len(w) : i + 1 \in 1 .. Len(c.wbl)
    BY <1>1, <1>3
  <2>3. QED
    BY <1>3, <1>5, <2>1, <2>2
<1>7. QED
  BY <1>5, <1>6, Untold

\* Time goes by.
LEMMA PkgExpires ==
  ASSUME NEW c, NEW d, PkgInv(c), c.st # "CLOSE", d = [c EXCEPT !.old = TRUE]
  PROVE  PkgInv(d) /\ Still(c, d)
<1>1. c \in PkgConn
  BY DEF PkgInv
<1>2. /\ d \in PkgConn /\ d.proto = c.proto /\ d.role = c.role /\ d.st = c.st /\ d.pr = c.pr
      /\ d.linked = c.linked /\ d.rbl = c.rbl /\ d.told = c.told /\ d.came = c.came
      /\ d.up = c.up /\ d.bye = c.bye /\ d.wbl = c.wbl
  BY <1>1 DEF PkgConn, Conns
<1>3. c.st # "TRANS" => \A i \in 1 .. Len(d.wbl) : d.wbl[i] = 0
  BY <1>2 DEF PkgInv, Early
<1>4. QED
  BY <1>2, <1>3, Untold

\* jetnet_net_close, on tcpsac and tcppkg.
LEMMA PkgHangsUp ==
  ASSUME NEW c, NEW d, PkgInv(c), c.st # "CLOSE", d = [Shut(c) EXCEPT !.bye = TRUE]
  PROVE  PkgInv(d) /\ Hung(c, d)
<1>1. Live(c) /\ c \in PkgConn
  BY LiveOf
<1>2. /\ d \in PkgConn /\ d.proto = c.proto /\ d.role = c.role /\ d.st = "CLOSE"
      /\ d.linked = c.linked /\ d.told = c.told /\ d.came = c.came /\ ~d.up /\ d.bye
  BY <1>1 DEF PkgConn, Conns, States, Shut
<1>3. Got(d) = Got(c) /\ ~d.linked
  BY <1>1, <1>2 DEF Got, Told, Live
<1>4. HeardOf(d) => Checked(d)
  BY <1>2 DEF PkgInv, HeardOf, Checked
<1>5. PkgInv(d)
  BY <1>1, <1>2, <1>3, <1>4, Ends
<1>6. QED
  BY <1>2, <1>5 DEF Hung

\* Nothing is polled that is not linked.
LEMMA PolledSame ==
  ASSUME NEW c, ~c.linked
  PROVE  Polled(c) = c
<1>1. Pkg!Poll(c) = c
  BY DEF Pkg!Poll, Pkg!PollLink
<1>2. Web!Poll(c) = c
  BY DEF Web!Poll, Web!PollLink
<1>3. QED
  BY <1>1, <1>2 DEF Polled

-----------------------------------------------------------------------------
(* New connections of tcpsac and tcppkg.                                   *)

\* The owner of a listener was told of an accepted socket.
Accepted(told) == told = <<Note("ACCEPT", 0)>>

\* A new connection satisfies the invariant.
LEMMA PkgBegins ==
  ASSUME NEW c \in PkgConn, c.rbl = <<>>, c.came = <<>>, ~c.linked, ~c.bye, c.up = (c.st # "CLOSE"),
         c.st \in Stages(c.proto, c.role), c.role = "listener" => c.st # "TRANS",
         c.pr.step = "HEAD",
         \A i \in 1 .. Len(c.wbl) : c.wbl[i] = 0, c.st = "TRANS" => c.proto = "tcpsac",
         c.told = <<>> \/ (Accepted(c.told) /\ c.st = "TRANS")
  PROVE  PkgInv(c)
<1>1. c.told \in Seq(AnyNote) /\ c.wbl \in Seq(Nat)
  BY PkgFields
<1>2. Common(c)
  BY DEF Common
<1>3. Got(c) = <<>> /\ Told(c, "UNREACH") = <<>>
  <2>1. CASE c.told = <<>>
    BY <2>1, ToldNothing DEF Got
  <2>2. CASE Accepted(c.told)
    <3>1. PICK m : m = Note("ACCEPT", 0)
      OBVIOUS
    <3>2. m \in AnyNote /\ m.t \notin {"RECV", "UNREACH"}
      BY <3>1 DEF Note, AnyNote, Notices
    <3>3. PICK b : b = [told |-> <<>>]
      OBVIOUS
    <3>4. b.told = <<>>
      BY <3>3
    <3>5. b.told \in Seq(AnyNote) /\ c.told = Append(b.told, m)
      BY <2>2, <3>1, <3>4 DEF Accepted
    <3>6. Got(c) = Got(b) /\ Told(c, "UNREACH") = Told(b, "UNREACH")
      BY <3>2, <3>5, GotSame
    <3>7. QED
      BY <3>4, <3>6, ToldNothing DEF Got
  <2>3. QED
    BY <2>1, <2>2
<1>4. Unparsed(c)
  BY DEF Unparsed, Paired
<1>5. Chosen(c.rbl, App) = <<>> /\ Whole(c) = <<>> /\ Numbers(<<>>) = <<>>
  BY ChosenEmpty, NumbersEmpty DEF Whole
<1>6. Kept(c)
  <2>1. <<>> \o <<>> = <<>>
    OBVIOUS
  <2>2. QED
    BY <1>3, <1>5, <2>1 DEF Kept
<1>7. IsPrefix(Numbers(Got(c)), Numbers(Whole(c)))
  BY <1>6, KeptPrefix
<1>8. c.st = "TRANS" \/ HeardOf(c) => Checked(c)
  BY DEF Checked, HeardOf
<1>9. c.st \notin {"TRANS", "CLOSE"} => Early(c)
  BY DEF Early
<1>10. c.st = "CLOSE" => Numbers(Told(c, "UNREACH")) = Owned(c.wbl)
  BY <1>1, <1>3, <1>5, NoOwner
<1>11. QED
  BY <1>2, <1>3, <1>4, <1>6, <1>7, <1>8, <1>9, <1>10 DEF PkgInv

\* The fields of a new connection.
LEMMA NewFields ==
  ASSUME NEW P, NEW proto \in P, NEW role \in {"listener", "client", "server"}, NEW st \in States,
         NEW R, NEW pr \in R, NEW c, c = NewConnection(proto, role, st, pr)
  PROVE  /\ c \in Conns(P, R) /\ c.proto = proto /\ c.role = role /\ c.st = st /\ c.pr = pr
         /\ c.rbl = <<>> /\ c.came = <<>> /\ c.told = <<>> /\ c.wbl = <<>> /\ c.sent = 0
         /\ ~c.linked /\ ~c.bye /\ c.up
<1>1. 0 \in 0 .. MaxSend
  BY NetAssumption
<1>2. PICK e : e = <<>>
  OBVIOUS
<1>3. e \in Seq(Unit) /\ e \in Seq(0 .. MaxSend) /\ e \in Seq(AnyNote)
  BY <1>2
<1>4. c = [proto |-> proto, role |-> role, st |-> st, pr |-> pr, linked |-> FALSE,
           rbl |-> e, wbl |-> e, told |-> e, came |-> e, sent |-> 0,
           up |-> TRUE, bye |-> FALSE, old |-> FALSE]
  BY <1>2 DEF NewConnection
<1>5. c \in Conns(P, R)
  BY <1>1, <1>3, <1>4 DEF Conns
<1>6. /\ c.proto = proto /\ c.role = role /\ c.st = st /\ c.pr = pr
      /\ c.rbl = e /\ c.came = e /\ c.told = e /\ c.wbl = e /\ c.sent = 0
      /\ ~c.linked /\ ~c.bye /\ c.up
  BY <1>4
<1>7. QED
  BY <1>2, <1>5, <1>6

\* A connection that begins, as its owner sees it.
Starts(c) ==
  /\ ~c.bye /\ ~c.linked /\ c.st \in States
  /\ c.told = <<>> \/ (c.told # <<>> /\ Phase(c) = S!AfterAll("offered", c.told))

\* A new connection in the states a protocol begins with.
LEMMA PlainBegins ==
  ASSUME NEW c, NEW proto \in {"tcpsac", "tcppkg"}, proto \in Proto, NEW role,
         NEW st \in States, st # "CLOSE",
         role \in {"listener", "client", "server"}, st \in Stages(proto, role),
         role = "listener" => st # "TRANS", st = "TRANS" => proto = "tcpsac",
         c = NewConnection(proto, role, st, [step |-> "HEAD"])
  PROVE  PkgInv(c) /\ Starts(c)
<1>1. PICK h : h = [step |-> "HEAD"]
  OBVIOUS
<1>2. h \in PkgParser /\ h.step = "HEAD"
  BY <1>1 DEF PkgParser
<1>3. /\ c \in PkgConn /\ c.proto = proto /\ c.role = role /\ c.st = st /\ c.pr = h
      /\ c.rbl = <<>> /\ c.came = <<>> /\ c.told = <<>> /\ c.wbl = <<>> /\ c.sent = 0
      /\ ~c.linked /\ ~c.bye /\ c.up
  <2>1. PICK P : P = {"tcpsac", "tcppkg"} \cap Proto
    OBVIOUS
  <2>2. PkgConn = Conns(P, PkgParser) /\ proto \in P /\ c = NewConnection(proto, role, st, h)
    BY <1>1, <2>1 DEF PkgConn
  <2>3. QED
    BY <1>2, <2>2, NewFields
<1>4. \A i \in 1 .. Len(c.wbl) : c.wbl[i] = 0
  BY <1>3
<1>5. PkgInv(c)
  BY <1>2, <1>3, <1>4, PkgBegins, ZenonT(30)
<1>6. QED
  BY <1>3, <1>5 DEF Starts

\* The new connections of tcpsac.
LEMMA SacBegins ==
  ASSUME "tcpsac" \in Proto, NEW atonce \in BOOLEAN
  PROVE  /\ PkgInv(Sac!Listen) /\ Starts(Sac!Listen)
         /\ PkgInv(Sac!Connect(atonce)) /\ Starts(Sac!Connect(atonce))
         /\ PkgInv(Sac!HandleAccept) /\ Starts(Sac!HandleAccept)
<1>1. PICK proto \in {"tcpsac", "tcppkg"} : proto = "tcpsac"
  OBVIOUS
<1>2. \A role, st, pr : Sac!NewConnection(proto, role, st, pr) = NewConnection(proto, role, st, pr)
  BY DEF Sac!NewConnection, NewConnection
<1>3. \A role \in {"listener", "client", "server"}, st \in States :
        st # "CLOSE" /\ st \in Stages(proto, role) /\ (role = "listener" => st # "TRANS")
        => \A c : c = NewConnection(proto, role, st, [step |-> "HEAD"]) => PkgInv(c) /\ Starts(c)
  BY <1>1, PlainBegins
<1>4. PkgInv(Sac!Listen) /\ Starts(Sac!Listen)
  <2>1. PICK role, st : role = "listener" /\ st = "LISTEN"
    OBVIOUS
  <2>2. Sac!Listen = NewConnection(proto, role, st, [step |-> "HEAD"])
    BY <1>1, <2>1 DEF Sac!Listen, Sac!NewConnection, NewConnection, Sac!Head0
  <2>3. st \in States /\ st # "CLOSE" /\ st \in Stages(proto, role) /\ (role = "listener" => st # "TRANS")
        /\ role \in {"listener", "client", "server"}
    BY <1>1, <2>1 DEF States, Stages
  <2> HIDE <2>1, <1>1
  <2>4. QED
    BY <1>3, <2>2, <2>3
<1>5. PkgInv(Sac!Connect(atonce)) /\ Starts(Sac!Connect(atonce))
  <2>1. PICK role, st : role = "client" /\ st = IF atonce THEN "TRANS" ELSE "CONNECTING"
    OBVIOUS
  <2>2. Sac!Connect(atonce) = NewConnection(proto, role, st, [step |-> "HEAD"])
    BY <1>1, <2>1 DEF Sac!Connect, Sac!NewConnection, NewConnection, Sac!Head0
  <2>3. st \in States /\ st # "CLOSE" /\ st \in Stages(proto, role) /\ (role = "listener" => st # "TRANS")
        /\ role \in {"listener", "client", "server"}
    BY <1>1, <2>1 DEF States, Stages
  <2> HIDE <2>1, <1>1
  <2>4. QED
    BY <1>3, <2>2, <2>3
<1>6. PkgInv(Sac!HandleAccept) /\ Starts(Sac!HandleAccept)
  <2>1. PICK h, m, d : h = [step |-> "HEAD"] /\ m = Note("ACCEPT", 0) /\ d = Sac!HandleAccept
    OBVIOUS
  <2>2. PICK role, st : role = "server" /\ st = "TRANS"
    OBVIOUS
  <2>3. PICK c : c = NewConnection(proto, role, st, h)
    OBVIOUS
  <2>4. /\ c \in PkgConn /\ c.proto = proto /\ c.role = role /\ c.st = st /\ c.pr = h
        /\ c.rbl = <<>> /\ c.came = <<>> /\ c.told = <<>> /\ c.wbl = <<>> /\ c.sent = 0
        /\ ~c.linked /\ ~c.bye /\ c.up
    <3>1. PICK P : P = {"tcpsac", "tcppkg"} \cap Proto
      OBVIOUS
    <3>2. PkgConn = Conns(P, PkgParser) /\ proto \in P
      BY <1>1, <3>1 DEF PkgConn
    <3>3. h \in PkgParser /\ role \in {"listener", "client", "server"} /\ st \in States
      BY <2>1, <2>2 DEF PkgParser, States
    <3> HIDE <2>2, <1>1
    <3>4. QED
      BY <2>3, <3>2, <3>3, NewFields
  <2>5. PICK told : told = <<m>>
    OBVIOUS
  <2>6. told \in Seq(AnyNote) /\ m \in AnyNote /\ told = Append(<<>>, m)
    BY <2>1, <2>5 DEF Note, AnyNote, Notices
  <2>7. d = [c EXCEPT !.told = told]
    <3>1. d = Sac!Tell(c, "ACCEPT", 0)
      BY <1>1, <2>1, <2>2, <2>3 DEF Sac!HandleAccept, Sac!NotifyAccept, Sac!Head0, Sac!NewConnection, NewConnection
    <3>2. d = [c EXCEPT !.told = Append(@, m)]
      BY <2>1, <3>1 DEF Sac!Tell, Sac!Note, Note
    <3>3. QED
      BY <2>4, <2>6, <3>2 DEF PkgConn, Conns
  <2>8. /\ d \in PkgConn /\ d.proto = proto /\ d.role = role /\ d.st = st /\ d.pr = h
        /\ d.rbl = <<>> /\ d.came = <<>> /\ d.told = told /\ d.wbl = <<>>
        /\ ~d.linked /\ ~d.bye /\ d.up
    BY <2>4, <2>6, <2>7 DEF PkgConn, Conns
  <2>9. \A i \in 1 .. Len(d.wbl) : d.wbl[i] = 0
    BY <2>8
  <2>10. d.st \in Stages(d.proto, d.role) /\ d.st = "TRANS" /\ d.role # "listener" /\ d.proto = "tcpsac"
         /\ d.pr.step = "HEAD" /\ Accepted(d.told) /\ d.st \in States
    BY <1>1, <2>1, <2>2, <2>5, <2>8 DEF Stages, Accepted, States
  <2>11. PkgInv(d)
    BY <2>8, <2>9, <2>10, PkgBegins
  <2>12. Starts(d)
    <3>1. "offered" \in Ats
      BY DEF Ats
    <3>2. S!AfterAll("offered", <<>>) = "offered"
      BY <3>1, AfterNothing
    <3>3. PICK at : at = "offered"
      OBVIOUS
    <3>4. S!AfterAll(at, told) = S!After(at, m)
      <4>1. PICK e : e = <<>>
        OBVIOUS
      <4>2. e \in Seq(AnyNote) /\ at \in Ats /\ S!AfterAll(at, e) = at /\ told = Append(e, m)
        BY <2>6, <3>1, <3>2, <3>3, <4>1
      <4>3. S!AfterAll(at, Append(e, m)) = S!After(S!AfterAll(at, e), m)
        BY <2>6, <4>2, AfterAppend
      <4>4. QED
        BY <4>2, <4>3
    <3>5. S!After(at, m) = "open"
      BY <2>1, <3>3 DEF S!After, Note
    <3>6. Phase(d) = "open" /\ told # <<>>
      BY <2>5, <2>10, PhaseOf
    <3>7. QED
      BY <2>8, <2>10, <3>3, <3>4, <3>5, <3>6 DEF Starts
  <2>13. QED
    BY <2>1, <2>11, <2>12, Zenon
<1>7. QED
  BY <1>4, <1>5, <1>6

\* jetnet_tcppkg_connect: connected at once or asked for, or failed at once.
LEMMA PkgAsks ==
  ASSUME "tcppkg" \in Proto, NEW atonce \in BOOLEAN, NEW out \in Outcome
  PROVE  PkgInv(Pkg!Connect(atonce, out)) /\ Starts(Pkg!Connect(atonce, out))
<1>1. PICK h, proto, role, st : h = [step |-> "HEAD"] /\ proto = "tcppkg" /\ role = "client" /\ st = "CONNECTING"
  OBVIOUS
<1>2. PICK c : c = NewConnection(proto, role, st, h)
  OBVIOUS
<1>3. PICK d : d = Pkg!Connect(atonce, out)
  OBVIOUS
<1>4. /\ c \in PkgConn /\ c.proto = proto /\ c.role = role /\ c.st = st /\ c.pr = h
      /\ c.rbl = <<>> /\ c.came = <<>> /\ c.told = <<>> /\ c.wbl = <<>> /\ c.sent = 0
      /\ ~c.linked /\ ~c.bye /\ c.up
  <2>1. PICK P : P = {"tcpsac", "tcppkg"} \cap Proto
    OBVIOUS
  <2>2. PkgConn = Conns(P, PkgParser) /\ proto \in P
    BY <1>1, <2>1 DEF PkgConn
  <2>3. h \in PkgParser /\ role \in {"listener", "client", "server"} /\ st \in States
    BY <1>1 DEF PkgParser, States
  <2> HIDE <1>1
  <2>4. QED
    BY <1>2, <2>2, <2>3, NewFields
<1>5. /\ ~atonce => d = c
      /\ atonce /\ out # "failed" => d = Pkg!SendCommand([c EXCEPT !.st = "VALIDING"], out)
      /\ atonce /\ out = "failed" => d = Pkg!Shut(c)
  BY <1>1, <1>2, <1>3 DEF Pkg!Connect, Pkg!NewConnection, NewConnection, Pkg!Head0
<1>6. PICK w \in {<<>>, <<0>>} : w = IF out = "queued" THEN <<0>> ELSE <<>>
  OBVIOUS
<1>7. w \in Seq(0 .. MaxSend) /\ \A i \in 1 .. Len(w) : w[i] = 0
  <2>1. 0 \in 0 .. MaxSend
    BY NetAssumption
  <2>2. CASE w = <<>>
    BY <2>2
  <2>3. CASE w = <<0>>
    <3>1. PICK Q : Q = 0 .. MaxSend
      OBVIOUS
    <3>2. <<0>> \in Seq(Q) /\ Len(<<0>>) = 1 /\ <<0>>[1] = 0
      BY <2>1, <3>1
    <3>3. QED
      BY <2>3, <3>1, <3>2
  <2>4. QED
    BY <1>6, <2>2, <2>3
<1>8. atonce /\ out # "failed" => d = [c EXCEPT !.st = "VALIDING", !.wbl = w]
  <2>1. SUFFICES ASSUME atonce, out # "failed"
                 PROVE  d = [c EXCEPT !.st = "VALIDING", !.wbl = w]
    OBVIOUS
  <2>2. PICK e : e = [c EXCEPT !.st = "VALIDING"]
    OBVIOUS
  <2>3. e.wbl = <<>> /\ Append(<<>>, 0) = <<0>> /\ e = [e EXCEPT !.wbl = <<>>]
    <3>1. PICK o : o = <<>>
      OBVIOUS
    <3>2. c \in PkgConn /\ c.wbl = o
      BY <1>4, <3>1
    <3>3. e.wbl = o /\ e = [e EXCEPT !.wbl = o]
      BY <2>2, <3>2 DEF PkgConn, Conns
    <3>4. QED
      BY <3>1, <3>3
  <2>4. d = IF out = "queued" THEN [e EXCEPT !.wbl = Append(@, 0)] ELSE e
    BY <1>5, <2>1, <2>2 DEF Pkg!SendCommand, Pkg!Write
  <2>5. d = [e EXCEPT !.wbl = w]
    <3>1. CASE out = "queued"
      <4>1. w = <<0>> /\ d = [e EXCEPT !.wbl = Append(@, 0)]
        BY <1>6, <2>4, <3>1
      <4>2. [e EXCEPT !.wbl = Append(@, 0)] = [e EXCEPT !.wbl = Append(e.wbl, 0)]
        OBVIOUS
      <4>3. QED
        BY <2>3, <4>1, <4>2, Zenon
    <3>2. CASE out # "queued"
      BY <1>6, <2>3, <2>4, <3>2, Zenon
    <3>3. QED
      BY <3>1, <3>2
  <2>6. QED
    BY <1>4, <2>2, <2>5 DEF PkgConn, Conns
<1>9. CASE ~atonce
  <2>1. d.st \in Stages(d.proto, d.role) /\ d.pr.step = "HEAD" /\ d.role # "listener" /\ d.st \notin {"TRANS", "CLOSE"}
    BY <1>1, <1>4, <1>5, <1>9 DEF Stages
  <2>2. \A i \in 1 .. Len(d.wbl) : d.wbl[i] = 0
    BY <1>4, <1>5, <1>9
  <2>3. PkgInv(d)
    BY <1>4, <1>5, <1>9, <2>1, <2>2, PkgBegins
  <2>4. Starts(d)
    BY <1>1, <1>4, <1>5, <1>9 DEF Starts, States
  <2>5. QED
    BY <1>3, <2>3, <2>4
<1>10. CASE atonce /\ out # "failed"
  <2>1. /\ d \in PkgConn /\ d.proto = proto /\ d.role = role /\ d.st = "VALIDING" /\ d.pr = h
        /\ d.rbl = <<>> /\ d.came = <<>> /\ d.told = <<>> /\ d.wbl = w
        /\ ~d.linked /\ ~d.bye /\ d.up
    BY <1>4, <1>7, <1>8, <1>10, ZenonT(30) DEF PkgConn, Conns, States
  <2>2. d.st \in Stages(d.proto, d.role) /\ d.pr.step = "HEAD" /\ d.role # "listener" /\ d.st \notin {"TRANS", "CLOSE"}
    BY <1>1, <2>1 DEF Stages
  <2>3. \A i \in 1 .. Len(d.wbl) : d.wbl[i] = 0
    BY <1>7, <2>1
  <2>4. PkgInv(d)
    BY <2>1, <2>2, <2>3, PkgBegins
  <2>5. Starts(d)
    BY <2>1 DEF Starts, States
  <2>6. QED
    BY <1>3, <2>4, <2>5
<1>11. CASE atonce /\ out = "failed"
  <2>1. d = [c EXCEPT !.st = "CLOSE", !.up = FALSE]
    BY <1>5, <1>11 DEF Pkg!Shut
  <2>2. /\ d \in PkgConn /\ d.proto = proto /\ d.role = role /\ d.st = "CLOSE" /\ d.pr = h
        /\ d.rbl = <<>> /\ d.came = <<>> /\ d.told = <<>> /\ d.wbl = <<>>
        /\ ~d.linked /\ ~d.bye /\ ~d.up
    BY <1>4, <2>1 DEF PkgConn, Conns, States
  <2>3. d.st \in Stages(d.proto, d.role) /\ d.pr.step = "HEAD" /\ d.role # "listener" /\ d.st # "TRANS"
    BY <1>1, <2>2 DEF Stages
  <2>4. \A i \in 1 .. Len(d.wbl) : d.wbl[i] = 0
    BY <2>2
  <2>5. PkgInv(d)
    <3>1. d.up = (d.st # "CLOSE")
      BY <2>2, PkgFields
    <3>2. QED
      BY <2>2, <2>3, <2>4, <3>1, PkgBegins
  <2>6. Starts(d)
    BY <2>2 DEF Starts, States
  <2>7. QED
    BY <1>3, <2>5, <2>6
<1>12. QED
  BY <1>9, <1>10, <1>11

\* The listener and the accepted socket of tcppkg, which the poll takes out of
\* link_list at once: its entry is not read as a server's.
LEMMA PkgTakes ==
  ASSUME "tcppkg" \in Proto
  PROVE  /\ PkgInv(Pkg!Listen) /\ Starts(Pkg!Listen)
         /\ \E d : d = Polled(Pkg!HandleAccept) /\ PkgInv(d) /\ Starts(d)
<1>1. PICK proto \in {"tcpsac", "tcppkg"} : proto = "tcppkg"
  OBVIOUS
<1>2. PkgInv(Pkg!Listen) /\ Starts(Pkg!Listen)
  <2>1. PICK role, st : role = "listener" /\ st = "LISTEN"
    OBVIOUS
  <2>2. Pkg!Listen = NewConnection(proto, role, st, [step |-> "HEAD"])
    BY <1>1, <2>1 DEF Pkg!Listen, Pkg!NewConnection, NewConnection, Pkg!Head0
  <2>3. st \in States /\ st # "CLOSE" /\ st \in Stages(proto, role) /\ (role = "listener" => st # "TRANS")
        /\ role \in {"listener", "client", "server"} /\ st # "TRANS" /\ proto \in Proto
    BY <1>1, <2>1 DEF States, Stages
  <2> HIDE <2>1, <1>1
  <2>4. QED
    BY <2>2, <2>3, PlainBegins
<1>3. PICK h, role, st : h = [step |-> "HEAD"] /\ role = "server" /\ st = "CONNECTED"
  OBVIOUS
<1>4. PICK c : c = NewConnection(proto, role, st, h)
  OBVIOUS
<1>5. /\ c \in PkgConn /\ c.proto = proto /\ ~c.linked /\ PkgInv(c) /\ Starts(c)
  <2>1. st \in States /\ st # "CLOSE" /\ st \in Stages(proto, role) /\ (role = "listener" => st # "TRANS")
        /\ role \in {"listener", "client", "server"} /\ st # "TRANS" /\ proto \in Proto
    BY <1>1, <1>3 DEF States, Stages
  <2>2. c = NewConnection(proto, role, st, [step |-> "HEAD"]) /\ c.proto = proto
    BY <1>3, <1>4 DEF NewConnection
  <2> HIDE <1>1, <1>3
  <2>3. PkgInv(c) /\ Starts(c)
    BY <2>1, <2>2, PlainBegins
  <2>4. QED
    BY <2>2, <2>3 DEF PkgInv, Common
<1>6. Pkg!HandleAccept = [c EXCEPT !.linked = TRUE]
  BY <1>1, <1>3, <1>4 DEF Pkg!HandleAccept, Pkg!NewConnection, NewConnection, Pkg!Head0
<1>7. Polled(Pkg!HandleAccept) = c
  <2>1. PICK e : e = [c EXCEPT !.linked = TRUE]
    OBVIOUS
  <2>2. e.linked /\ e.proto = "tcppkg"
    BY <1>1, <1>5, <2>1 DEF PkgConn, Conns
  <2>3. Polled(e) = [e EXCEPT !.linked = FALSE]
    BY <2>2 DEF Polled, Pkg!Poll, Pkg!PollLink, Pkg!SeenRole
  <2>4. c = [e EXCEPT !.linked = FALSE]
    BY <1>5, <2>1 DEF PkgConn, Conns
  <2>5. QED
    BY <1>6, <2>1, <2>3, <2>4
<1>8. QED
  BY <1>2, <1>5, <1>7

-----------------------------------------------------------------------------
(* http: the units that the messages took.                                 *)

\* How Taken comes about.
Taking(f, g, k) == f[0] = 0 /\ \A i \in 1 .. k : f[i] = f[i - 1] + g[i].n

\* Taken is built message by message.
LEMMA TakenIs ==
  ASSUME NEW c, NEW g, g = Got(c), g \in Seq(AnyNote), NEW k \in 0 .. Len(g)
  PROVE  \E f \in [0 .. k -> Nat] : Taking(f, g, k) /\ Taken(c, k) = f[k]
<1> DEFINE F == [i \in 1 .. k |-> [a \in Nat |-> a + g[i].n]]
           Step(f) == [i \in 0 .. k |-> IF i = 0 THEN 0 ELSE f[i - 1] + g[i].n]
<1>0. \A i \in 1 .. k : g[i].n \in Nat
  <2>1. \A i \in 1 .. k : g[i] \in AnyNote
    OBVIOUS
  <2>2. QED
    BY <2>1 DEF AnyNote
<1>1. k \in Nat
  OBVIOUS
<1>2. F \in [1 .. k -> [Nat -> Nat]]
  <2>1. \A i \in 1 .. k : \A a \in Nat : a + g[i].n \in Nat
    BY <1>0
  <2>2. QED
    BY <2>1
<1>3. PICK p \in [0 .. k -> Nat] : Loop(p, k, 0, F)
  <2> HIDE DEF F
  <2>1. QED
    BY <1>1, <1>2, LoopRuns
<1>4. ASSUME NEW i \in 1 .. k
      PROVE  p[i] = p[i - 1] + g[i].n
  <2>0. i - 1 \in 0 .. k
    BY <1>1
  <2>1. p[i - 1] \in Nat /\ p[i] = F[i][p[i - 1]]
    <3> HIDE DEF F
    <3>1. QED
      BY <1>3, <2>0 DEF Loop
  <2>2. F[i] = [a \in Nat |-> a + g[i].n]
    OBVIOUS
  <2> HIDE DEF F
  <2>3. QED
    BY <2>1, <2>2
<1>5. p[0] = 0
  BY <1>3 DEF Loop
<1>6. p = Step(p)
  <2>1. \A i \in 0 .. k : p[i] = Step(p)[i]
    <3>1. ASSUME NEW i \in 0 .. k, i # 0
          PROVE  i \in 1 .. k
      BY <1>1, <3>1
    <3>2. QED
      BY <1>4, <1>5, <3>1
  <2>2. QED
    BY <1>3, <2>1
<1>7. PICK f : f = Step(f) /\ Taken(c, k) = f[k]
  <2> DEFINE f == CHOOSE h : h = Step(h)
  <2>1. f = Step(f)
    <3> HIDE DEF Step
    <3>1. QED
      BY <1>6
  <2>2. Taken(c, k) = f[k]
    BY DEF Taken
  <2> HIDE DEF f
  <2>3. QED
    BY <2>1, <2>2
<1>8. \A i \in 0 .. k : f[i] = IF i = 0 THEN 0 ELSE f[i - 1] + g[i].n
  BY <1>7
<1> DEFINE T == {i \in 0 .. k : f[i] = p[i]}
<1>9. 0 \in T
  BY <1>1, <1>5, <1>8
<1>10. ASSUME NEW i \in 0 .. k - 1, i \in T
       PROVE  i + 1 \in T
  <2>1. i + 1 \in 1 .. k /\ i + 1 \in 0 .. k /\ (i + 1) - 1 = i /\ i + 1 # 0
    BY <1>1
  <2>2. QED
    BY <1>4, <1>8, <1>10, <2>1
<1>11. \A i \in 0 .. k : i \in T
  <2> HIDE DEF T
  <2>1. QED
    BY <1>1, <1>9, <1>10, Ascends
<1>12. p[k] = f[k]
  BY <1>1, <1>11
<1>13. Taking(p, g, k)
  BY <1>4, <1>5 DEF Taking
<1>14. QED
  BY <1>3, <1>7, <1>12, <1>13

\* The same messages took the same units.
LEMMA TakenSame ==
  ASSUME NEW c, NEW d, NEW g, NEW h, g = Got(c), h = Got(d), g \in Seq(AnyNote), h \in Seq(AnyNote),
         NEW k \in 0 .. Len(g), k <= Len(h), \A i \in 1 .. k : g[i] = h[i]
  PROVE  Taken(c, k) = Taken(d, k) /\ Taken(c, k) \in Nat
<1>0. k \in Nat /\ k \in 0 .. Len(h)
  OBVIOUS
<1>1. PICK f \in [0 .. k -> Nat] : Taking(f, g, k) /\ Taken(c, k) = f[k]
  BY TakenIs
<1>2. PICK e \in [0 .. k -> Nat] : Taking(e, h, k) /\ Taken(d, k) = e[k]
  BY <1>0, TakenIs
<1> DEFINE T == {i \in 0 .. k : f[i] = e[i]}
<1>3. 0 \in T
  BY <1>0, <1>1, <1>2 DEF Taking
<1>4. ASSUME NEW i \in 0 .. k - 1, i \in T
      PROVE  i + 1 \in T
  <2>1. i + 1 \in 1 .. k /\ i + 1 \in 0 .. k /\ (i + 1) - 1 = i
    BY <1>0
  <2>2. g[i + 1] = h[i + 1]
    BY <2>1
  <2>3. f[i + 1] = f[i] + g[i + 1].n /\ e[i + 1] = e[i] + h[i + 1].n
    BY <1>1, <1>2, <2>1 DEF Taking
  <2>4. QED
    BY <1>4, <2>1, <2>2, <2>3
<1>5. \A i \in 0 .. k : i \in T
  <2> HIDE DEF T
  <2>1. QED
    BY <1>0, <1>3, <1>4, Ascends
<1>6. QED
  BY <1>0, <1>1, <1>2, <1>5

\* The next message takes the units it has.
LEMMA TakenNext ==
  ASSUME NEW c, NEW g, g = Got(c), g \in Seq(AnyNote), NEW k \in 1 .. Len(g)
  PROVE  Taken(c, k) = Taken(c, k - 1) + g[k].n /\ Taken(c, k - 1) \in Nat /\ Taken(c, k) \in Nat
         /\ g[k].n \in Nat
<1>0. k \in 0 .. Len(g) /\ k - 1 \in 0 .. Len(g) /\ k \in Nat /\ k - 1 \in Nat
  OBVIOUS
<1>1. PICK f \in [0 .. k -> Nat] : Taking(f, g, k) /\ Taken(c, k) = f[k]
  BY <1>0, TakenIs
<1>2. PICK e \in [0 .. k - 1 -> Nat] : Taking(e, g, k - 1) /\ Taken(c, k - 1) = e[k - 1]
  BY <1>0, TakenIs
<1> DEFINE T == {i \in 0 .. k - 1 : f[i] = e[i]}
<1>3. 0 \in T
  BY <1>0, <1>1, <1>2 DEF Taking
<1>4. ASSUME NEW i \in 0 .. (k - 1) - 1, i \in T
      PROVE  i + 1 \in T
  <2>1. i + 1 \in 1 .. k /\ i + 1 \in 1 .. k - 1 /\ i + 1 \in 0 .. k - 1 /\ (i + 1) - 1 = i
    BY <1>0
  <2>2. f[i + 1] = f[i] + g[i + 1].n /\ e[i + 1] = e[i] + g[i + 1].n
    BY <1>1, <1>2, <2>1 DEF Taking
  <2>3. QED
    BY <1>4, <2>1, <2>2
<1>5. \A i \in 0 .. k - 1 : i \in T
  <2> HIDE DEF T
  <2>1. QED
    BY <1>0, <1>3, <1>4, Ascends
<1>6. f[k - 1] = e[k - 1] /\ k - 1 \in 0 .. k - 1 /\ k - 1 \in 0 .. k
  BY <1>0, <1>5
<1>7. f[k] = f[k - 1] + g[k].n
  BY <1>0, <1>1 DEF Taking
<1>8. g[k].n \in Nat
  <2>1. g[k] \in AnyNote
    OBVIOUS
  <2>2. QED
    BY <2>1 DEF AnyNote
<1>9. QED
  BY <1>0, <1>1, <1>2, <1>6, <1>7, <1>8

\* No message took a unit.
LEMMA TakenZero ==
  ASSUME NEW c, Got(c) \in Seq(AnyNote)
  PROVE  Taken(c, 0) = 0
<1>1. PICK g : g = Got(c)
  OBVIOUS
<1>2. 0 \in 0 .. Len(g)
  BY <1>1
<1>3. PICK f \in [0 .. 0 -> Nat] : Taking(f, g, 0) /\ Taken(c, 0) = f[0]
  BY <1>1, <1>2, TakenIs
<1>4. QED
  BY <1>3 DEF Taking

-----------------------------------------------------------------------------
(* http: the pieces of body.                                               *)

\* The units of body.
Body == [kind : {"body"}, part : Nat, n : Nat]

\* A unit is a piece of body, or it is not.
LEMMA IsBody ==
  ASSUME NEW u \in Unit
  PROVE  u \in Body <=> u.kind = "body"
BY DEF Unit, Body

\* The pieces of body, with a unit more.
LEMMA BodiesAre ==
  /\ Bodies(<<>>) = 0
  /\ \A s \in Seq(Unit) : Bodies(s) \in Nat
  /\ \A s \in Seq(Unit), u \in Unit :
       Bodies(Append(s, u)) = IF u.kind = "body" THEN Bodies(s) + 1 ELSE Bodies(s)
<1>1. \A s : Bodies(s) = Len(Chosen(s, Body))
  BY DEF Bodies, Body
<1>2. Bodies(<<>>) = 0
  BY <1>1, ChosenEmpty
<1>3. ASSUME NEW s \in Seq(Unit), NEW u \in Unit
      PROVE  Bodies(s) \in Nat /\ Bodies(Append(s, u)) = IF u.kind = "body" THEN Bodies(s) + 1 ELSE Bodies(s)
  <2>1. PICK a : a = Chosen(s, Body)
    OBVIOUS
  <2>2. a \in Seq(Unit)
    BY <2>1, ChosenType
  <2>3. Chosen(Append(s, u), Body) = IF u \in Body THEN Append(a, u) ELSE a
    BY <2>1, ChosenAppend
  <2>4. Len(Append(a, u)) = Len(a) + 1 /\ Len(a) \in Nat
    BY <2>2
  <2>5. Bodies(s) = Len(a)
    BY <1>1, <2>1
  <2>6. Bodies(Append(s, u)) = IF u \in Body THEN Len(Append(a, u)) ELSE Len(a)
    BY <1>1, <2>3, Zenon
  <2>7. QED
    BY <2>4, <2>5, <2>6, IsBody
<1>4. \A s \in Seq(Unit) : Bodies(s) \in Nat
  <2>1. PICK u : u \in Unit
    <3>1. [kind |-> "body", part |-> 1, n |-> 0] \in Unit
      BY DEF Unit, UnitKinds
    <3>2. QED
      BY <3>1
  <2>2. QED
    BY <1>3, <2>1
<1>5. QED
  BY <1>2, <1>3, <1>4

-----------------------------------------------------------------------------
(* The parser of http.                                                     *)

\* The fields of an http connection.
LEMMA WebFields ==
  ASSUME NEW c \in WebConn
  PROVE  /\ c.proto = "http" /\ c.proto \in Proto
         /\ c.role \in {"listener", "client", "server"} /\ c.st \in States
         /\ c.linked \in BOOLEAN /\ c.rbl \in Seq(Unit) /\ c.wbl \in Seq(0 .. MaxSend)
         /\ c.told \in Seq(AnyNote) /\ c.came \in Seq(Unit)
         /\ c.sent \in 0 .. MaxSend /\ c.up \in BOOLEAN /\ c.bye \in BOOLEAN /\ c.old \in BOOLEAN
         /\ Got(c) \in Seq(AnyNote) /\ c.pr \in WebParser
<1>1. Got(c) \in Seq(AnyNote)
  <2>1. c.told \in Seq(AnyNote)
    BY DEF WebConn, Conns
  <2>2. QED
    BY <2>1, ToldType, Zenon DEF Got
<1>2. QED
  BY <1>1 DEF WebConn, Conns

\* The fields of its parser.
LEMMA WebParserFields ==
  ASSUME NEW p \in WebParser
  PROVE  /\ p.step \in {"NONE", "FIELD", "HEADERS", "BODY", "CHUNK", "COMPLETE", "ERROR"}
         /\ p.off \in Nat /\ p.body \in Nat /\ p.keep \in BOOLEAN /\ p.paused \in BOOLEAN
         /\ p.toeof \in BOOLEAN /\ p.full \in BOOLEAN
         /\ p.size \in {"right", "longer", "astray"} /\ p.twice \in BOOLEAN
BY DEF WebParser

\* d is c but for its parser.
Alike(c, d) ==
  /\ d.proto = c.proto /\ d.role = c.role /\ d.st = c.st /\ d.linked = c.linked
  /\ d.rbl = c.rbl /\ d.wbl = c.wbl /\ d.told = c.told /\ d.came = c.came
  /\ d.sent = c.sent /\ d.up = c.up /\ d.bye = c.bye /\ d.old = c.old

\* A connection with another parser.
LEMMA WithParser ==
  ASSUME NEW c \in WebConn, NEW p \in WebParser, NEW d, d = [c EXCEPT !.pr = p]
  PROVE  d \in WebConn /\ Alike(c, d) /\ d.pr = p
BY DEF WebConn, Conns, Alike

\* Where the messages end does not depend on the parser.
LEMMA AlikeTaken ==
  ASSUME NEW c \in WebConn, NEW d, d.told = c.told
  PROVE  /\ Got(d) = Got(c) /\ Got(c) \in Seq(AnyNote)
         /\ \A k \in 0 .. Len(Got(c)) : Taken(d, k) = Taken(c, k) /\ Taken(c, k) \in Nat
         /\ Begins(d) = Begins(c) /\ Begins(c) \in Nat
<1>1. Got(d) = Got(c) /\ Got(c) \in Seq(AnyNote)
  BY WebFields DEF Got, Told
<1>2. PICK g : g = Got(c)
  OBVIOUS
<1>3. g = Got(d) /\ g \in Seq(AnyNote)
  BY <1>1, <1>2
<1>4. \A k \in 0 .. Len(g) : Taken(d, k) = Taken(c, k) /\ Taken(c, k) \in Nat
  <2>1. ASSUME NEW k \in 0 .. Len(g)
        PROVE  Taken(d, k) = Taken(c, k) /\ Taken(c, k) \in Nat
    <3>1. k <= Len(g) /\ \A i \in 1 .. k : g[i] = g[i]
      BY <1>3
    <3>2. QED
      BY <1>2, <1>3, <3>1, TakenSame
  <2>2. QED
    BY <2>1
<1>5. Len(g) \in 0 .. Len(g)
  BY <1>3
<1>6. QED
  BY <1>1, <1>2, <1>3, <1>4, <1>5 DEF Begins

\* The parser after one piece.
After1(p, u) ==
  LET q == [p EXCEPT !.off = @ + 1] IN
  IF u.kind = "body" \/ q.size = "astray"
  THEN [q EXCEPT !.step = "BODY", !.body = @ + 1]
  ELSE CASE u.kind \in Web!Silent -> q
         [] (u.kind = "fields" /\ ~q.full) \/ u.kind = "trailer" -> [q EXCEPT !.step = "FIELD"]
         [] u.kind \in {"headers", "headerstoeof"} /\ ~(q.step = "NONE" /\ q.full) ->
              [q EXCEPT !.step = "HEADERS", !.keep = u.kind = "headers",
                        !.toeof = u.kind = "headerstoeof"]
         [] u.kind = "chunk" ->
              [q EXCEPT !.step = "CHUNK", !.size = IF @ = "longer" THEN "astray" ELSE @]
         [] u.kind = "end" -> [q EXCEPT !.step = "COMPLETE", !.paused = TRUE]
         [] OTHER -> [q EXCEPT !.step = "ERROR"]

\* The parser after a piece it parses again.
AfterAgain(p, u) ==
  [p EXCEPT !.off = p.off + 1, !.twice = TRUE,
            !.step = IF u.n = Web!Wrong THEN "ERROR" ELSE p.step,
            !.size = IF u.n = Web!Longer THEN "longer" ELSE p.size]

\* What no piece changes.
Onward(p, q) == q \in WebParser /\ q.off = p.off + 1 /\ q.twice = p.twice

\* The seven things a piece can do to the parser.
LEMMA After1Is ==
  ASSUME NEW p \in WebParser, NEW u \in Unit, NEW q, q = After1(p, u)
  PROVE  /\ Onward(p, q)
         /\ \/ /\ u.kind = "body" \/ p.size = "astray"
               /\ q.step = "BODY" /\ q.body = p.body + 1
               /\ q.keep = p.keep /\ q.paused = p.paused /\ q.size = p.size
            \/ /\ u.kind \in {"blank", "chunkpart"} /\ p.size # "astray"
               /\ q.step = p.step /\ q.body = p.body
               /\ q.keep = p.keep /\ q.paused = p.paused /\ q.size = p.size
            \/ /\ u.kind \in {"fields", "trailer"} /\ p.size # "astray"
               /\ q.step = "FIELD" /\ q.body = p.body
               /\ q.keep = p.keep /\ q.paused = p.paused /\ q.size = p.size
            \/ /\ u.kind \in {"headers", "headerstoeof"} /\ p.size # "astray"
               /\ q.step = "HEADERS" /\ q.body = p.body
               /\ q.paused = p.paused /\ q.size = p.size
            \/ /\ u.kind = "chunk" /\ p.size # "astray"
               /\ q.step = "CHUNK" /\ q.body = p.body
               /\ q.keep = p.keep /\ q.paused = p.paused
               /\ q.size = IF p.size = "longer" THEN "astray" ELSE p.size
            \/ /\ u.kind = "end" /\ p.size # "astray"
               /\ q.step = "COMPLETE" /\ q.body = p.body
               /\ q.keep = p.keep /\ q.paused /\ q.size = p.size
            \/ /\ u.kind # "body" /\ p.size # "astray" /\ q.step = "ERROR" /\ q.body = p.body
               /\ q.keep = p.keep /\ q.paused = p.paused /\ q.size = p.size
<1>1. PICK r : r = [p EXCEPT !.off = @ + 1]
  OBVIOUS
<1>2. /\ r \in WebParser /\ r.off = p.off + 1 /\ r.full = p.full /\ r.body = p.body /\ r.step = p.step
      /\ r.keep = p.keep /\ r.paused = p.paused /\ r.toeof = p.toeof /\ r.size = p.size /\ r.twice = p.twice
  BY <1>1 DEF WebParser
<1>3. CASE u.kind = "body" \/ r.size = "astray"
  <2>1. PICK n \in Nat : n = r.body + 1
    BY <1>2, WebParserFields
  <2>2. q = [r EXCEPT !.step = "BODY", !.body = n]
    BY <1>1, <1>3, <2>1 DEF After1
  <2>3. /\ q \in WebParser /\ q.off = r.off /\ q.twice = r.twice /\ q.step = "BODY" /\ q.body = n
        /\ q.keep = r.keep /\ q.paused = r.paused /\ q.size = r.size
    BY <1>2, <2>1, <2>2, ZenonT(30) DEF WebParser
  <2>4. QED
    BY <1>2, <1>3, <2>1, <2>3 DEF Onward
<1>4. CASE ~(u.kind = "body" \/ r.size = "astray")
  <2>1. q = CASE u.kind \in {"blank", "chunkpart"} -> r
              [] (u.kind = "fields" /\ ~r.full) \/ u.kind = "trailer" -> [r EXCEPT !.step = "FIELD"]
              [] u.kind \in {"headers", "headerstoeof"} /\ ~(r.step = "NONE" /\ r.full) ->
                   [r EXCEPT !.step = "HEADERS", !.keep = u.kind = "headers",
                             !.toeof = u.kind = "headerstoeof"]
              [] u.kind = "chunk" ->
                   [r EXCEPT !.step = "CHUNK", !.size = IF @ = "longer" THEN "astray" ELSE @]
              [] u.kind = "end" -> [r EXCEPT !.step = "COMPLETE", !.paused = TRUE]
              [] OTHER -> [r EXCEPT !.step = "ERROR"]
    BY <1>1, <1>4 DEF After1, Web!Silent
  <2>2. CASE u.kind \in {"blank", "chunkpart"}
    <3>1. q = r
      BY <2>1, <2>2
    <3>2. QED
      BY <1>2, <1>4, <2>2, <3>1 DEF Onward
  <2>3. CASE (u.kind = "fields" /\ ~r.full) \/ u.kind = "trailer"
    <3>1. q = [r EXCEPT !.step = "FIELD"]
      BY <2>1, <2>3
    <3>2. QED
      BY <1>2, <1>4, <2>3, <3>1 DEF WebParser, Onward
  <2>4. CASE u.kind \in {"headers", "headerstoeof"} /\ ~(r.step = "NONE" /\ r.full)
    <3>1. PICK a \in BOOLEAN, b \in BOOLEAN : a = (u.kind = "headers") /\ b = (u.kind = "headerstoeof")
      OBVIOUS
    <3>2. q = [r EXCEPT !.step = "HEADERS", !.keep = a, !.toeof = b]
      BY <2>1, <2>4, <3>1
    <3>3. QED
      BY <1>2, <1>4, <2>4, <3>2 DEF WebParser, Onward
  <2>5. CASE u.kind = "chunk"
    <3>1. PICK z \in {"right", "longer", "astray"} : z = IF r.size = "longer" THEN "astray" ELSE r.size
      BY <1>2, WebParserFields
    <3>2. q = [r EXCEPT !.step = "CHUNK", !.size = z]
      BY <2>1, <2>5, <3>1
    <3>3. QED
      BY <1>2, <1>4, <2>5, <3>1, <3>2 DEF WebParser, Onward
  <2>6. CASE u.kind = "end"
    <3>1. q = [r EXCEPT !.step = "COMPLETE", !.paused = TRUE]
      BY <2>1, <2>6
    <3>2. QED
      BY <1>2, <1>4, <2>6, <3>1 DEF WebParser, Onward
  <2>7. CASE /\ u.kind \notin {"blank", "chunkpart", "trailer", "chunk", "end"}
             /\ ~(u.kind = "fields" /\ ~r.full)
             /\ ~(u.kind \in {"headers", "headerstoeof"} /\ ~(r.step = "NONE" /\ r.full))
    <3>1. q = [r EXCEPT !.step = "ERROR"]
      BY <2>1, <2>7
    <3>2. QED
      BY <1>2, <1>4, <3>1 DEF WebParser, Onward
  <2>8. QED
    BY <2>2, <2>3, <2>4, <2>5, <2>6, <2>7
<1>5. QED
  BY <1>3, <1>4

\* A piece that is parsed again is an error, or changes no step.
LEMMA AfterAgainIs ==
  ASSUME NEW p \in WebParser, NEW u \in Unit, NEW q, q = AfterAgain(p, u)
  PROVE  /\ q \in WebParser /\ q.off = p.off + 1 /\ q.twice /\ q.body = p.body
         /\ q.keep = p.keep /\ q.paused = p.paused
         /\ q.step \in {p.step, "ERROR"} /\ q.size \in {p.size, "longer"}
<1>1. PICK o, t, z : /\ o = p.off + 1 /\ t = (IF u.n = Web!Wrong THEN "ERROR" ELSE p.step)
                     /\ z = IF u.n = Web!Longer THEN "longer" ELSE p.size
  OBVIOUS
<1>2. o \in Nat /\ t \in {p.step, "ERROR"} /\ z \in {p.size, "longer"}
  BY <1>1, WebParserFields
<1>3. q = [p EXCEPT !.off = o, !.twice = TRUE, !.step = t, !.size = z]
  BY <1>1 DEF AfterAgain, WebParser
<1>4. QED
  BY <1>1, <1>2, <1>3, WebParserFields DEF WebParser

\* Piece is After1, of the parser, and Reread is AfterAgain.
LEMMA PieceIs ==
  ASSUME NEW c \in WebConn, NEW u \in Unit
  PROVE  /\ Web!Piece(c, u) = [c EXCEPT !.pr = After1(c.pr, u)]
         /\ Web!Reread(c, u) = [c EXCEPT !.pr = AfterAgain(c.pr, u)]
<1>1. Web!Piece(c, u) = [c EXCEPT !.pr = After1(c.pr, u)]
  BY Zenon DEF Web!Piece, After1
<1>2. Web!Reread(c, u) = [c EXCEPT !.pr = AfterAgain(c.pr, u)]
  BY Zenon DEF Web!Reread, AfterAgain
<1>3. QED
  BY <1>1, <1>2

\* One piece more, which is parsed for the first time.
LEMMA OverMore ==
  ASSUME NEW r \in Seq(Unit), NEW s \in Seq(Unit), NEW B \in Nat, NEW p \in WebParser,
         NEW got \in BOOLEAN,
         NEW at \in Nat,
         Over(r, s, B, p, got, at), Flows(s), at < Len(r), ~p.paused,
         p.step \in {"NONE"} \cup Going,
         NEW q, q = After1(p, r[at + 1])
  PROVE  /\ Over(r, s, B, q, got, at + 1)
         /\ q \in WebParser /\ q.off = p.off + 1 /\ q.twice = p.twice
         /\ q.step \in {"NONE", "COMPLETE", "ERROR"} \cup Going
<1>2. /\ at \in Nat /\ at < Len(r) /\ p.off \in Nat /\ p.body \in Nat /\ p.keep \in BOOLEAN
      /\ p.paused \in BOOLEAN
  BY WebParserFields
<1>3. PICK u : u = r[at + 1]
  OBVIOUS
<1>4. u \in Unit /\ at + 1 \in 1 .. Len(r) /\ r[at + 1] = u
  BY <1>2, <1>3
<1>5. /\ q \in WebParser /\ q.off = p.off + 1 /\ q.twice = p.twice
      /\ \/ /\ u.kind = "body" \/ p.size = "astray"
            /\ q.step = "BODY" /\ q.body = p.body + 1
            /\ q.keep = p.keep /\ q.paused = p.paused /\ q.size = p.size
         \/ /\ u.kind \in {"blank", "chunkpart"} /\ p.size # "astray"
            /\ q.step = p.step /\ q.body = p.body
            /\ q.keep = p.keep /\ q.paused = p.paused /\ q.size = p.size
         \/ /\ u.kind \in {"fields", "trailer"} /\ p.size # "astray"
            /\ q.step = "FIELD" /\ q.body = p.body
            /\ q.keep = p.keep /\ q.paused = p.paused /\ q.size = p.size
         \/ /\ u.kind \in {"headers", "headerstoeof"} /\ p.size # "astray"
            /\ q.step = "HEADERS" /\ q.body = p.body
            /\ q.paused = p.paused /\ q.size = p.size
         \/ /\ u.kind = "chunk" /\ p.size # "astray"
            /\ q.step = "CHUNK" /\ q.body = p.body
            /\ q.keep = p.keep /\ q.paused = p.paused
            /\ q.size = IF p.size = "longer" THEN "astray" ELSE p.size
         \/ /\ u.kind = "end" /\ p.size # "astray"
            /\ q.step = "COMPLETE" /\ q.body = p.body
            /\ q.keep = p.keep /\ q.paused /\ q.size = p.size
         \/ /\ u.kind # "body" /\ p.size # "astray" /\ q.step = "ERROR" /\ q.body = p.body
            /\ q.keep = p.keep /\ q.paused = p.paused /\ q.size = p.size
  <2>1. q = After1(p, u)
    BY <1>3, Zenon
  <2>2. Onward(p, q)
    BY ONLY p \in WebParser, <1>4, <2>1, After1Is
  <2>3. QED
    BY ONLY p \in WebParser, <1>4, <2>1, <2>2, After1Is DEF Onward
<1>6. Holds(r, s, B) /\ at + 1 \in 0 .. Len(r)
  BY <1>4 DEF Over
<1>7. s[B + (at + 1)] = u /\ B + (at + 1) > 0
  BY <1>4, <1>6 DEF Holds
<1>8. p.step # "ERROR" /\ p.step # "COMPLETE"
  BY DEF Going
\* Behind a piece of body, or of the headers
<1>9. ASSUME got \/ p.step \in Sized, p.size # "astray"
      PROVE  u.kind \in Follows
  <2>1. B + at > 0 /\ s[B + at].kind \in InBody
    BY <1>8, <1>9 DEF Over
  <2>2. PICK j \in Nat : j = B + at
    BY <1>2
  <2>3. j \in 1 .. Len(s) - 1 /\ s[j].kind \in InBody /\ s[j + 1] = u
    <3>1. j + 1 = B + (at + 1)
      BY <1>2, <2>2
    <3>2. QED
      BY <1>2, <1>6, <1>7, <2>1, <2>2, <3>1 DEF Holds
  <2>4. QED
    BY <2>3 DEF Flows
<1>10. /\ q.step = "NONE" => ~q.keep /\ (q.size = "astray" => q.off = 0)
       /\ q.step # "NONE" => q.off > 0
       /\ q.step \in Going => ~q.paused
       /\ q.step = "COMPLETE" => q.paused
  <2>1. p.step = "NONE" => ~p.keep
    BY DEF Over
  <2>2. QED
    BY <1>2, <1>5, <2>1 DEF Going
<1>11. q.twice => q.paused \/ q.step = "ERROR" \/ q.off > at + 1
  <2>1. p.twice => p.off > at
    BY <1>8 DEF Over
  <2>2. QED
    BY <1>2, <1>5, <2>1
<1>12. ASSUME ~q.twice
       PROVE  Once(r, q, at + 1)
  <2>1. Once(r, p, at)
    BY <1>5, <1>12 DEF Over
  <2>2. p.size = "right" /\ p.off = at /\ p.body = Bodies(SubSeq(r, 1, at))
    BY <2>1 DEF Once
  <2>3. q.off = at + 1 /\ q.size = "right"
    BY <1>5, <2>2
  <2>4. q.body = Bodies(SubSeq(r, 1, at + 1))
    <3>1. PICK a : a = SubSeq(r, 1, at)
      OBVIOUS
    <3>2. at \in 0 .. Len(r) - 1 /\ at \in 0 .. Len(r)
      BY <1>2
    <3>3. a \in Seq(Unit) /\ SubSeq(r, 1, at + 1) = Append(a, u)
      <4>1. SubSeq(r, 1, at) \in Seq(Unit) /\ SubSeq(r, 1, at + 1) = Append(SubSeq(r, 1, at), r[at + 1])
        BY <3>2, FirstItems
      <4>2. QED
        BY <1>3, <3>1, <4>1, Zenon
    <3>4. p.body = Bodies(a)
      BY <2>2, <3>1, Zenon
    <3>5. Bodies(Append(a, u)) = IF u.kind = "body" THEN Bodies(a) + 1 ELSE Bodies(a)
      BY <1>4, <3>3, BodiesAre
    <3>6. q.body = IF u.kind = "body" THEN p.body + 1 ELSE p.body
      BY <1>5, <2>2
    <3>7. q.body = Bodies(Append(a, u))
      BY <3>4, <3>5, <3>6, Zenon
    <3>8. QED
      BY <3>3, <3>7, Zenon
  <2>5. \A i \in 1 .. (at + 1) - 1 : r[i].kind # "end"
    <3>1. ASSUME NEW i \in 1 .. at
          PROVE  r[i].kind # "end"
      <4>1. CASE i = at
        BY <1>2, <1>8, <2>1, <3>1, <4>1 DEF Once
      <4>2. CASE i # at
        <5>1. i \in 1 .. at - 1
          BY <1>2, <4>2
        <5>2. QED
          BY <2>1, <5>1 DEF Once
      <4>3. QED
        BY <4>1, <4>2
    <3>2. (at + 1) - 1 = at
      BY <1>2
    <3>3. QED
      BY <3>1, <3>2
  <2>6. q.step # "ERROR" => (r[at + 1].kind = "end" <=> q.step = "COMPLETE")
    BY <1>4, <1>5, <1>8, <2>2
  <2>7. QED
    BY <1>5, <2>3, <2>4, <2>5, <2>6 DEF Once
<1>13. got /\ q.step # "ERROR" => ~q.keep
  <2>1. got => ~p.keep
    BY <1>8 DEF Over
  <2>2. u.kind \in Follows => u.kind \notin {"headers", "headerstoeof"}
    BY DEF Follows
  <2>3. QED
    BY <1>5, <1>9, <2>1, <2>2
<1>14. ASSUME got \/ q.step \in Sized, q.step # "ERROR"
       PROVE  q.paused \/ q.size = "astray" \/ (B + (at + 1) > 0 /\ s[B + (at + 1)].kind \in InBody)
  <2>1. CASE u.kind \in InBody
    BY <1>7, <2>1
  <2>2. CASE u.kind \notin InBody
    <3>1. u.kind \in {"blank", "fields"} => ~(got \/ p.step \in Sized) \/ p.size = "astray"
      BY <1>9 DEF Follows
    <3>2. u.kind \notin {"body", "chunkpart", "trailer", "headers", "headerstoeof", "chunk"}
      BY <2>2 DEF InBody
    <3>3. QED
      BY <1>5, <1>14, <3>1, <3>2 DEF Sized
  <2>3. QED
    BY <2>1, <2>2
<1>15. Over(r, s, B, q, got, at + 1)
  BY <1>6, <1>10, <1>11, <1>12, <1>13, <1>14 DEF Over
<1>16. q.step \in {"NONE", "COMPLETE", "ERROR"} \cup Going
  BY <1>5 DEF Going
<1>17. QED
  BY <1>5, <1>15, <1>16

\* A parser that parsed a unit twice and has stopped is at any unit.
LEMMA OverAny ==
  ASSUME NEW r \in Seq(Unit), NEW s \in Seq(Unit), NEW B \in Nat, NEW p \in WebParser,
         NEW got \in BOOLEAN,
         NEW at, Over(r, s, B, p, got, at), p.twice, p.paused \/ p.step = "ERROR",
         NEW n \in 0 .. Len(r)
  PROVE  Over(r, s, B, p, got, n)
<1>1. p.step # "ERROR" => p.paused
  OBVIOUS
<1>2. p.step = "ERROR" \/ p.paused
  OBVIOUS
<1>3. p.step \in Sized => p.paused
  BY <1>2 DEF Sized
<1>4. QED
  BY <1>1, <1>2, <1>3 DEF Over

\* http_parser_execute does nothing more.
Stopped(c) == c.pr.paused \/ c.pr.step = "ERROR"
\* A turn of http_parser_execute.
NextPiece(c, u, k, old) ==
  IF Stopped(c) THEN c ELSE IF k <= old THEN Web!Reread(c, u) ELSE Web!Piece(c, u)
\* How Execute comes about.
Executing(f, c, old, s) ==
  f[0] = c /\ \A k \in 1 .. Len(s) : f[k] = NextPiece(f[k - 1], s[k], k, old)

\* A turn leaves an http connection.
LEMMA NextPieceIn ==
  ASSUME NEW c \in WebConn, NEW u \in Unit, NEW k \in Nat, NEW old \in Nat
  PROVE  NextPiece(c, u, k, old) \in WebConn
<1>1. PICK p, q : p = After1(c.pr, u) /\ q = AfterAgain(c.pr, u)
  OBVIOUS
<1>2. p \in WebParser /\ q \in WebParser
  BY <1>1, WebFields, After1Is, AfterAgainIs DEF Onward
<1>3. Web!Piece(c, u) \in WebConn /\ Web!Reread(c, u) \in WebConn
  <2>1. Web!Piece(c, u) = [c EXCEPT !.pr = p] /\ Web!Reread(c, u) = [c EXCEPT !.pr = q]
    BY <1>1, PieceIs
  <2>2. QED
    BY <1>2, <2>1, WithParser
<1>4. QED
  BY <1>3 DEF NextPiece

\* Execute goes piece by piece.
LEMMA ExecuteIs ==
  ASSUME NEW c \in WebConn, NEW old \in Nat, NEW s \in Seq(Unit)
  PROVE  \E f \in [0 .. Len(s) -> WebConn] : Executing(f, c, old, s) /\ Web!Execute(c, old, s) = f[Len(s)]
<1> DEFINE n == Len(s)
           F == [k \in 1 .. n |-> [a \in WebConn |-> NextPiece(a, s[k], k, old)]]
           Step(f) == [k \in 0 .. n |-> IF k = 0 THEN c
                                        ELSE IF f[k - 1].pr.paused \/ f[k - 1].pr.step = "ERROR" THEN f[k - 1]
                                        ELSE IF k <= old THEN Web!Reread(f[k - 1], s[k])
                                        ELSE Web!Piece(f[k - 1], s[k])]
<1>1. n \in Nat
  OBVIOUS
<1>2. F \in [1 .. n -> [WebConn -> WebConn]]
  <2>1. \A k \in 1 .. n : \A a \in WebConn : NextPiece(a, s[k], k, old) \in WebConn
    <3>1. \A k \in 1 .. n : s[k] \in Unit
      OBVIOUS
    <3>2. QED
      BY <3>1, NextPieceIn
  <2> HIDE DEF n
  <2>2. QED
    BY <2>1
<1>3. PICK p \in [0 .. n -> WebConn] : Loop(p, n, c, F)
  <2> HIDE DEF F, n
  <2>1. QED
    BY <1>1, <1>2, LoopRuns
<1>4. ASSUME NEW k \in 1 .. n
      PROVE  p[k] = NextPiece(p[k - 1], s[k], k, old)
  <2>0. k - 1 \in 0 .. n
    BY <1>1
  <2>1. p[k - 1] \in WebConn /\ p[k] = F[k][p[k - 1]]
    <3> HIDE DEF F, n
    <3>1. QED
      BY <1>3, <2>0 DEF Loop
  <2>2. F[k] = [a \in WebConn |-> NextPiece(a, s[k], k, old)]
    OBVIOUS
  <2> HIDE DEF F
  <2>3. QED
    BY <2>1, <2>2
<1>5. p[0] = c
  BY <1>3 DEF Loop
<1>6. p = Step(p)
  <2>1. \A k \in 0 .. n : p[k] = Step(p)[k]
    <3>1. ASSUME NEW k \in 0 .. n, k # 0
          PROVE  k \in 1 .. n
      BY <1>1, <3>1
    <3>2. \A k \in 1 .. n : p[k] = IF p[k - 1].pr.paused \/ p[k - 1].pr.step = "ERROR" THEN p[k - 1]
                                   ELSE IF k <= old THEN Web!Reread(p[k - 1], s[k])
                                   ELSE Web!Piece(p[k - 1], s[k])
      BY <1>4 DEF NextPiece, Stopped
    <3> HIDE DEF n
    <3>3. QED
      BY <1>5, <3>1, <3>2
  <2> HIDE DEF n
  <2>2. QED
    BY <1>3, <2>1
<1>7. PICK f : f = Step(f) /\ Web!Execute(c, old, s) = f[n]
  <2> DEFINE f == CHOOSE g : g = Step(g)
  <2>1. f = Step(f)
    <3> HIDE DEF Step
    <3>1. QED
      BY <1>6
  <2>2. Web!Execute(c, old, s) = f[n]
    BY DEF Web!Execute
  <2> HIDE DEF f
  <2>3. QED
    BY <2>1, <2>2
<1>8. \A k \in 0 .. n : f[k] = IF k = 0 THEN c ELSE NextPiece(f[k - 1], s[k], k, old)
  BY <1>7 DEF NextPiece, Stopped
<1> DEFINE T == {k \in 0 .. n : f[k] = p[k]}
<1>9. 0 \in T
  BY <1>1, <1>5, <1>8
<1>10. ASSUME NEW k \in 0 .. n - 1, k \in T
       PROVE  k + 1 \in T
  <2>1. k + 1 \in 1 .. n /\ k + 1 \in 0 .. n /\ (k + 1) - 1 = k /\ k + 1 # 0
    BY <1>1
  <2>2. QED
    BY <1>4, <1>8, <1>10, <2>1
<1>11. \A k \in 0 .. n : k \in T
  <2> HIDE DEF T
  <2>1. QED
    BY <1>1, <1>9, <1>10, Ascends
<1>12. p[n] = f[n]
  BY <1>1, <1>11
<1>13. Executing(p, c, old, s)
  BY <1>4, <1>5 DEF Executing
<1>14. QED
  BY <1>3, <1>7, <1>12, <1>13

\* The parser of what is in the read buffer, from where it is.
Ready(c) == c.pr.step \in {"NONE"} \cup Going

\* A unit that is parsed again leaves the parser where it was in the buffer.
LEMMA OverAgain ==
  ASSUME NEW r \in Seq(Unit), NEW s \in Seq(Unit), NEW B \in Nat, NEW p \in WebParser,
         NEW got \in BOOLEAN,
         NEW at \in Nat, at > 0,
         Over(r, s, B, p, got, at), ~p.paused, p.step = "NONE",
         NEW u \in Unit, NEW q, q = AfterAgain(p, u)
  PROVE  /\ Over(r, s, B, q, got, at) /\ q \in WebParser /\ q.twice
         /\ q.step \in {"NONE", "ERROR"} /\ ~q.paused
<1>1. /\ q \in WebParser /\ q.off = p.off + 1 /\ q.twice
      /\ q.keep = p.keep /\ q.paused = p.paused
      /\ q.step \in {"NONE", "ERROR"} /\ q.size \in {p.size, "longer"}
  BY AfterAgainIs
<1>2. p.off \in Nat /\ p.off >= at
  BY WebParserFields DEF Over, Once
<1>3. p.size # "astray" /\ ~p.keep
  BY <1>2 DEF Over, Once
<1>4. q.size # "astray" /\ ~q.keep /\ q.off > at /\ q.off > 0
  BY <1>1, <1>2, <1>3
<1>5. got => B + at > 0 /\ s[B + at].kind \in InBody
  BY <1>3 DEF Over
<1>6. q.step \notin Going /\ q.step \notin Sized
  BY <1>1 DEF Going, Sized
<1>7. Holds(r, s, B) /\ at \in 0 .. Len(r)
  BY DEF Over
<1>8. q.step # "COMPLETE"
  BY <1>1
<1>9. QED
  BY <1>1, <1>4, <1>5, <1>6, <1>7, <1>8 DEF Over

\* Execute parses all that was not parsed, behind what it parses again, or stops
\* on the way; and it does nothing to a parser that is paused.
LEMMA Executes ==
  ASSUME NEW c \in WebConn, Flows(c.came), Ready(c), NEW units \in Seq(Unit),
         NEW old \in 0 .. Len(units),
         NEW a \in Nat, Over(c.rbl, c.came, Begins(c), c.pr, Got(c) # <<>>, a),
         old > 0 => c.pr.step = "NONE" /\ (c.pr.paused \/ a = old),
         c.pr.paused \/ ( /\ Len(units) - old = Len(c.rbl) - a
                          /\ \A k \in old + 1 .. Len(units) : units[k] = c.rbl[a + (k - old)] ),
         NEW d, d = Web!Execute(c, old, units)
  PROVE  /\ d \in WebConn /\ Alike(c, d) /\ Parses(d, 0)
         /\ c.pr.paused => d = c
         /\ c.pr.twice => d.pr.twice
         /\ Stopped(d) \/ At(d, 0) = Len(d.rbl)
<1>1. PICK n, r, s, B, got : /\ n = Len(units) /\ r = c.rbl /\ s = c.came
                             /\ B = Begins(c) /\ got = (Got(c) # <<>>)
  OBVIOUS
<1>2. /\ n \in Nat /\ old \in Nat /\ r \in Seq(Unit) /\ s \in Seq(Unit) /\ B \in Nat /\ got \in BOOLEAN
      /\ old <= n /\ Flows(s) /\ Over(r, s, B, c.pr, got, a)
  BY <1>1, WebFields, WebParserFields, AlikeTaken
<1>3. PICK f \in [0 .. n -> WebConn] : Executing(f, c, old, units) /\ d = f[n]
  BY <1>1, <1>2, ExecuteIs
<1>4. c.pr.paused \/ (n - old = Len(r) - a /\ \A k \in old + 1 .. n : units[k] = r[a + (k - old)])
  BY <1>1
<1> DEFINE To(k) == IF k <= old THEN a ELSE a + (k - old)
           At0(e, k) == /\ Alike(c, e)
                        /\ (c.pr.paused => e = c)
                        /\ (c.pr.twice => e.pr.twice)
                        /\ \E at \in Nat :
                             /\ Over(r, s, B, e.pr, got, at)
                             /\ \/ Stopped(e)
                                \/ at = To(k) /\ Ready(e) /\ (old > 0 /\ k <= old => e.pr.step = "NONE")
           T == {k \in 0 .. n : At0(f[k], k)}
<1>5. 0 \in T
  <2>1. f[0] = c
    BY <1>3 DEF Executing
  <2>2. Alike(c, c)
    BY DEF Alike
  <2>3. To(0) = a /\ 0 \in 0 .. n
    BY <1>2
  <2>4. QED
    BY <1>2, <2>1, <2>2, <2>3
<1>6. ASSUME NEW k \in 0 .. n - 1, k \in T
      PROVE  k + 1 \in T
  <2>1. k + 1 \in 1 .. n /\ k + 1 \in 0 .. n /\ (k + 1) - 1 = k
    BY <1>2
  <2>2. PICK e, g : e = f[k] /\ g = f[k + 1]
    OBVIOUS
  <2>3. e \in WebConn /\ At0(e, k)
    BY <1>3, <1>6, <2>2
  <2>4. k + 1 \in Nat
    OBVIOUS
  <2>5. g = NextPiece(e, units[k + 1], k + 1, old)
    BY <1>1, <1>3, <2>1, <2>2, <2>4 DEF Executing
  <2>6. CASE Stopped(e)
    <3>1. g = e
      BY <2>5, <2>6 DEF NextPiece
    <3>2. At0(g, k + 1)
      BY <2>3, <2>6, <3>1
    <3>3. QED
      BY <2>1, <2>2, <3>2
  <2>7. CASE ~Stopped(e)
    <3>1. PICK at \in Nat : /\ Over(r, s, B, e.pr, got, at)
                            /\ at = To(k) /\ Ready(e) /\ (old > 0 /\ k <= old => e.pr.step = "NONE")
      BY <2>3, <2>7
    <3>2. ~e.pr.paused /\ ~c.pr.paused
      BY <2>3, <2>7 DEF Stopped
    <3>3. PICK u : u = units[k + 1]
      OBVIOUS
    <3>4. u \in Unit
      BY <1>1, <2>1, <3>3
    <3>5. k + 1 <= old => at > 0 /\ e.pr.step = "NONE"
      BY <1>2, <2>4, <3>1, <3>2
    <3>6. ~(k + 1 <= old) => at < Len(r) /\ u = r[at + 1]
      <4>1. ASSUME ~(k + 1 <= old)
            PROVE  at = a + (k - old) /\ at + 1 = a + ((k + 1) - old)
        <5>1. k \in Int /\ old \in Int /\ a \in Int /\ old <= k
          BY <1>2, <4>1
        <5>2. k <= old => k = old
          BY <5>1
        <5>3. at = a + (k - old)
          BY <3>1, <5>1, <5>2
        <5>4. QED
          BY ONLY <5>1, <5>3
      <4>2. ASSUME ~(k + 1 <= old)
            PROVE  k + 1 \in old + 1 .. n
        BY <1>2, <2>4, <4>2
      <4>3. QED
        <5>1. CASE k + 1 <= old
          BY <5>1
        <5>2. CASE ~(k + 1 <= old)
          <6>1. at = a + (k - old) /\ at + 1 = a + ((k + 1) - old) /\ k + 1 \in old + 1 .. n
            BY <4>1, <4>2, <5>2
          <6>2. n - old = Len(r) - a /\ units[k + 1] = r[a + ((k + 1) - old)]
            BY <1>4, <3>2, <6>1
          <6>3. u = r[at + 1]
            BY <3>3, <6>1, <6>2
          <6>4. k \in Int /\ n \in Int /\ old \in Int /\ a \in Int /\ Len(r) \in Int
            BY <1>2
          <6>5. at < Len(r)
            BY ONLY <6>1, <6>2, <6>4
          <6>6. QED
            BY <6>3, <6>5
        <5>3. QED
          BY <5>1, <5>2
    <3>7. PICK to : to = IF k + 1 <= old THEN at ELSE at + 1
      OBVIOUS
    <3>8. g = NextPiece(e, u, k + 1, old)
      BY <2>5, <3>3
    <3>9. /\ g \in WebConn /\ Alike(e, g) /\ Over(r, s, B, g.pr, got, to)
          /\ e.pr.twice => g.pr.twice
          /\ Stopped(g) \/ (Ready(g) /\ (k + 1 <= old => g.pr.step = "NONE"))
      <4>1. PICK j \in Nat : j = k + 1
        BY <2>4
      <4>2. PICK p, q : p = e.pr /\ q = IF j <= old THEN AfterAgain(p, u) ELSE After1(p, u)
        OBVIOUS
      <4>3. /\ p \in WebParser /\ Over(r, s, B, p, got, at) /\ ~p.paused
            /\ p.step \in {"NONE"} \cup Going
            /\ j <= old => at > 0 /\ p.step = "NONE"
            /\ ~(j <= old) => at < Len(r) /\ u = r[at + 1]
            /\ to = IF j <= old THEN at ELSE at + 1
        BY <2>3, <3>1, <3>2, <3>5, <3>6, <3>7, <4>1, <4>2, WebFields DEF Ready
      <4>4. /\ q \in WebParser /\ Over(r, s, B, q, got, to)
            /\ p.twice => q.twice
            /\ \/ q.paused \/ q.step = "ERROR"
               \/ q.step \in {"NONE"} \cup Going /\ (j <= old => q.step = "NONE")
        <5>1. CASE j <= old
          <6>1. q = AfterAgain(p, u) /\ to = at /\ at > 0 /\ p.step = "NONE"
            BY <4>2, <4>3, <5>1
          <6>2. /\ Over(r, s, B, q, got, at) /\ q \in WebParser /\ q.twice
                /\ q.step \in {"NONE", "ERROR"} /\ ~q.paused
            BY ONLY <1>2, <3>4, <4>3, <6>1, at \in Nat, OverAgain, SMTT(30)
          <6>3. QED
            BY <6>1, <6>2
        <5>2. CASE ~(j <= old)
          <6>1. q = After1(p, r[at + 1]) /\ to = at + 1 /\ at < Len(r)
            BY <4>2, <4>3, <5>2
          <6>2. /\ Over(r, s, B, q, got, at + 1) /\ q \in WebParser /\ q.twice = p.twice
                /\ q.step \in {"NONE", "COMPLETE", "ERROR"} \cup Going
            BY ONLY <1>2, <4>3, <6>1, at \in Nat, OverMore, SMTT(30)
          <6>3. q.step = "COMPLETE" => q.paused
            BY <6>2 DEF Over
          <6>4. QED
            BY <5>2, <6>1, <6>2, <6>3
        <5>3. QED
          BY <5>1, <5>2
      <4>5. g = [e EXCEPT !.pr = q]
        BY <2>3, <2>7, <3>4, <3>8, <4>1, <4>2, PieceIs DEF NextPiece
      <4>6. g \in WebConn /\ Alike(e, g) /\ g.pr = q
        BY <2>3, <4>4, <4>5, WithParser
      <4>7. QED
        BY <4>1, <4>2, <4>4, <4>6 DEF Stopped, Ready
    <3>10. to = To(k + 1) /\ to \in Nat
      BY <1>2, <2>4, <3>1, <3>7
    <3>12. Alike(c, g)
      BY <2>3, <3>9 DEF Alike
    <3>13. At0(g, k + 1)
      BY <2>3, <3>2, <3>9, <3>10, <3>12
    <3>14. QED
      BY <2>1, <2>2, <3>13
  <2>8. QED
    BY <2>6, <2>7
<1>7. \A k \in 0 .. n : k \in T
  <2> HIDE DEF T
  <2>1. QED
    BY <1>2, <1>5, <1>6, Ascends
<1>8. At0(d, n) /\ d \in WebConn
  <2>1. n \in 0 .. n
    BY <1>2
  <2>2. n \in T
    <3> HIDE DEF T
    <3>1. QED
      BY <1>7, <2>1
  <2> HIDE DEF At0
  <2>3. At0(f[n], n)
    BY <2>2
  <2>4. QED
    BY <1>3, <2>1, <2>3
<1>9. PICK at \in Nat : Over(r, s, B, d.pr, got, at) /\ (Stopped(d) \/ at = To(n))
  BY <1>8
<1>10. Alike(c, d) /\ (c.pr.paused => d = c) /\ (c.pr.twice => d.pr.twice)
  BY <1>8
<1>11. ~Stopped(d) => at = Len(r)
  <2>1. c.pr.paused => Stopped(d)
    BY <1>10 DEF Stopped
  <2>2. n <= old => n = old
    BY <1>2
  <2>3. QED
    BY <1>2, <1>4, <1>9, <2>1, <2>2
<1>12. at \in 0 .. Len(r) /\ Len(r) \in 0 .. Len(r)
  BY <1>2, <1>9 DEF Over
<1>13. PICK to : to = IF d.pr.twice THEN Len(r) ELSE d.pr.off
  OBVIOUS
<1>14. Over(r, s, B, d.pr, got, to) /\ (Stopped(d) \/ to = Len(r))
  <2>1. CASE ~d.pr.twice
    <3>1. d.pr.off = at
      BY <1>9, <2>1 DEF Over, Once
    <3>2. QED
      BY <1>9, <1>11, <1>13, <2>1, <3>1
  <2>2. CASE d.pr.twice /\ Stopped(d)
    <3>1. PICK p : p = d.pr
      OBVIOUS
    <3>2. p \in WebParser /\ Over(r, s, B, p, got, at) /\ p.twice /\ (p.paused \/ p.step = "ERROR")
      BY <1>8, <1>9, <2>2, <3>1, WebFields DEF Stopped
    <3>3. to = Len(r)
      BY <1>13, <2>2
    <3>4. Over(r, s, B, p, got, Len(r))
      BY ONLY <1>2, <1>12, <3>2, OverAny
    <3>5. QED
      BY <3>1, <3>3, <3>4
  <2>3. CASE d.pr.twice /\ ~Stopped(d)
    BY <1>9, <1>11, <1>13, <2>3
  <2>4. QED
    BY <2>1, <2>2, <2>3
<1>15. /\ d.rbl = r /\ d.came = s /\ At(d, 0) = to
       /\ Got(d) = Got(c) /\ Begins(d) = Begins(c)
  <2>1. d.rbl = r /\ d.came = s /\ d.told = c.told
    BY <1>1, <1>10 DEF Alike
  <2>2. At(d, 0) = to
    BY <1>2, <1>13, <2>1 DEF At
  <2>3. QED
    BY <2>1, <2>2, AlikeTaken
<1>16. Parses(d, 0)
  BY <1>1, <1>14, <1>15 DEF Parses
<1>17. QED
  BY <1>8, <1>10, <1>14, <1>15, <1>16

-----------------------------------------------------------------------------
(* http: the messages.                                                     *)

\* Equal parts of two sequences.
LEMMA PartSame ==
  ASSUME NEW E, NEW s \in Seq(E), NEW t \in Seq(E), NEW a \in Nat, NEW b \in Nat, NEW x \in Nat,
         b <= Len(s), b - a <= Len(t) - x,
         \A i \in 1 .. b - a : s[a + i] = t[x + i]
  PROVE  SubSeq(s, a + 1, b) = SubSeq(t, x + 1, x + (b - a))
<1>1. CASE a >= b
  BY <1>1
<1>2. CASE a < b
  <2>1. PICK n \in Nat : n = b - a /\ n > 0
    BY <1>2
  <2>2. PICK p, q : p = SubSeq(s, a + 1, b) /\ q = SubSeq(t, x + 1, x + (b - a))
    OBVIOUS
  <2>3. p \in Seq(E) /\ Len(p) = n /\ \A i \in 1 .. n : p[i] = s[a + i]
    <3>1. PICK u : u = a + 1
      OBVIOUS
    <3>2. u \in 1 .. Len(s) + 1 /\ b \in u - 1 .. Len(s) /\ p = SubSeq(s, u, b)
      BY <1>2, <2>2, <3>1
    <3>3. p \in Seq(E) /\ Len(p) = b - u + 1 /\ \A i \in 1 .. b - u + 1 : p[i] = s[u + i - 1]
      BY ONLY <3>2, s \in Seq(E), SubSeqProperties
    <3>4. b - u + 1 = n /\ \A i \in 1 .. n : u + i - 1 = a + i
      BY <2>1, <3>1
    <3>5. QED
      BY <3>3, <3>4
  <2>4. q \in Seq(E) /\ Len(q) = n /\ \A i \in 1 .. n : q[i] = t[x + i]
    <3>1. PICK u, y : u = x + 1 /\ y = x + (b - a)
      OBVIOUS
    <3>2. u \in 1 .. Len(t) + 1 /\ y \in u - 1 .. Len(t) /\ q = SubSeq(t, u, y)
      BY <1>2, <2>1, <2>2, <3>1
    <3>3. q \in Seq(E) /\ Len(q) = y - u + 1 /\ \A i \in 1 .. y - u + 1 : q[i] = t[u + i - 1]
      BY ONLY <3>2, t \in Seq(E), SubSeqProperties
    <3>4. y - u + 1 = n /\ \A i \in 1 .. n : u + i - 1 = x + i
      BY <2>1, <3>1
    <3>5. QED
      BY <3>3, <3>4
  <2>5. \A i \in 1 .. n : p[i] = q[i]
    BY <2>1, <2>3, <2>4
  <2>6. p = q
    BY <2>3, <2>4, <2>5
  <2>7. QED
    BY <2>2, <2>6
<1>3. QED
  BY <1>1, <1>2

\* s begins t.
Reaches(s, t) == Len(s) <= Len(t) /\ \A i \in 1 .. Len(s) : t[i] = s[i]

\* A message that was whole is.
LEMMA StaysWhole ==
  ASSUME NEW c \in WebConn, NEW d \in WebConn, c.st # "CLOSE",
         NEW k \in 1 .. Len(Got(c)), IsWhole(c, k),
         k <= Len(Got(d)), \A i \in 1 .. k : Got(d)[i] = Got(c)[i],
         Reaches(c.came, d.came), c.pr.twice => d.pr.twice
  PROVE  IsWhole(d, k)
<1>1. PICK g, h : g = Got(c) /\ h = Got(d)
  OBVIOUS
<1>2. g \in Seq(AnyNote) /\ h \in Seq(AnyNote) /\ k \in 1 .. Len(g) /\ k <= Len(h) /\ \A i \in 1 .. k : g[i] = h[i]
  BY <1>1, WebFields
<1>3. PICK a, b : a = Taken(c, k - 1) /\ b = Taken(c, k)
  OBVIOUS
<1>4. a = Taken(d, k - 1) /\ b = Taken(d, k) /\ a \in Nat /\ b \in Nat
  <2>1. k \in 0 .. Len(g) /\ k - 1 \in 0 .. Len(g) /\ k - 1 <= Len(h) /\ \A i \in 1 .. k - 1 : g[i] = h[i]
    BY <1>2
  <2>2. Taken(c, k) = Taken(d, k) /\ Taken(c, k) \in Nat
    BY <1>1, <1>2, <2>1, TakenSame
  <2>3. Taken(c, k - 1) = Taken(d, k - 1) /\ Taken(c, k - 1) \in Nat
    BY <1>1, <1>2, <2>1, TakenSame
  <2>4. QED
    BY <1>3, <2>2, <2>3
<1>5. PICK s, t : s = c.came /\ t = d.came
  OBVIOUS
<1>6. s \in Seq(Unit) /\ t \in Seq(Unit) /\ Len(s) <= Len(t) /\ \A i \in 1 .. Len(s) : t[i] = s[i]
  BY <1>5, WebFields DEF Reaches
<1>7. PICK m : m = SubSeq(s, a + 1, b)
  OBVIOUS
<1>8. /\ b <= Len(s) /\ m # <<>>
      /\ c.pr.twice \/ ( /\ \A i \in 1 .. Len(m) - 1 : m[i].kind # "end"
                         /\ m[Len(m)].kind = "end" \/ Bodies(m) >= MaxBody )
  BY <1>3, <1>5, <1>7 DEF IsWhole
<1>9. m = SubSeq(t, a + 1, b)
  <2>0. /\ s \in Seq(Unit) /\ t \in Seq(Unit) /\ a \in Nat /\ b \in Nat /\ b <= Len(s) /\ Len(s) <= Len(t)
        /\ \A i \in 1 .. Len(s) : t[i] = s[i]
    BY <1>4, <1>6, <1>8
  <2>1. b - a <= Len(t) - a /\ \A i \in 1 .. b - a : s[a + i] = t[a + i]
    <3>1. PICK x, y : x = Len(s) /\ y = Len(t)
      OBVIOUS
    <3>2. x \in Nat /\ y \in Nat /\ x <= y /\ b <= x /\ a \in Nat /\ b \in Nat
      BY <2>0, <3>1
    <3>3. (\A i \in 1 .. b - a : a + i \in 1 .. x) /\ b - a <= y - a
      BY ONLY <3>2
    <3>4. QED
      BY ONLY <2>0, <3>1, <3>3
  <2>2. SubSeq(s, a + 1, b) = SubSeq(t, a + 1, a + (b - a))
    BY ONLY <2>0, <2>1, PartSame
  <2>3. a + (b - a) = b
    BY <1>4
  <2>4. QED
    BY <1>7, <2>2, <2>3
<1>10. b <= Len(t)
  BY <1>4, <1>6, <1>8
<1>11. d.pr.twice \/ ( /\ \A i \in 1 .. Len(m) - 1 : m[i].kind # "end"
                       /\ m[Len(m)].kind = "end" \/ Bodies(m) >= MaxBody )
  BY <1>8, Zenon
<1>12. QED
  BY <1>4, <1>5, <1>8, <1>9, <1>10, <1>11 DEF IsWhole

\* One message more.
LEMMA OneMore ==
  ASSUME NEW c \in WebConn, NEW d \in WebConn, c.st # "CLOSE", Parses(c, 0), c.pr.off > 0,
         c.pr.off <= Len(c.rbl), d.pr.twice = c.pr.twice,
         \A k \in 1 .. Len(Got(c)) : IsWhole(c, k),
         d.came = c.came, d.told = Append(c.told, Note("RECV", c.pr.off)),
         c.pr.twice \/ c.pr.step = "COMPLETE" \/ c.pr.body >= MaxBody \/ d.st = "CLOSE",
         c.pr.step # "ERROR"
  PROVE  /\ \A k \in 1 .. Len(Got(d)) : IsWhole(d, k)
         /\ Begins(d) = Begins(c) + c.pr.off /\ Got(d) # <<>>
<1>1. PICK g, h, s, r, o, B : /\ g = Got(c) /\ h = Got(d) /\ s = c.came /\ r = c.rbl
                              /\ o = c.pr.off /\ B = Begins(c)
  OBVIOUS
<1>2. /\ g \in Seq(AnyNote) /\ h \in Seq(AnyNote) /\ s \in Seq(Unit) /\ r \in Seq(Unit)
      /\ o \in Nat /\ o > 0 /\ B \in Nat /\ c.told \in Seq(AnyNote)
  BY <1>1, WebFields, WebParserFields, AlikeTaken
<1>3. PICK x \in AnyNote : x = Note("RECV", o) /\ x.t = "RECV" /\ x.n = o
  <2>1. Note("RECV", o) \in AnyNote /\ Note("RECV", o).t = "RECV" /\ Note("RECV", o).n = o
    BY <1>2 DEF Note, AnyNote, Notices
  <2>2. QED
    BY <2>1
<1>4. h = Append(g, x)
  <2>1. d.told = Append(c.told, x)
    BY <1>1, <1>3
  <2>2. QED
    BY <1>1, <1>2, <1>3, <2>1, GotMore
<1>5. PICK n \in Nat : n = Len(g)
  BY <1>2
<1>6. Len(h) = n + 1 /\ h[n + 1] = x /\ \A i \in 1 .. n : h[i] = g[i]
  BY <1>2, <1>3, <1>4, <1>5
<1>7. Holds(r, s, B) /\ o <= Len(r) /\ (~c.pr.twice => Once(r, c.pr, o))
  BY <1>1 DEF Parses, Over, At, Once
<1>8. Taken(d, n) = B /\ Taken(d, n + 1) = B + o
  <2>1. n \in 0 .. Len(g) /\ n <= Len(h) /\ \A i \in 1 .. n : g[i] = h[i]
    BY <1>5, <1>6
  <2>2. Taken(c, n) = Taken(d, n) /\ Taken(c, n) = B
    <3>1. Taken(c, n) = Taken(d, n)
      BY <1>1, <1>2, <2>1, TakenSame
    <3>2. QED
      BY <1>1, <1>5, <3>1 DEF Begins
  <2>3. n + 1 \in 1 .. Len(h) /\ (n + 1) - 1 = n
    BY <1>5, <1>6
  <2>4. Taken(d, n + 1) = Taken(d, (n + 1) - 1) + h[n + 1].n
    BY <1>1, <1>2, <2>3, TakenNext
  <2>5. QED
    BY <1>3, <1>6, <2>2, <2>3, <2>4
<1>9. \A k \in 1 .. n : IsWhole(d, k)
  <2>1. ASSUME NEW k \in 1 .. n
        PROVE  IsWhole(d, k)
    <3>1. k \in 1 .. Len(Got(c)) /\ IsWhole(c, k) /\ k <= Len(Got(d)) /\ \A i \in 1 .. k : Got(d)[i] = Got(c)[i]
      BY <1>1, <1>5, <1>6
    <3>2. Reaches(c.came, d.came)
      BY <1>1, <1>2 DEF Reaches
    <3>3. QED
      BY <3>1, <3>2, StaysWhole
  <2>2. QED
    BY <2>1
<1>10. IsWhole(d, n + 1)
  <2>1. PICK m : m = SubSeq(s, B + 1, B + o)
    OBVIOUS
  <2>2. /\ Len(r) = Len(s) - B /\ (\A i \in 1 .. Len(r) : r[i] = s[B + i]) /\ o <= Len(r)
        /\ ~c.pr.twice => /\ c.pr.body = Bodies(SubSeq(r, 1, o))
                          /\ \A i \in 1 .. o - 1 : r[i].kind # "end"
                          /\ c.pr.step = "COMPLETE" => r[o].kind = "end"
    <3>1. Len(r) = Len(s) - B /\ (\A i \in 1 .. Len(r) : r[i] = s[B + i]) /\ o <= Len(r)
      BY <1>7 DEF Holds
    <3>2. ASSUME ~c.pr.twice
          PROVE  /\ c.pr.body = Bodies(SubSeq(r, 1, o))
                 /\ \A i \in 1 .. o - 1 : r[i].kind # "end"
                 /\ c.pr.step = "COMPLETE" => r[o].kind = "end"
      BY <1>2, <1>7, <3>2 DEF Once
    <3>3. QED
      BY <3>1, <3>2
  <2>3. m = SubSeq(r, 1, o)
    <3>1. PICK z \in Nat : z = 0
      OBVIOUS
    <3>2. o <= Len(r) /\ o - z <= Len(s) - B /\ \A i \in 1 .. o - z : r[z + i] = s[B + i]
      <4>1. /\ Len(r) = Len(s) - B /\ o <= Len(r)
            /\ \A i \in 1 .. Len(r) : r[i] = s[B + i]
        BY <2>2
      <4>2. \A i \in 1 .. o - z : i \in 1 .. Len(r) /\ z + i = i
        BY <1>2, <3>1, <4>1
      <4>3. o - z <= Len(s) - B
        BY <1>2, <3>1, <4>1
      <4>4. QED
        BY <4>1, <4>2, <4>3
    <3>3. SubSeq(r, z + 1, o) = SubSeq(s, B + 1, B + (o - z))
      BY ONLY <1>2, <3>1, <3>2, PartSame
    <3>4. z + 1 = 1 /\ o - z = o
      BY <1>2, <3>1
    <3>5. QED
      BY <2>1, <3>3, <3>4
  <2>4. m \in Seq(Unit) /\ Len(m) = o /\ \A i \in 1 .. o : m[i] = r[i]
    <3>1. SubSeq(r, 1, o) = [i \in 1 .. o |-> r[i]]
      BY <1>2, <2>2
    <3>2. SubSeq(r, 1, o) \in Seq(Unit) /\ Len(SubSeq(r, 1, o)) = o
      BY <1>2, <2>2
    <3>3. \A i \in 1 .. o : SubSeq(r, 1, o)[i] = r[i]
      BY <3>1
    <3>4. QED
      BY <2>3, <3>2, <3>3
  <2>5. /\ B + o <= Len(s) /\ m # <<>> /\ m[Len(m)] = r[o]
        /\ ~c.pr.twice => (\A i \in 1 .. Len(m) - 1 : m[i].kind # "end")
    <3>1. B + o <= Len(s) /\ m # <<>> /\ m[Len(m)] = r[o]
      BY <1>2, <2>2, <2>4
    <3>2. ASSUME ~c.pr.twice, NEW i \in 1 .. Len(m) - 1
          PROVE  m[i].kind # "end"
      BY <1>2, <2>2, <2>4, <3>2
    <3>3. QED
      BY <3>1, <3>2
  <2>6. c.pr.twice \/ m[Len(m)].kind = "end" \/ Bodies(m) >= MaxBody \/ (d.st = "CLOSE" /\ n + 1 = Len(h))
    BY <1>1, <1>6, <2>2, <2>3, <2>5
  <2>7. (n + 1) - 1 = n
    BY <1>5
  <2>8. QED
    BY <1>1, <1>8, <2>1, <2>5, <2>6, <2>7 DEF IsWhole
<1>11. Begins(d) = B + o
  BY <1>1, <1>6, <1>8 DEF Begins
<1>12. h # <<>>
  BY <1>6
<1>13. ASSUME NEW k \in 1 .. Len(h)
       PROVE  IsWhole(d, k)
  BY <1>5, <1>6, <1>9, <1>10
<1>14. QED
  BY <1>1, <1>11, <1>12, <1>13

\* In the loop that began with b.
WebIs(b, c) ==
  /\ c \in WebConn /\ c.st = "TRANS" /\ c.up /\ ~c.bye /\ ~c.linked /\ c.role # "listener"
  /\ c.proto = b.proto /\ c.role = b.role /\ c.bye = b.bye
  /\ Flows(c.came)
  /\ \A k \in 1 .. Len(Got(c)) : IsWhole(c, k)
  /\ c.role = "server" /\ c.told # <<>> => Got(c) # <<>>
  /\ Tells(b, c, "open")

\* After the loop.
WebHeld(b, c) == WebIs(b, c) /\ Parses(c, 0)

WebFinished(b, c) == WebInv(c) /\ Moves(b, c)

\* A loop that ends at rest.
LEMMA WebSettles ==
  ASSUME NEW b, NEW c, WebHeld(b, c), AtRest(c)
  PROVE  WebFinished(b, c)
<1>1. Common(c)
  BY DEF WebHeld, WebIs, Common, Stages
<1>2. WebInv(c)
  BY <1>1 DEF WebHeld, WebIs, WebInv
<1>3. Phase(c) = "open"
  BY PhaseOf DEF WebHeld, WebIs
<1>4. QED
  BY <1>2, <1>3 DEF WebFinished, WebHeld, WebIs, Moves, Ats

\* The messages stay whole when more comes.
LEMMA AllStayWhole ==
  ASSUME NEW c \in WebConn, NEW d \in WebConn, c.st # "CLOSE", d.told = c.told,
         Reaches(c.came, d.came),
         c.pr.twice => d.pr.twice,
         \A k \in 1 .. Len(Got(c)) : IsWhole(c, k)
  PROVE  Got(d) = Got(c) /\ \A k \in 1 .. Len(Got(d)) : IsWhole(d, k)
<1>1. Got(d) = Got(c) /\ Got(c) \in Seq(AnyNote)
  BY AlikeTaken
<1>2. ASSUME NEW k \in 1 .. Len(Got(d))
      PROVE  IsWhole(d, k)
  <2>1. k \in 1 .. Len(Got(c)) /\ IsWhole(c, k) /\ k <= Len(Got(d)) /\ \A i \in 1 .. k : Got(d)[i] = Got(c)[i]
    BY <1>1
  <2>2. QED
    BY <2>1, StaysWhole
<1>3. QED
  BY <1>1, <1>2

\* A sequence begins itself.
LEMMA ReachesSelf ==
  ASSUME NEW s \in Seq(Unit)
  PROVE  Reaches(s, s)
BY DEF Reaches

\* The fields of a connection that is shut.
LEMMA WebShut ==
  ASSUME NEW c \in WebConn
  PROVE  \A d \in {Shut(c)} :
           /\ d \in WebConn /\ d.proto = c.proto /\ d.role = c.role /\ d.st = "CLOSE" /\ ~d.up
           /\ d.bye = c.bye /\ d.linked = c.linked /\ d.told = c.told /\ d.came = c.came
           /\ d.rbl = c.rbl /\ d.pr = c.pr
BY DEF Shut, WebConn, Conns, States

\* An http connection ends without a notice.
LEMMA WebShuts ==
  ASSUME NEW b, NEW c, WebIs(b, c)
  PROVE  WebFinished(b, Shut(c))
<1>1. PICK d : d = Shut(c)
  OBVIOUS
<1>2. /\ d \in WebConn /\ d.proto = c.proto /\ d.role = c.role /\ d.st = "CLOSE" /\ ~d.up
      /\ d.bye = c.bye /\ d.linked = c.linked /\ d.told = c.told /\ d.came = c.came /\ d.pr = c.pr
  BY <1>1, WebShut DEF WebIs
<1>3. Common(d)
  <2>1. d.st \in Stages(d.proto, d.role)
    BY <1>2 DEF Stages
  <2>2. d.up = (d.st # "CLOSE")
    BY <1>2, WebFields
  <2>3. ~d.linked /\ ~d.bye
    BY <1>2 DEF WebIs
  <2>4. QED
    BY <1>2, <2>1, <2>2, <2>3 DEF Common
<1>4. Got(d) = Got(c) /\ \A k \in 1 .. Len(Got(d)) : IsWhole(d, k)
  <2>1. c \in WebConn /\ c.st # "CLOSE" /\ Reaches(c.came, d.came) /\ d.pr = c.pr /\ \A k \in 1 .. Len(Got(c)) : IsWhole(c, k)
    BY <1>2, ReachesSelf, WebFields DEF WebIs
  <2>2. QED
    BY <1>2, <2>1, AllStayWhole
<1>5. WebInv(d)
  BY <1>2, <1>3, <1>4 DEF WebInv, WebIs
<1>6. Tells(b, d, "open") /\ Phase(d) = "over"
  BY <1>2, PhaseOf DEF WebIs, Tells
<1>7. c.proto = "http"
  BY WebFields DEF WebIs
<1>8. QED
  BY <1>1, <1>2, <1>5, <1>6, <1>7 DEF WebFinished, WebIs, Moves, Ats

\* What jetnet_gen_http_recv_msg and the reset leave.
LEMMA DeliverFields ==
  ASSUME NEW c \in WebConn, NEW d, d = Web!Deliver(c), NEW o, o = c.pr.off
  PROVE  /\ d \in WebConn /\ d.proto = c.proto /\ d.role = c.role /\ d.st = c.st /\ d.linked = c.linked
         /\ d.wbl = c.wbl /\ d.came = c.came /\ d.sent = c.sent /\ d.up = c.up /\ d.bye = c.bye
         /\ d.told = Append(c.told, Note("RECV", o))
         /\ d.rbl = SubSeq(c.rbl, o + 1, Len(c.rbl)) /\ d.rbl \in Seq(Unit)
         /\ d.pr.step = "NONE" /\ d.pr.off = 0 /\ d.pr.body = 0 /\ ~d.pr.keep
         /\ d.pr.paused = c.pr.paused /\ d.pr.size = c.pr.size /\ d.pr.twice = c.pr.twice
<1>1. o \in Nat /\ c.rbl \in Seq(Unit) /\ c.told \in Seq(AnyNote) /\ c.pr \in WebParser
  BY WebFields, WebParserFields
<1>2. PICK x, r, told, p : /\ x = Note("RECV", o) /\ r = SubSeq(c.rbl, o + 1, Len(c.rbl))
                           /\ told = Append(c.told, x)
                           /\ p = [c.pr EXCEPT !.step = "NONE", !.off = 0, !.body = 0, !.keep = FALSE]
  OBVIOUS
<1>3. r \in Seq(Unit)
  BY <1>1, <1>2
<1>4. told \in Seq(AnyNote)
  <2>1. x \in AnyNote
    BY <1>1, <1>2 DEF Note, AnyNote, Notices
  <2>2. QED
    BY <1>1, <1>2, <2>1
<1>5. /\ p \in WebParser /\ p.step = "NONE" /\ p.off = 0 /\ p.body = 0 /\ ~p.keep /\ p.paused = c.pr.paused
      /\ p.size = c.pr.size /\ p.twice = c.pr.twice
  BY <1>1, <1>2 DEF WebParser
<1>6. d = [c EXCEPT !.told = told, !.rbl = r, !.pr = p]
  <2>1. PICK e : e = Web!Tell(c, "RECV", o)
    OBVIOUS
  <2>2. e = [c EXCEPT !.told = told]
    BY <1>2, <2>1 DEF Web!Tell, Web!Note, Note, WebConn, Conns
  <2>3. PICK f : f = Web!Consume(e, o)
    OBVIOUS
  <2>4. f = [c EXCEPT !.told = told, !.rbl = r]
    <3>1. e.rbl = c.rbl
      BY <2>2 DEF WebConn, Conns
    <3>2. f = [e EXCEPT !.rbl = SubSeq(e.rbl, o + 1, Len(e.rbl))]
      BY <2>3 DEF Web!Consume
    <3>3. f = [e EXCEPT !.rbl = r]
      BY <1>2, <3>1, <3>2
    <3>4. QED
      BY <2>2, <3>3 DEF WebConn, Conns
  <2>5. d = Web!Reset(f)
    BY <2>1, <2>3 DEF Web!Deliver
  <2>6. f.pr = c.pr
    BY <2>4 DEF WebConn, Conns
  <2>7. d = [f EXCEPT !.pr = p]
    BY <1>2, <2>5, <2>6 DEF Web!Reset
  <2>8. QED
    BY <2>4, <2>7 DEF WebConn, Conns
<1>7. /\ d \in WebConn /\ d.proto = c.proto /\ d.role = c.role /\ d.st = c.st /\ d.linked = c.linked
      /\ d.wbl = c.wbl /\ d.came = c.came /\ d.sent = c.sent /\ d.up = c.up /\ d.bye = c.bye
      /\ d.told = told /\ d.rbl = r /\ d.pr = p
  BY <1>3, <1>4, <1>5, <1>6 DEF WebConn, Conns
<1>8. QED
  BY <1>2, <1>3, <1>5, <1>7

\* What is behind the first o units.
From(r, o) == SubSeq(r, o + 1, Len(r))

\* What is behind a message that was delivered is parsed from its first unit.
LEMMA OverRest ==
  ASSUME NEW r \in Seq(Unit), NEW s \in Seq(Unit), NEW B \in Nat, NEW p \in WebParser,
         NEW got \in BOOLEAN,
         NEW at \in Nat, NEW all \in BOOLEAN, Over(r, s, B, p, got, at),
         p.step \in {"COMPLETE"} \cup Sized, p.paused \/ at = Len(r),
         NEW o, o = p.off, o <= Len(r), NEW q, q = From(r, o), NEW a,
         a.step = "NONE", a.off = 0, a.body = 0, ~a.keep, a.paused = p.paused,
         a.size = p.size, a.twice = p.twice
  PROVE  /\ Over(q, s, B + o, a, all, IF a.twice THEN Len(q) ELSE 0)
         /\ Len(q) < Len(r) /\ Len(q) = Len(r) - o /\ B + o \in Nat
         /\ p.step = "COMPLETE" => a.paused
<1>1. o \in Nat /\ o > 0 /\ o <= Len(r) /\ Len(r) = Len(s) - B /\ \A i \in 1 .. Len(r) : r[i] = s[B + i]
  BY WebParserFields DEF Over, Holds, Sized
<1>0. PICK N, M : N = Len(r) /\ M = Len(s)
  OBVIOUS
<1>a. N \in Nat /\ M \in Nat /\ o \in Nat /\ o > 0 /\ o <= N /\ N = M - B /\ B \in Nat
  BY <1>0, <1>1
<1>2. q \in Seq(Unit) /\ Len(q) = Len(r) - o /\ \A i \in 1 .. Len(q) : q[i] = r[o + i]
  <2>1. PICK m, n : m = o + 1 /\ n = Len(r)
    OBVIOUS
  <2>2. m \in Int /\ n \in Int /\ m <= n + 1 /\ (\A i \in m .. n : r[i] \in Unit) /\ q = SubSeq(r, m, n)
    BY <1>1, <2>1 DEF From
  <2>3. /\ q \in Seq(Unit) /\ Len(q) = (IF m <= n THEN n - m + 1 ELSE 0)
        /\ \A i \in 1 .. n - m + 1 : q[i] = r[m + i - 1]
    BY ONLY <2>2, SubSeqProperties
  <2>4. n - m + 1 = Len(r) - o /\ \A i \in 1 .. n - m + 1 : m + i - 1 = o + i
    <3>1. n = N /\ m = o + 1
      BY <1>0, <2>1
    <3>2. n - m + 1 = N - o /\ \A i \in 1 .. n - m + 1 : m + i - 1 = o + i
      BY ONLY <1>a, <3>1
    <3>3. QED
      BY <1>0, <3>2
  <2>5. Len(q) = n - m + 1
    BY <1>1, <2>1, <2>2, <2>3
  <2>6. QED
    BY <2>3, <2>4, <2>5
<1>3. Len(q) < Len(r) /\ Len(q) = Len(s) - (B + o) /\ B + o \in Nat
  <2>1. PICK n : n = Len(q)
    OBVIOUS
  <2>2. n = N - o
    BY <1>0, <1>2, <2>1
  <2>3. n < N /\ n = M - (B + o) /\ B + o \in Nat
    BY ONLY <1>a, <2>2
  <2>4. QED
    BY <1>0, <2>1, <2>3
<1>4. ASSUME NEW i \in 1 .. Len(q)
      PROVE  q[i] = s[(B + o) + i]
  <2>1. o + i \in 1 .. Len(r) /\ B + (o + i) = (B + o) + i
    <3>1. i \in 1 .. N - o
      BY <1>0, <1>2
    <3>2. o + i \in 1 .. N /\ B + (o + i) = (B + o) + i
      BY ONLY <1>a, <3>1
    <3>3. QED
      BY <1>0, <3>2
  <2>2. QED
    BY <1>1, <1>2, <2>1
<1>5. a.body = Bodies(SubSeq(q, 1, 0))
  <2>1. SubSeq(q, 1, 0) = <<>>
    BY <1>2, FirstItems
  <2>2. QED
    BY <2>1, BodiesAre
<1>6. p.twice => p.paused
  <2>1. p.twice => p.paused \/ p.off > at
    BY DEF Over, Sized
  <2>2. at = Len(r) => ~(p.off > at)
    BY <1>1
  <2>3. QED
    BY <2>1, <2>2
<1>7. a.paused \/ a.size = "astray" \/ (B + o > 0 /\ s[B + o].kind \in InBody)
  <2>1. CASE p.step = "COMPLETE" \/ p.paused
    BY <2>1 DEF Over
  <2>2. CASE p.step \in Sized /\ ~p.paused
    <3>1. p.off = at
      BY <1>6, <2>2 DEF Over, Once
    <3>2. p.step # "ERROR"
      BY DEF Sized
    <3>3. p.size = "astray" \/ (B + at > 0 /\ s[B + at].kind \in InBody)
      BY <2>2, <3>2 DEF Over
    <3>4. QED
      BY <3>1, <3>3
  <2>3. QED
    BY <2>1, <2>2
<1>8. Over(q, s, B + o, a, all, IF a.twice THEN Len(q) ELSE 0)
  <2>1. PICK n : n = IF a.twice THEN Len(q) ELSE 0
    OBVIOUS
  <2>2. n \in 0 .. Len(q)
    BY <1>2, <2>1
  <2>3. Holds(q, s, B + o)
    BY <1>3, <1>4 DEF Holds
  <2>4. a.twice => a.paused
    BY <1>6
  <2>5. ~a.twice => Once(q, a, n)
    <3>1. ~a.twice => n = 0 /\ p.size = "right"
      BY <2>1 DEF Over, Once
    <3>2. QED
      BY <1>5, <3>1 DEF Once
  <2>6. a.paused \/ a.size = "astray" \/ ((B + o) + n > 0 /\ s[(B + o) + n].kind \in InBody)
    <3>1. ~a.paused => n = 0
      BY <2>1, <2>4
    <3>2. (B + o) + 0 = B + o
      BY <1>3
    <3>3. QED
      BY <1>7, <3>1, <3>2
  <2>7. a.step \notin {"COMPLETE", "ERROR"} \cup Going /\ a.step \notin Sized
    BY DEF Going, Sized
  <2>8. Over(q, s, B + o, a, all, n)
    BY <2>2, <2>3, <2>4, <2>5, <2>6, <2>7 DEF Over
  <2>9. QED
    BY <2>1, <2>8
<1>9. p.step = "COMPLETE" => a.paused
  BY DEF Over
<1>10. QED
  BY <1>2, <1>3, <1>8, <1>9

\* Delivering keeps the invariant of the loop and leaves a shorter buffer.
LEMMA WebHands ==
  ASSUME NEW b, Begun(b), NEW c, WebHeld(b, c), c.pr.step \in {"COMPLETE"} \cup Sized,
         c.pr.off <= Len(c.rbl), Stopped(c) \/ At(c, 0) = Len(c.rbl),
         c.pr.step = "COMPLETE" \/ c.pr.body >= MaxBody, NEW d, d = Web!Deliver(c)
  PROVE  /\ WebHeld(b, d) /\ d.pr.step = "NONE" /\ Len(d.rbl) < Len(c.rbl) /\ Len(d.rbl) = Len(c.rbl) - c.pr.off
         /\ c.pr.step = "COMPLETE" => d.pr.paused
<1>1. PICK o : o = c.pr.off
  OBVIOUS
<1>2. c \in WebConn /\ c.st # "CLOSE" /\ Parses(c, 0) /\ c.told \in Seq(AnyNote)
  BY WebFields DEF WebHeld, WebIs
<1>3. /\ d \in WebConn /\ d.proto = c.proto /\ d.role = c.role /\ d.st = c.st /\ d.linked = c.linked
      /\ d.wbl = c.wbl /\ d.came = c.came /\ d.sent = c.sent /\ d.up = c.up /\ d.bye = c.bye
      /\ d.told = Append(c.told, Note("RECV", o))
      /\ d.rbl = SubSeq(c.rbl, o + 1, Len(c.rbl)) /\ d.rbl \in Seq(Unit)
      /\ d.pr.step = "NONE" /\ d.pr.off = 0 /\ d.pr.body = 0 /\ ~d.pr.keep
      /\ d.pr.paused = c.pr.paused /\ d.pr.size = c.pr.size /\ d.pr.twice = c.pr.twice
  BY <1>1, <1>2, DeliverFields
<1>4. PICK at, r, s, B, p, got : /\ at = At(c, 0) /\ r = c.rbl /\ s = c.came /\ B = Begins(c) /\ p = c.pr /\ got = (Got(c) # <<>>)
  OBVIOUS
<1>5. /\ r \in Seq(Unit) /\ s \in Seq(Unit) /\ B \in Nat /\ p \in WebParser /\ got \in BOOLEAN
      /\ Over(r, s, B, p, got, at) /\ p.step \in {"COMPLETE"} \cup Sized /\ o = p.off
      /\ o <= Len(r) /\ (p.paused \/ at = Len(r)) /\ at \in Nat
  <2>1. Over(r, s, B, p, got, at)
    BY <1>2, <1>4 DEF Parses
  <2>2. p.paused \/ at = Len(r)
    BY <1>4 DEF Stopped, Sized
  <2>3. r \in Seq(Unit) /\ at \in 0 .. Len(r)
    BY <1>2, <1>4, <2>1, WebFields DEF Over
  <2>4. QED
    BY <1>1, <1>2, <1>4, <2>1, <2>2, <2>3, WebFields, AlikeTaken
<1>6. PICK q, a, all : q = d.rbl /\ a = d.pr /\ all = (Got(d) # <<>>) /\ all \in BOOLEAN
  OBVIOUS
<1>7. /\ q = From(r, o) /\ a.step = "NONE" /\ a.off = 0 /\ a.body = 0 /\ ~a.keep
      /\ a.paused = p.paused /\ a.size = p.size /\ a.twice = p.twice
  BY <1>3, <1>4, <1>6 DEF From
<1>8. /\ Over(q, s, B + o, a, all, IF a.twice THEN Len(q) ELSE 0) /\ Len(q) < Len(r) /\ Len(q) = Len(r) - o
      /\ p.step = "COMPLETE" => a.paused
  <2>2. /\ r \in Seq(Unit) /\ s \in Seq(Unit) /\ B \in Nat /\ p \in WebParser /\ got \in BOOLEAN /\ all \in BOOLEAN
        /\ at \in Nat
    BY <1>5, <1>6
  <2>3. /\ Over(r, s, B, p, got, at) /\ p.step \in {"COMPLETE"} \cup Sized /\ o = p.off /\ o <= Len(r)
        /\ (p.paused \/ at = Len(r)) /\ q = From(r, o)
    BY <1>5, <1>7
  <2>4. /\ a.step = "NONE" /\ a.off = 0 /\ a.body = 0 /\ ~a.keep /\ a.paused = p.paused
        /\ a.size = p.size /\ a.twice = p.twice
    BY <1>7
  <2>5. Len(q) < Len(r)
    BY ONLY <2>2, <2>3, <2>4, OverRest
  <2>6. Over(q, s, B + o, a, all, IF a.twice THEN Len(q) ELSE 0)
    BY ONLY <2>2, <2>3, <2>4, OverRest
  <2>7. QED
    BY ONLY <2>2, <2>3, <2>4, OverRest
<1>9. o > 0 /\ o \in Nat
  <2>1. o \in Nat /\ (p.step # "NONE" => o > 0)
    BY <1>5, WebParserFields DEF Over
  <2>2. QED
    BY <1>5, <2>1 DEF Sized
<1>10. (\A k \in 1 .. Len(Got(d)) : IsWhole(d, k)) /\ Begins(d) = B + o /\ Got(d) # <<>>
  <2>1. c.pr.off > 0 /\ \A k \in 1 .. Len(Got(c)) : IsWhole(c, k)
    BY <1>1, <1>9 DEF WebHeld, WebIs
  <2>2. d.told = Append(c.told, Note("RECV", c.pr.off))
    BY <1>1, <1>3
  <2>3. /\ c.pr.twice \/ c.pr.step = "COMPLETE" \/ c.pr.body >= MaxBody \/ d.st = "CLOSE"
        /\ c.pr.step # "ERROR"
    BY DEF Sized
  <2>4. (\A k \in 1 .. Len(Got(d)) : IsWhole(d, k)) /\ Begins(d) = Begins(c) + c.pr.off /\ Got(d) # <<>>
    BY <1>2, <1>3, <2>1, <2>2, <2>3, OneMore
  <2>5. QED
    BY <1>1, <1>4, <2>4
<1>11. Parses(d, 0)
  <2>1. d.came = s /\ d.rbl = q /\ d.pr = a /\ Begins(d) = B + o /\ all = (Got(d) # <<>>)
    BY <1>3, <1>4, <1>6, <1>10
  <2>2. At(d, 0) = IF a.twice THEN Len(q) ELSE 0
    BY <1>3, <1>7, <2>1 DEF At
  <2>3. QED
    BY <1>8, <2>1, <2>2 DEF Parses
<1>12. Tells(b, d, "open")
  <2>1. PICK x : x = Note("RECV", o)
    OBVIOUS
  <2>2. x \in AnyNote /\ x.t = "RECV"
    BY <1>9, <2>1 DEF Note, AnyNote, Notices
  <2>3. PICK phase : phase = "open"
    OBVIOUS
  <2>4. Tells(b, c, phase) /\ d.told = Append(c.told, x)
    BY <1>3, <2>1, <2>3 DEF WebHeld, WebIs
  <2>5. S!After(phase, x) = phase
    BY <2>2, <2>3 DEF S!After
  <2> HIDE <2>3
  <2>6. Tells(b, d, S!After(phase, x))
    BY <2>2, <2>4, TellsMore DEF Begun
  <2> USE <2>3
  <2>7. QED
    BY <2>5, <2>6
<1>13. WebHeld(b, d)
  BY <1>3, <1>10, <1>11, <1>12 DEF WebHeld, WebIs
<1>14. QED
  BY <1>3, <1>4, <1>5, <1>6, <1>8, <1>13

-----------------------------------------------------------------------------
(* The loop of http.                                                       *)

\* The units just read are the last of the read buffer.
FreshOf(c, f) ==
  Len(f) <= Len(c.rbl) /\ \A i \in 1 .. Len(f) : f[i] = c.rbl[(Len(c.rbl) - Len(f)) + i]

\* Before a turn: the units just read are behind the parser, and behind what an
\* empty step would parse again.
WebGoes(b, c, f) ==
  /\ WebIs(b, c) /\ Parses(c, Len(f)) /\ Ready(c) /\ FreshOf(c, f)
  /\ c.pr.paused \/ At(c, Len(f)) = Len(c.rbl) - Len(f)

\* The states of the loop of http.
WebTurns(b) ==
  {s \in [c : WebConn, fresh : Seq(Unit), empty : {"ends", "breaks"}, done : BOOLEAN] :
     IF s.done THEN WebFinished(b, s.c) ELSE WebGoes(b, s.c, s.fresh)}

\* The turns that are left.
WebLeft(s) == IF s.done THEN 0 ELSE Len(s.c.rbl) + 1

\* The loop's invariant does not depend on the parser, where it parses.
LEMMA HeldAlike ==
  ASSUME NEW b, NEW c, WebIs(b, c), NEW d \in WebConn, Alike(c, d), Parses(d, 0),
         c.pr.twice => d.pr.twice
  PROVE  WebHeld(b, d)
<1>1. c \in WebConn /\ c.st # "CLOSE" /\ d.told = c.told /\ d.came = c.came /\ c.came \in Seq(Unit)
  BY WebFields DEF WebIs, Alike
<1>2. Reaches(c.came, d.came)
  BY <1>1, ReachesSelf
<1>3. Got(d) = Got(c) /\ \A k \in 1 .. Len(Got(d)) : IsWhole(d, k)
  BY <1>1, <1>2, AllStayWhole DEF WebIs
<1>4. Tells(b, d, "open")
  BY <1>1 DEF WebIs, Tells
<1>5. QED
  BY <1>3, <1>4 DEF WebHeld, WebIs, Alike

\* jetnet_http_parser keeps the loop's invariant, and parses all or stops.
LEMMA ParsedIs ==
  ASSUME NEW b, NEW c, NEW f \in Seq(Unit), WebGoes(b, c, f), NEW p, p = Web!Parsed(c, f)
  PROVE  /\ WebHeld(b, p) /\ p.rbl = c.rbl /\ p \in WebConn
         /\ Stopped(p) \/ At(p, 0) = Len(p.rbl)
<1>1. /\ c \in WebConn /\ Flows(c.came) /\ Parses(c, Len(f)) /\ Ready(c) /\ FreshOf(c, f)
      /\ c.rbl \in Seq(Unit) /\ c.pr \in WebParser /\ c.came \in Seq(Unit)
  BY WebFields DEF WebGoes, WebIs
<1>2. PICK u, old : /\ u = IF c.pr.step = "NONE" THEN c.rbl ELSE f
                    /\ old = IF c.pr.step = "NONE" THEN Len(c.rbl) - Len(f) ELSE 0
  OBVIOUS
<1>3. u \in Seq(Unit) /\ old \in 0 .. Len(u)
  BY <1>1, <1>2 DEF FreshOf
<1>4. PICK a : a = At(c, Len(f))
  OBVIOUS
<1>5. Over(c.rbl, c.came, Begins(c), c.pr, Got(c) # <<>>, a) /\ a \in Nat
  <2>1. Over(c.rbl, c.came, Begins(c), c.pr, Got(c) # <<>>, a)
    BY <1>1, <1>4 DEF Parses
  <2>2. a \in 0 .. Len(c.rbl)
    BY <2>1 DEF Over
  <2>3. QED
    BY <1>1, <2>1, <2>2
<1>6. c.pr.paused \/ a = Len(c.rbl) - Len(f)
  BY <1>4 DEF WebGoes
<1>7. old > 0 => c.pr.step = "NONE" /\ (c.pr.paused \/ a = old)
  BY <1>2, <1>6
<1>8. ASSUME ~c.pr.paused
      PROVE  /\ Len(u) - old = Len(c.rbl) - a
             /\ \A k \in old + 1 .. Len(u) : u[k] = c.rbl[a + (k - old)]
  <2>1. PICK r, m, n : r = c.rbl /\ m = Len(r) /\ n = Len(f)
    OBVIOUS
  <2>2. m \in Nat /\ n \in Nat /\ n <= m /\ a = m - n
    BY <1>1, <1>6, <1>8, <2>1 DEF FreshOf
  <2>3. CASE c.pr.step = "NONE"
    <3>1. u = r /\ old = m - n /\ Len(u) = m
      BY <1>2, <2>1, <2>3
    <3>2. \A k \in old + 1 .. m : a + (k - old) = k
      BY <2>2, <3>1
    <3>3. Len(u) - old = m - a
      BY <2>2, <3>1
    <3>4. QED
      BY <2>1, <3>1, <3>2, <3>3
  <2>4. CASE c.pr.step # "NONE"
    <3>1. u = f /\ old = 0 /\ Len(u) = n
      BY <1>2, <2>1, <2>4
    <3>2. \A k \in 1 .. n : f[k] = r[(m - n) + k]
      BY <1>1, <2>1 DEF FreshOf
    <3>3. \A k \in old + 1 .. n : k \in 1 .. n /\ a + (k - old) = (m - n) + k
      BY <2>2, <3>1
    <3>4. Len(u) - old = m - a
      BY <2>2, <3>1
    <3>5. QED
      BY <2>1, <3>1, <3>2, <3>3, <3>4
  <2>5. QED
    BY <2>3, <2>4
<1>9. p = Web!Execute(c, old, u)
  BY <1>1, <1>2 DEF Web!Parsed, Ready, Going
<1>10. /\ p \in WebConn /\ Alike(c, p) /\ Parses(p, 0)
       /\ c.pr.twice => p.pr.twice
       /\ Stopped(p) \/ At(p, 0) = Len(p.rbl)
  BY <1>1, <1>3, <1>5, <1>7, <1>8, <1>9, Executes
<1>11. WebHeld(b, p)
  BY <1>10, HeldAlike DEF WebGoes
<1>12. QED
  BY <1>10, <1>11 DEF Alike

\* What does not end a message stays.
LEMMA WebWaits ==
  ASSUME NEW b, NEW p, WebHeld(b, p), p.pr.step \notin {"COMPLETE", "ERROR"},
         Stopped(p) \/ At(p, 0) = Len(p.rbl)
  PROVE  /\ WebFinished(b, p)
         /\ p.pr.step \in Sized => At(p, 0) = Len(p.rbl) /\ ~p.pr.paused
<1>1. p \in WebConn /\ p.pr \in WebParser /\ Parses(p, 0) /\ p.rbl \in Seq(Unit)
  BY WebFields DEF WebHeld, WebIs
<1>2. p.pr.step \in {"NONE"} \cup Going
  BY <1>1, WebParserFields DEF Going
<1>3. p.pr.paused \/ At(p, 0) = Len(p.rbl)
  BY DEF Stopped
<1>4. p.pr.step \in Sized => ~p.pr.paused
  BY <1>1 DEF Parses, Over, Going, Sized
<1>5. AtRest(p)
  BY <1>2, <1>3 DEF AtRest
<1>6. QED
  BY <1>3, <1>4, <1>5, WebSettles

\* The state of the loop with another connection.
Turned(s, d, f, done) == [s EXCEPT !.c = d, !.fresh = f, !.done = done]

\* The next state of the loop is one of the loop.
LEMMA TurnedIs ==
  ASSUME NEW b, NEW s \in WebTurns(b), NEW d \in WebConn, NEW f \in Seq(Unit), NEW done \in BOOLEAN,
         IF done THEN WebFinished(b, d) ELSE WebGoes(b, d, f)
  PROVE  Turned(s, d, f, done) \in WebTurns(b) /\ WebLeft(Turned(s, d, f, done)) = IF done THEN 0 ELSE Len(d.rbl) + 1
<1>1. PICK t : t = Turned(s, d, f, done)
  OBVIOUS
<1>2. /\ t \in [c : WebConn, fresh : Seq(Unit), empty : {"ends", "breaks"}, done : BOOLEAN]
      /\ t.c = d /\ t.fresh = f /\ t.done = done
  BY <1>1 DEF Turned, WebTurns
<1>3. QED
  BY <1>1, <1>2 DEF WebTurns, WebLeft

\* A turn stays in the loop's states and leaves fewer turns.
LEMMA WebTurn ==
  ASSUME NEW b, Begun(b), NEW s \in WebTurns(b)
  PROVE  /\ Web!RecvTurn(s) \in WebTurns(b) /\ WebLeft(s) \in Nat
         /\ WebLeft(Web!RecvTurn(s)) < WebLeft(s) \/ (WebLeft(Web!RecvTurn(s)) = 0 /\ WebLeft(s) = 0)
<1>1. PICK c, f, e : c = s.c /\ f = s.fresh /\ e = s.empty
  OBVIOUS
<1>2. /\ c \in WebConn /\ f \in Seq(Unit) /\ e \in {"ends", "breaks"} /\ s.done \in BOOLEAN
      /\ s \in [c : WebConn, fresh : Seq(Unit), empty : {"ends", "breaks"}, done : BOOLEAN]
  BY <1>1 DEF WebTurns
<1>3. Len(c.rbl) \in Nat
  BY <1>2, WebFields
<1>4. CASE s.done
  BY <1>4 DEF Web!RecvTurn, WebLeft
<1>5. CASE ~s.done
  <2>1. WebGoes(b, c, f)
    BY <1>1, <1>5 DEF WebTurns
  <2>2. PICK p : p = Web!Parsed(c, f)
    OBVIOUS
  <2>3. /\ WebHeld(b, p) /\ p.rbl = c.rbl /\ p \in WebConn
        /\ Stopped(p) \/ At(p, 0) = Len(p.rbl)
    BY <1>2, <2>1, <2>2, ParsedIs
  <2>4. PICK ends \in BOOLEAN :
          ends = (Web!Broken(c, p) \/ ((p.pr.step = "COMPLETE" \/ Web!Long(p)) /\ ~Web!Held(p)))
    OBVIOUS
  <2>5. WebLeft(s) = Len(c.rbl) + 1
    BY <1>1, <1>5 DEF WebLeft
  <2>6. CASE ends
    <3>1. PICK d : d = Shut(p)
      OBVIOUS
    <3>2. d \in WebConn /\ WebFinished(b, d)
      BY <2>3, <3>1, WebShut, WebShuts DEF WebHeld
    <3>3. Web!RecvTurn(s) = [s EXCEPT !.c = d, !.done = TRUE]
      BY <1>1, <1>5, <2>2, <2>4, <2>6, <3>1 DEF Web!RecvTurn, Web!Shut, Shut
    <3>4. PICK done \in BOOLEAN : done = TRUE
      OBVIOUS
    <3>5. Web!RecvTurn(s) = Turned(s, d, f, done)
      BY <1>1, <1>2, <3>3, <3>4 DEF Turned
    <3>6. IF done THEN WebFinished(b, d) ELSE WebGoes(b, d, f)
      BY <3>2, <3>4
    <3> HIDE <3>4
    <3>7. Turned(s, d, f, done) \in WebTurns(b) /\ WebLeft(Turned(s, d, f, done)) = IF done THEN 0 ELSE Len(d.rbl) + 1
      BY <1>2, <3>2, <3>6, TurnedIs
    <3> USE <3>4
    <3>8. PICK t : t = Turned(s, d, f, done)
      OBVIOUS
    <3>9. t \in WebTurns(b) /\ WebLeft(t) = 0
      BY <3>4, <3>7, <3>8
    <3>10. Web!RecvTurn(s) = t
      BY <3>5, <3>8, Zenon
    <3>11. QED
      BY <1>3, <2>5, <3>9, <3>10
  <2>7. CASE ~ends /\ p.pr.step = "COMPLETE"
    <3>1. PICK d : d = Web!Deliver(p)
      OBVIOUS
    <3>2. WebHeld(b, d) /\ d.pr.step = "NONE" /\ Len(d.rbl) < Len(p.rbl) /\ d.pr.paused /\ d \in WebConn
      <4>1. p.pr.step \in {"COMPLETE"} \cup Sized /\ p.pr.off <= Len(p.rbl)
        BY <2>4, <2>7 DEF Web!Held
      <4>2. QED
        BY <2>3, <2>7, <3>1, <4>1, WebHands DEF WebHeld, WebIs
    <3>3. PICK done \in BOOLEAN : done = (e = "ends" /\ d.rbl = <<>>)
      OBVIOUS
    <3>4. Web!RecvTurn(s) = [s EXCEPT !.c = d, !.fresh = <<>>, !.done = done]
      <4>1. Web!RecvTurn(s) = [s EXCEPT !.c = d, !.fresh = <<>>, !.done = Web!Ends(e, d)]
        BY <1>1, <1>5, <2>2, <2>4, <2>7, <3>1 DEF Web!RecvTurn, Web!Long
      <4>2. Web!Ends(e, d) = done
        BY <3>3 DEF Web!Ends
      <4>3. QED
        BY <4>1, <4>2, Zenon
    <3>5. PICK g : g = <<>> /\ g \in Seq(Unit)
      <4>1. <<>> \in Seq(Unit)
        OBVIOUS
      <4>2. QED
        BY <4>1, Zenon
    <3>6. Web!RecvTurn(s) = Turned(s, d, g, done)
      BY <3>4, <3>5 DEF Turned
    <3>7. WebGoes(b, d, g) /\ WebFinished(b, d)
      <4>1. Len(g) = 0 /\ d.rbl \in Seq(Unit)
        BY <3>2, <3>5, WebFields
      <4>2. FreshOf(d, g)
        BY <4>1 DEF FreshOf
      <4>3. QED
        BY <3>2, <4>1, <4>2, WebSettles DEF WebGoes, WebHeld, Ready, AtRest
    <3>8. Turned(s, d, g, done) \in WebTurns(b) /\ WebLeft(Turned(s, d, g, done)) = IF done THEN 0 ELSE Len(d.rbl) + 1
      <4>1. IF done THEN WebFinished(b, d) ELSE WebGoes(b, d, g)
        BY <3>7
      <4>2. QED
        BY <3>2, <3>5, <4>1, TurnedIs
    <3>9. Len(d.rbl) \in Nat
      BY <3>2, WebFields
    <3>10. QED
      BY <1>3, <2>3, <2>5, <3>2, <3>6, <3>8, <3>9
  <2>8. CASE ~ends /\ p.pr.step # "COMPLETE"
    <3>1. p.pr.step \notin {"COMPLETE", "ERROR"}
      BY <2>4, <2>8 DEF Web!Broken
    <3>2. WebFinished(b, p) /\ (p.pr.step \in Sized => At(p, 0) = Len(p.rbl) /\ ~p.pr.paused)
      BY <2>3, <3>1, WebWaits
    <3>3. PICK d : d = IF Web!Long(p) THEN Web!Deliver(p) ELSE p
      OBVIOUS
    <3>4. d \in WebConn /\ WebFinished(b, d)
      <4>1. CASE Web!Long(p)
        <5>1. p.pr.step \in Sized /\ p.pr.body >= MaxBody /\ d = Web!Deliver(p)
          BY <3>3, <4>1 DEF Web!Long, Sized
        <5>2. p.pr.off <= Len(p.rbl)
          BY <2>4, <2>8, <4>1 DEF Web!Held
        <5>3. /\ WebHeld(b, d) /\ d.pr.step = "NONE" /\ Len(d.rbl) = Len(p.rbl) - p.pr.off
          BY <2>3, <5>1, <5>2, WebHands
        <5>4. d \in WebConn /\ d.rbl \in Seq(Unit) /\ p.rbl \in Seq(Unit) /\ p.pr \in WebParser
          BY <2>3, <5>3, WebFields DEF WebHeld, WebIs
        <5>5. Over(p.rbl, p.came, Begins(p), p.pr, Got(p) # <<>>, Len(p.rbl))
          BY <2>3, <3>2, <5>1 DEF WebHeld, Parses
        <5>6. ~p.pr.twice /\ p.pr.off = Len(p.rbl)
          BY <3>2, <5>1, <5>2, <5>4, <5>5, WebParserFields DEF Over, Once, Sized
        <5>7. d.pr.off = 0 /\ d.pr.twice = p.pr.twice
          BY <2>3, <5>1, DeliverFields
        <5>8. d.rbl = <<>>
          BY <5>3, <5>4, <5>6
        <5>9. AtRest(d)
          BY <5>3, <5>6, <5>7, <5>8 DEF AtRest, At
        <5>10. QED
          BY <5>3, <5>4, <5>9, WebSettles
      <4>2. CASE ~Web!Long(p)
        BY <2>3, <3>2, <3>3, <4>2
      <4>3. QED
        BY <4>1, <4>2
    <3>5. Web!RecvTurn(s) = [s EXCEPT !.c = d, !.done = TRUE]
      BY <1>1, <1>5, <2>2, <2>4, <2>8, <3>3 DEF Web!RecvTurn
    <3>6. PICK done \in BOOLEAN : done = TRUE
      OBVIOUS
    <3>7. Web!RecvTurn(s) = Turned(s, d, f, done)
      BY <1>1, <1>2, <3>5, <3>6 DEF Turned
    <3>8. IF done THEN WebFinished(b, d) ELSE WebGoes(b, d, f)
      BY <3>4, <3>6
    <3> HIDE <3>6
    <3>9. Turned(s, d, f, done) \in WebTurns(b) /\ WebLeft(Turned(s, d, f, done)) = IF done THEN 0 ELSE Len(d.rbl) + 1
      BY <1>2, <3>4, <3>8, TurnedIs
    <3> USE <3>6
    <3>10. PICK t : t = Turned(s, d, f, done)
      OBVIOUS
    <3>11. t \in WebTurns(b) /\ WebLeft(t) = 0
      BY <3>6, <3>9, <3>10
    <3>12. Web!RecvTurn(s) = t
      BY <3>7, <3>10, Zenon
    <3>13. QED
      BY <1>3, <2>5, <3>11, <3>12
  <2>9. QED
    BY <2>6, <2>7, <2>8
<1>6. QED
  BY <1>2, <1>4, <1>5

\* After enough turns the loop is over.
LEMMA WebLoop ==
  ASSUME NEW b, Begun(b), NEW s \in WebTurns(b), NEW n \in Nat,
         WebLeft(s) <= n
  PROVE  WebFinished(b, Web!Turns(Web!RecvTurn, s, n).c)
<1> DEFINE Q == WebTurns(b)
           F == [k \in 1 .. n |-> [x \in Q |-> Web!RecvTurn(x)]]
           Step(f) == [k \in 0 .. n |-> IF k = 0 THEN s ELSE Web!RecvTurn(f[k - 1])]
<1>1. F \in [1 .. n -> [Q -> Q]]
  <2>1. \A x \in Q : Web!RecvTurn(x) \in Q /\ WebLeft(x) \in Nat
    BY WebTurn
  <2> HIDE DEF Q
  <2>2. QED
    BY <2>1
<1>2. PICK p \in [0 .. n -> Q] : Loop(p, n, s, F)
  <2> HIDE DEF F
  <2>1. s \in Q
    OBVIOUS
  <2> HIDE DEF Q
  <2>2. QED
    BY <1>1, <2>1, LoopRuns
<1>3. ASSUME NEW k \in 1 .. n
      PROVE  p[k - 1] \in Q /\ p[k] \in Q /\ p[k] = Web!RecvTurn(p[k - 1])
  <2>0. k - 1 \in 0 .. n /\ k \in 0 .. n
    OBVIOUS
  <2>1. p[k - 1] \in Q /\ p[k] \in Q /\ p[k] = F[k][p[k - 1]]
    <3> HIDE DEF F, Q
    <3>1. QED
      BY <1>2, <2>0 DEF Loop
  <2>2. F[k] = [x \in Q |-> Web!RecvTurn(x)]
    OBVIOUS
  <2> HIDE DEF F, Q
  <2>3. QED
    BY <2>1, <2>2
<1>4. p[0] = s
  BY <1>2 DEF Loop
<1>5. p = Step(p)
  <2>1. \A k \in 0 .. n : p[k] = Step(p)[k]
    <3>1. ASSUME NEW k \in 0 .. n, k # 0
          PROVE  k \in 1 .. n
      BY <3>1
    <3> HIDE DEF Q
    <3>2. QED
      BY <1>3, <1>4, <3>1
  <2> HIDE DEF Q
  <2>2. QED
    BY <1>2, <2>1
<1>6. PICK f : f = Step(f) /\ Web!Turns(Web!RecvTurn, s, n) = f[n]
  <2> DEFINE f == CHOOSE g : g = Step(g)
  <2>1. f = Step(f)
    <3> HIDE DEF Step
    <3>1. QED
      BY <1>5
  <2>2. Web!Turns(Web!RecvTurn, s, n) = f[n]
    BY DEF Web!Turns
  <2> HIDE DEF f
  <2>3. QED
    BY <2>1, <2>2
<1>7. \A k \in 0 .. n : f[k] = IF k = 0 THEN s ELSE Web!RecvTurn(f[k - 1])
  BY <1>6
<1> DEFINE T == {k \in 0 .. n : f[k] = p[k]}
<1>8. 0 \in T
  BY <1>4, <1>7
<1>9. ASSUME NEW k \in 0 .. n - 1, k \in T
      PROVE  k + 1 \in T
  <2>1. k + 1 \in 1 .. n /\ k + 1 \in 0 .. n /\ (k + 1) - 1 = k /\ k + 1 # 0
    OBVIOUS
  <2>2. QED
    BY <1>3, <1>7, <1>9, <2>1
<1>10. \A k \in 0 .. n : k \in T
  <2> HIDE DEF T
  <2>1. QED
    BY <1>8, <1>9, Ascends
<1>11. p[n] = f[n] /\ p[n] \in Q
  <2> HIDE DEF Q
  <2>1. QED
    BY <1>2, <1>10
<1> DEFINE m == [k \in 0 .. n |-> WebLeft(p[k])]
<1>12. /\ m \in [0 .. n -> Nat] /\ m[0] <= n
       /\ \A k \in 1 .. n : m[k] < m[k - 1] \/ (m[k] = 0 /\ m[k - 1] = 0)
  <2>1. \A k \in 0 .. n : p[k] \in WebTurns(b) /\ WebLeft(p[k]) \in Nat
    BY <1>2, WebTurn
  <2>2. m \in [0 .. n -> Nat]
    BY <2>1
  <2>3. m[0] <= n
    BY <1>4
  <2>4. ASSUME NEW k \in 1 .. n
        PROVE  m[k] < m[k - 1] \/ (m[k] = 0 /\ m[k - 1] = 0)
    <3>1. m[k] = WebLeft(p[k]) /\ m[k - 1] = WebLeft(p[k - 1])
      OBVIOUS
    <3>2. p[k - 1] \in WebTurns(b) /\ p[k] = Web!RecvTurn(p[k - 1])
      BY <1>3
    <3>3. QED
      BY <3>1, <3>2, WebTurn
  <2> HIDE DEF m
  <2>5. QED
    BY <2>2, <2>3, <2>4
<1>13. m[n] = WebLeft(p[n])
  OBVIOUS
<1>14. m[n] = 0
  <2> HIDE DEF m
  <2>1. QED
    BY <1>12, LoopEnds
<1>15. WebLeft(p[n]) = 0
  BY <1>13, <1>14
<1>16. p[n].done
  <2>1. p[n].c \in WebConn
    BY <1>11 DEF WebTurns
  <2>2. Len(p[n].c.rbl) \in Nat
    BY <2>1, WebFields
  <2>3. QED
    BY <1>11, <1>15, <2>2 DEF WebLeft, WebTurns
<1>17. WebFinished(b, p[n].c)
  BY <1>11, <1>16 DEF WebTurns
<1>18. QED
  BY <1>6, <1>11, <1>17, Zenon

\* The receive loop of http, from its first turn to its last.
LEMMA WebRecvLoop ==
  ASSUME NEW b, Begun(b), NEW c, NEW f \in Seq(Unit), NEW e \in {"ends", "breaks"}, WebGoes(b, c, f)
  PROVE  WebFinished(b, Web!RecvLoop(c, f, e))
<1>1. c \in WebConn /\ c.rbl \in Seq(Unit)
  BY WebFields DEF WebGoes, WebIs
<1>2. PICK s, n : s = [c |-> c, fresh |-> f, empty |-> e, done |-> FALSE] /\ n = Len(c.rbl) + 1
  OBVIOUS
<1>3. s \in WebTurns(b) /\ n \in Nat /\ WebLeft(s) <= n
  BY <1>1, <1>2 DEF WebTurns, WebLeft
<1>4. WebFinished(b, Web!Turns(Web!RecvTurn, s, n).c)
  BY <1>3, WebLoop
<1>5. QED
  BY <1>2, <1>4, Zenon DEF Web!RecvLoop

-----------------------------------------------------------------------------
(* What http reads.                                                        *)

\* The next piece is one that may follow.
LEMMA NextPieceIs ==
  ASSUME NEW c \in WebConn, Flows(c.came), NEW u \in NextUnits(c)
  PROVE  u \in Unit /\ Flows(Append(c.came, u))
<1>1. PICK s : s = c.came
  OBVIOUS
<1>2. s \in Seq(Unit) /\ c.proto = "http" /\ Flows(s)
  BY <1>1, WebFields
<1>3. PICK l : l = IF s = <<>> THEN [kind |-> "none", part |-> 0, n |-> 0] ELSE s[Len(s)]
  OBVIOUS
<1>4. u \in [kind : NextPieces(c, l.kind), part : {1}, n : Again]
  BY <1>1, <1>2, <1>3 DEF NextUnits
<1>5. PICK k : k \in NextPieces(c, l.kind) /\ u.kind = k
  BY <1>4
<1>6. /\ k \in {"bad", "blank", "fields", "headers", "headerstoeof", "body", "chunkpart", "chunk", "trailer", "end"}
      /\ l.kind \in InBody => k \in Follows
  BY <1>5 DEF NextPieces, InBody, Follows
<1>7. u \in Unit /\ u.kind = k
  BY <1>4, <1>5, <1>6 DEF Unit, UnitKinds, Again, Web!Same, Web!Longer, Web!Wrong
<1>8. Flows(Append(s, u))
  <2>1. PICK t, n : t = Append(s, u) /\ n = Len(s)
    OBVIOUS
  <2>2. n \in Nat /\ Len(t) = n + 1 /\ t[n + 1] = u /\ \A i \in 1 .. n : t[i] = s[i]
    BY <1>2, <1>7, <2>1
  <2>3. ASSUME NEW i \in 1 .. Len(t) - 1, t[i].kind \in InBody
        PROVE  t[i + 1].kind \in Follows
    <3>1. CASE i = n
      <4>1. t[i] = l
        BY <1>2, <1>3, <2>1, <2>2, <2>3, <3>1
      <4>2. QED
        BY <1>6, <1>7, <2>2, <2>3, <3>1, <4>1
    <3>2. CASE i # n
      <4>1. i \in 1 .. n - 1 /\ i \in 1 .. n /\ i + 1 \in 1 .. n
        BY <2>2, <3>2
      <4>2. QED
        BY <1>2, <2>1, <2>2, <2>3, <4>1 DEF Flows
    <3>3. QED
      BY <3>1, <3>2
  <2>4. QED
    BY <2>1, <2>3 DEF Flows
<1>9. QED
  BY <1>1, <1>7, <1>8

\* One unit more at the end of the longer sequence.
LEMMA ReachesMore ==
  ASSUME NEW s \in Seq(Unit), NEW t \in Seq(Unit), Reaches(s, t), NEW u \in Unit
  PROVE  Reaches(s, Append(t, u))
<1>1. PICK v : v = Append(t, u)
  OBVIOUS
<1>2. Len(v) = Len(t) + 1 /\ \A i \in 1 .. Len(t) : v[i] = t[i]
  BY <1>1
<1>3. Len(s) <= Len(t) /\ Len(s) \in Nat /\ Len(t) \in Nat
  BY DEF Reaches
<1>4. QED
  BY <1>1, <1>2, <1>3 DEF Reaches

\* One unit more in the buffer and in what came.
LEMMA HoldsMore ==
  ASSUME NEW r \in Seq(Unit), NEW s \in Seq(Unit), NEW B \in Nat, Holds(r, s, B), NEW u \in Unit
  PROVE  Holds(Append(r, u), Append(s, u), B)
<1>1. PICK q, t, m, n : q = Append(r, u) /\ t = Append(s, u) /\ m = Len(r) /\ n = Len(s)
  OBVIOUS
<1>2. /\ m \in Nat /\ n \in Nat /\ m = n - B /\ Len(q) = m + 1 /\ Len(t) = n + 1
      /\ q[m + 1] = u /\ t[n + 1] = u
      /\ (\A i \in 1 .. m : q[i] = r[i]) /\ (\A i \in 1 .. n : t[i] = s[i])
  BY <1>1 DEF Holds
<1>3. \A i \in 1 .. m : r[i] = s[B + i]
  BY <1>1 DEF Holds
<1>4. Len(q) = Len(t) - B
  BY <1>2
<1>5. ASSUME NEW i \in 1 .. Len(q)
      PROVE  q[i] = t[B + i]
  <2>1. CASE i = m + 1
    <3>1. B + i = n + 1
      BY <1>2, <2>1
    <3>2. QED
      BY <1>2, <2>1, <3>1
  <2>2. CASE i # m + 1
    <3>1. i \in 1 .. m /\ B + i \in 1 .. n
      BY <1>2, <2>2
    <3>2. QED
      BY <1>2, <1>3, <3>1
  <2>3. QED
    BY <2>1, <2>2
<1>6. QED
  BY <1>1, <1>4, <1>5 DEF Holds

\* The units behind the first o.
LEMMA FromIs ==
  ASSUME NEW r \in Seq(Unit), NEW o \in 0 .. Len(r), NEW q, q = From(r, o)
  PROVE  q \in Seq(Unit) /\ Len(q) = Len(r) - o /\ \A i \in 1 .. Len(q) : q[i] = r[o + i]
<1>1. PICK m, n : m = o + 1 /\ n = Len(r)
  OBVIOUS
<1>2. m \in Int /\ n \in Int /\ m <= n + 1 /\ m > 0 /\ (\A i \in m .. n : r[i] \in Unit) /\ q = SubSeq(r, m, n)
  BY <1>1 DEF From
<1>3. /\ q \in Seq(Unit) /\ Len(q) = (IF m <= n THEN n - m + 1 ELSE 0)
      /\ \A i \in 1 .. n - m + 1 : q[i] = r[m + i - 1]
  BY ONLY <1>2, SubSeqProperties
<1>4. n - m + 1 = n - o /\ \A i \in 1 .. n - m + 1 : m + i - 1 = o + i
  BY <1>1, <1>2
<1>5. Len(q) = n - m + 1
  BY <1>2, <1>3
<1>6. QED
  BY <1>1, <1>3, <1>4, <1>5

\* The parser has the same of a longer buffer.
LEMMA OverLonger ==
  ASSUME NEW r \in Seq(Unit), NEW s \in Seq(Unit), NEW r2 \in Seq(Unit), NEW s2 \in Seq(Unit),
         NEW B \in Nat, NEW p \in WebParser, NEW got \in BOOLEAN, NEW at \in Nat,
         Over(r, s, B, p, got, at), Reaches(r, r2), Reaches(s, s2), Holds(r2, s2, B)
  PROVE  Over(r2, s2, B, p, got, at)
<1>1. PICK m, m2, n : m = Len(r) /\ m2 = Len(r2) /\ n = Len(s)
  OBVIOUS
<1>2. /\ m \in Nat /\ m2 \in Nat /\ n \in Nat /\ at <= m /\ m <= m2 /\ m = n - B
      /\ \A i \in 1 .. m : r2[i] = r[i]
  BY <1>1 DEF Over, Reaches, Holds
<1>3. at \in 0 .. Len(r2)
  BY <1>1, <1>2
<1>4. ASSUME ~p.twice
      PROVE  Once(r2, p, at)
  <2>1. Once(r, p, at)
    BY <1>4 DEF Over
  <2>2. SubSeq(r, 1, at) = SubSeq(r2, 1, at)
    <3>1. \A i \in 1 .. at - 0 : r[0 + i] = r2[0 + i]
      BY <1>2
    <3>2. at - 0 = at /\ 0 + 1 = 1 /\ 0 + (at - 0) = at /\ 0 \in Nat /\ at <= Len(r) /\ at - 0 <= Len(r2) - 0
      BY <1>1, <1>2
    <3>3. SubSeq(r, 0 + 1, at) = SubSeq(r2, 0 + 1, 0 + (at - 0))
      BY <1>2, <3>1, <3>2, PartSame
    <3>4. QED
      BY <3>2, <3>3
  <2>3. p.body = Bodies(SubSeq(r2, 1, at))
    BY <2>1, <2>2 DEF Once
  <2>4. \A i \in 1 .. at - 1 : r2[i].kind # "end"
    <3>1. \A i \in 1 .. at - 1 : i \in 1 .. m /\ r[i].kind # "end"
      BY <1>2, <2>1 DEF Once
    <3>2. QED
      BY <1>2, <3>1
  <2>5. at > 0 => r2[at] = r[at]
    BY <1>2
  <2>6. QED
    BY <2>1, <2>3, <2>4, <2>5 DEF Once
<1>5. B + at > 0 => s2[B + at] = s[B + at]
  <2>1. B + at > 0 => B + at \in 1 .. n
    BY <1>2
  <2>2. QED
    BY <1>1, <2>1 DEF Reaches
<1>6. QED
  BY <1>3, <1>4, <1>5 DEF Over

\* What was read of c is d.
WebReadOf(c, d) ==
  /\ d \in WebConn /\ d.proto = c.proto /\ d.role = c.role /\ d.st = c.st /\ d.linked = c.linked
  /\ d.told = c.told /\ d.up = c.up /\ d.bye = c.bye /\ d.pr = c.pr
  /\ Flows(d.came) /\ Reaches(c.rbl, d.rbl) /\ Reaches(c.came, d.came)
  /\ Holds(d.rbl, d.came, Begins(c))

\* What a poll may have read of an http connection.
LEMMA WebReads ==
  ASSUME NEW c \in WebConn, Flows(c.came), Holds(c.rbl, c.came, Begins(c)), NEW d \in Reads(c)
  PROVE  WebReadOf(c, d)
<1> DEFINE Q == {e \in WebConn : WebReadOf(c, e)}
<1>1. c \in Q
  BY ReachesSelf, WebFields DEF WebReadOf
<1>2. ASSUME NEW e \in Q, NEW u \in NextUnits(e)
      PROVE  Fed(e, u) \in Q
  <2>1. WebReadOf(c, e) /\ e \in WebConn /\ Flows(e.came)
    BY DEF WebReadOf
  <2>2. PICK f : f = Fed(e, u)
    OBVIOUS
  <2>3. u \in Unit /\ Flows(Append(e.came, u))
    BY <2>1, NextPieceIs
  <2>4. /\ f \in WebConn /\ f.rbl = Append(e.rbl, u) /\ f.came = Append(e.came, u)
        /\ f.proto = e.proto /\ f.role = e.role /\ f.st = e.st /\ f.told = e.told
        /\ f.linked = e.linked /\ f.up = e.up /\ f.bye = e.bye /\ f.pr = e.pr
    <3>1. PICK P, R : WebConn = Conns(P, R)
      BY DEF WebConn
    <3>2. e \in Conns(P, R)
      BY <2>1, <3>1
    <3>3. QED
      BY <2>2, <2>3, <3>1, <3>2, FedFields
  <2>5. /\ e.rbl \in Seq(Unit) /\ e.came \in Seq(Unit) /\ c.rbl \in Seq(Unit) /\ c.came \in Seq(Unit)
        /\ Begins(c) \in Nat
    BY <2>1, WebFields, AlikeTaken
  <2>6. Reaches(c.rbl, f.rbl) /\ Reaches(c.came, f.came)
    BY <2>1, <2>3, <2>4, <2>5, ReachesMore DEF WebReadOf
  <2>7. Holds(f.rbl, f.came, Begins(c))
    BY <2>1, <2>3, <2>4, <2>5, HoldsMore DEF WebReadOf
  <2>8. QED
    BY <2>1, <2>2, <2>3, <2>4, <2>6, <2>7 DEF WebReadOf
<1>3. Reads(c) \subseteq Q
  <2> HIDE DEF Q
  <2>1. QED
    BY <1>1, <1>2, ReadsIn
<1>4. QED
  BY <1>3

\* Of an open connection, what was read goes through the loop.
LEMMA WebGoesOn ==
  ASSUME NEW c, WebInv(c), c.st = "TRANS", NEW d \in Reads(c),
         NEW f, f = SubSeq(d.rbl, Len(c.rbl) + 1, Len(d.rbl))
  PROVE  WebGoes(c, d, f) /\ f \in Seq(Unit) /\ Begun(c) /\ d.st = "TRANS"
<1>1. /\ c \in WebConn /\ Common(c) /\ Flows(c.came) /\ Parses(c, 0) /\ AtRest(c)
      /\ \A k \in 1 .. Len(Got(c)) : IsWhole(c, k)
  BY DEF WebInv
<1>2. WebReadOf(c, d) /\ d \in WebConn
  BY <1>1, WebReads DEF Parses, Over, WebReadOf
<1>3. Begun(c) /\ c.rbl \in Seq(Unit) /\ d.rbl \in Seq(Unit) /\ c.came \in Seq(Unit) /\ d.came \in Seq(Unit) /\ c.pr \in WebParser
      /\ d.pr = c.pr
  BY <1>1, <1>2, WebFields DEF Begun, WebReadOf
<1>4. Len(c.rbl) \in 0 .. Len(d.rbl) /\ f = From(d.rbl, Len(c.rbl))
  BY <1>2, <1>3 DEF WebReadOf, Reaches, From
<1>5. f \in Seq(Unit) /\ Len(f) = Len(d.rbl) - Len(c.rbl) /\ \A i \in 1 .. Len(f) : f[i] = d.rbl[Len(c.rbl) + i]
  <2>1. PICK r, o : r = d.rbl /\ o = Len(c.rbl)
    OBVIOUS
  <2>2. r \in Seq(Unit) /\ o \in 0 .. Len(r) /\ f = From(r, o)
    BY <1>3, <1>4, <2>1
  <2>3. f \in Seq(Unit) /\ Len(f) = Len(r) - o /\ \A i \in 1 .. Len(f) : f[i] = r[o + i]
    BY ONLY <2>2, FromIs
  <2>4. QED
    BY <2>1, <2>3
<1>6. Got(d) = Got(c) /\ \A k \in 1 .. Len(Got(d)) : IsWhole(d, k)
  BY <1>1, <1>2, AllStayWhole DEF WebReadOf
<1>7. Begins(d) = Begins(c) /\ Begins(c) \in Nat
  BY <1>1, <1>2, AlikeTaken DEF WebReadOf
<1>8. At(d, Len(f)) = At(c, 0) /\ Len(c.rbl) = Len(d.rbl) - Len(f)
  <2>1. Len(d.rbl) - Len(f) = Len(c.rbl) /\ Len(c.rbl) - 0 = Len(c.rbl)
    <3>1. PICK m, n, k : m = Len(d.rbl) /\ n = Len(c.rbl) /\ k = Len(f)
      OBVIOUS
    <3>2. m \in Nat /\ n \in Nat
      BY <1>3, <3>1
    <3>3. k = m - n
      BY <1>5, <3>1
    <3>4. m - k = n /\ n - 0 = n
      BY ONLY <3>2, <3>3
    <3>5. QED
      BY <3>1, <3>4
  <2>2. QED
    BY <1>3, <2>1 DEF At
<1>9. Parses(d, Len(f))
  <2>1. PICK r, s, r2, s2, B, p, got, at :
          /\ got \in BOOLEAN /\ r = c.rbl /\ s = c.came /\ r2 = d.rbl /\ s2 = d.came /\ B = Begins(c)
          /\ p = c.pr /\ got = (Got(c) # <<>>) /\ at = At(c, 0)
    OBVIOUS
  <2>2. Over(r, s, B, p, got, at) /\ Reaches(r, r2) /\ Reaches(s, s2) /\ Holds(r2, s2, B)
    BY <1>1, <1>2, <2>1 DEF WebReadOf, Parses
  <2>3. Over(r2, s2, B, p, got, at)
    <3>1. r \in Seq(Unit) /\ s \in Seq(Unit) /\ r2 \in Seq(Unit) /\ s2 \in Seq(Unit) /\ B \in Nat /\ p \in WebParser
      BY <1>3, <1>7, <2>1
    <3>2. at \in 0 .. Len(r)
      BY <2>2 DEF Over
    <3>3. at \in Nat
      BY <3>1, <3>2
    <3>4. QED
      BY ONLY <2>1, <2>2, <3>1, <3>3, OverLonger
  <2>4. d.pr = p /\ got = (Got(d) # <<>>) /\ B = Begins(d) /\ at = At(d, Len(f))
    BY <1>2, <1>6, <1>7, <1>8, <2>1 DEF WebReadOf
  <2>5. QED
    BY <2>1, <2>3, <2>4 DEF Parses
<1>a. FreshOf(d, f)
  <2>1. Len(f) <= Len(d.rbl)
    <3>1. PICK m, n, k : m = Len(d.rbl) /\ n = Len(c.rbl) /\ k = Len(f)
      OBVIOUS
    <3>2. m \in Nat /\ n \in Nat
      BY <1>3, <3>1
    <3>3. k = m - n
      BY <1>5, <3>1
    <3>4. k <= m
      BY ONLY <3>2, <3>3
    <3>5. QED
      BY <3>1, <3>4
  <2>2. \A i \in 1 .. Len(f) : f[i] = d.rbl[(Len(d.rbl) - Len(f)) + i]
    BY <1>5, <1>8
  <2>3. QED
    BY <2>1, <2>2 DEF FreshOf
<1>b. d.pr.paused \/ At(d, Len(f)) = Len(d.rbl) - Len(f)
  BY <1>1, <1>3, <1>8 DEF AtRest
<1>10. Ready(d)
  BY <1>1, <1>2 DEF AtRest, Ready, WebReadOf
<1>11. Tells(c, d, "open")
  <2>1. Phase(c) = "open"
    BY PhaseOf
  <2>2. Tells(c, d, Phase(c))
    BY <1>2, <1>3, TellsNothing DEF WebReadOf, Begun
  <2>3. QED
    BY <2>1, <2>2
<1>12. /\ d.st = "TRANS" /\ d.up /\ ~d.bye /\ ~d.linked /\ d.role # "listener"
       /\ d.proto = c.proto /\ d.role = c.role /\ d.bye = c.bye
  <2>1. c.up /\ ~c.bye /\ ~c.linked /\ c.role # "listener"
    BY <1>1, WebFields DEF Common
  <2>2. QED
    BY <1>2, <2>1 DEF WebReadOf
<1>13. d.role = "server" /\ d.told # <<>> => Got(d) # <<>>
  BY <1>2, <1>6 DEF WebReadOf, WebInv
<1>14. WebIs(c, d)
  BY <1>2, <1>6, <1>11, <1>12, <1>13 DEF WebIs, WebReadOf
<1>15. QED
  BY <1>3, <1>5, <1>9, <1>a, <1>b, <1>10, <1>12, <1>14 DEF WebGoes

\* jetnet_http_handle_*_recv.
LEMMA WebReceived ==
  ASSUME NEW c, WebInv(c), c.st = "TRANS", NEW d \in Reads(c),
         NEW f, f = SubSeq(d.rbl, Len(c.rbl) + 1, Len(d.rbl))
  PROVE  WebFinished(c, Web!HandleClientRecv(d, f)) /\ WebFinished(c, Web!HandleServerRecv(d, f))
<1>1. WebGoes(c, d, f) /\ f \in Seq(Unit) /\ Begun(c) /\ d.st = "TRANS"
  BY WebGoesOn
<1>2. \A e \in {"ends", "breaks"} : WebFinished(c, Web!RecvLoop(d, f, e))
  BY <1>1, WebRecvLoop
<1>3. WebFinished(c, Web!RecvLoop(d, f, "ends")) /\ WebFinished(c, Web!RecvLoop(d, f, "breaks"))
  BY <1>2
<1>4. QED
  BY <1>1, <1>3 DEF Web!HandleClientRecv, Web!HandleServerRecv, Web!ClientLoop, Web!ServerLoop

-----------------------------------------------------------------------------
(* http: the ends, and what its owner does.                                *)

\* One that ended.
LEMMA WebEnds ==
  ASSUME NEW c, NEW d \in WebConn, WebInv(c), c.st # "CLOSE",
         d.proto = c.proto, d.role = c.role, d.st = "CLOSE", ~d.up, ~d.linked,
         d.came = c.came, d.told = c.told, c.pr.twice => d.pr.twice
  PROVE  WebInv(d)
<1>1. c \in WebConn /\ Flows(c.came) /\ c.came \in Seq(Unit) /\ \A k \in 1 .. Len(Got(c)) : IsWhole(c, k)
  BY WebFields DEF WebInv
<1>2. Got(d) = Got(c) /\ \A k \in 1 .. Len(Got(d)) : IsWhole(d, k)
  BY <1>1, ReachesSelf, AllStayWhole
<1>3. Common(d)
  <2>1. d.st \in Stages(d.proto, d.role)
    BY DEF Stages
  <2>2. d.up = (d.st # "CLOSE")
    BY WebFields
  <2>3. QED
    BY <2>1, <2>2 DEF Common
<1>4. d.role = "server" /\ d.told # <<>> => Got(d) # <<>>
  BY <1>2 DEF WebInv
<1>5. QED
  BY <1>1, <1>2, <1>3, <1>4 DEF WebInv

\* jetnet_net_close, on http.
LEMMA WebHangsUp ==
  ASSUME NEW c, NEW d, WebInv(c), c.st # "CLOSE", d = [Shut(c) EXCEPT !.bye = TRUE]
  PROVE  WebInv(d) /\ Hung(c, d)
<1>1. c \in WebConn /\ ~c.linked
  BY DEF WebInv, Common
<1>2. /\ d \in WebConn /\ d.proto = c.proto /\ d.role = c.role /\ d.st = "CLOSE"
      /\ d.linked = c.linked /\ d.told = c.told /\ d.came = c.came /\ ~d.up /\ d.bye /\ d.pr = c.pr
  BY <1>1 DEF WebConn, Conns, States, Shut
<1>3. WebInv(d)
  BY <1>1, <1>2, WebEnds
<1>4. QED
  BY <1>2, <1>3 DEF Hung

\* A close of the network that its owner is not told of.
LEMMA WebShutsDown ==
  ASSUME NEW c, WebInv(c), c.st # "CLOSE"
  PROVE  WebFinished(c, Shut(c))
<1>1. PICK d : d = Shut(c)
  OBVIOUS
<1>2. c \in WebConn /\ ~c.linked /\ c.proto = "http" /\ c.st \in States /\ c.told \in Seq(AnyNote)
  BY WebFields DEF WebInv, Common
<1>3. /\ d \in WebConn /\ d.proto = c.proto /\ d.role = c.role /\ d.st = "CLOSE" /\ ~d.up
      /\ d.bye = c.bye /\ d.linked = c.linked /\ d.told = c.told /\ d.came = c.came /\ d.pr = c.pr
  BY <1>1, <1>2, WebShut
<1>4. WebInv(d)
  BY <1>2, <1>3, WebEnds
<1>5. Tells(c, d, Phase(c)) /\ Phase(c) \in Ats \ {"wrong", "ending"} /\ Phase(d) = "over"
  BY <1>2, <1>3, TellsNothing, PhaseType, PhaseOf
<1>6. QED
  BY <1>1, <1>2, <1>3, <1>4, <1>5 DEF WebFinished, Moves

\* The first notice of a connection asked for.
LEMMA WebHears ==
  ASSUME NEW c, WebInv(c), c.st = "CONNECTING", NEW t \in {"CONNECT", "FAIL"}, NEW m, m = Note(t, 0)
  PROVE  /\ c \in WebConn /\ c.told = <<>> /\ m \in AnyNote
         /\ \A d : d.told = Append(c.told, m) =>
              Got(d) = <<>> /\ Got(c) = <<>> /\ Tells(c, d, IF t = "FAIL" THEN "over" ELSE "open")
<1>1. c \in WebConn /\ c.told = <<>> /\ c.told \in Seq(AnyNote) /\ c.st \in States
  BY WebFields DEF WebInv
<1>2. m \in AnyNote /\ m.t = t /\ m.t \notin {"RECV", "UNREACH"}
  BY DEF Note, AnyNote, Notices
<1>3. ASSUME NEW d, d.told = Append(c.told, m)
      PROVE  Got(d) = <<>> /\ Got(c) = <<>> /\ Tells(c, d, IF t = "FAIL" THEN "over" ELSE "open")
  <2>1. Got(c) = <<>> /\ Got(d) = Got(c)
    BY <1>1, <1>2, <1>3, GotSame, ToldNothing DEF Got
  <2>2. Phase(c) = "asked"
    BY PhaseOf
  <2>3. Tells(c, c, Phase(c))
    BY <1>1, TellsNothing
  <2>4. Tells(c, d, S!After(Phase(c), m))
    BY <1>1, <1>2, <1>3, <2>3, TellsMore
  <2>5. S!After(Phase(c), m) = IF t = "FAIL" THEN "over" ELSE "open"
    BY <1>2, <2>2 DEF S!After
  <2>6. QED
    BY <2>1, <2>4, <2>5
<1>4. QED
  BY <1>1, <1>2, <1>3

\* A connect that fails.
LEMMA WebFails ==
  ASSUME NEW c, WebInv(c), c.st = "CONNECTING"
  PROVE  WebFinished(c, Shut(Tell(c, "FAIL", 0)))
<1>1. PICK t \in {"CONNECT", "FAIL"} : t = "FAIL"
  OBVIOUS
<1>2. PICK m, d : m = Note(t, 0) /\ d = Shut(Tell(c, "FAIL", 0))
  OBVIOUS
<1>3. c \in WebConn /\ c.told = <<>> /\ m \in AnyNote
  BY <1>2, WebHears
<1>4. PICK told : told = Append(c.told, m)
  OBVIOUS
<1>5. told \in Seq(AnyNote)
  BY <1>3, <1>4
<1>6. d = [c EXCEPT !.told = told, !.st = "CLOSE", !.up = FALSE]
  BY <1>1, <1>2, <1>3, <1>4 DEF Shut, Tell, WebConn, Conns
<1>7. /\ d \in WebConn /\ d.proto = c.proto /\ d.role = c.role /\ d.st = "CLOSE" /\ ~d.up
      /\ d.bye = c.bye /\ d.linked = c.linked /\ d.told = told /\ d.came = c.came
  BY <1>3, <1>5, <1>6 DEF WebConn, Conns, States
<1>8. Got(d) = <<>> /\ Tells(c, d, "over")
  BY <1>1, <1>2, <1>4, <1>7, WebHears
<1>9. Common(d)
  <2>1. d.st \in Stages(d.proto, d.role) /\ ~d.linked
    BY <1>7 DEF Stages, WebInv, Common
  <2>2. d.up = (d.st # "CLOSE")
    BY <1>7, WebFields
  <2>3. QED
    BY <1>7, <2>1, <2>2 DEF Common
<1>10. c.role = "client" /\ c.proto = "http" /\ Flows(c.came)
  BY <1>3, WebFields DEF WebInv, Common, Stages
<1>11. \A k \in 1 .. Len(Got(d)) : IsWhole(d, k)
  BY <1>8
<1>12. WebInv(d)
  BY <1>7, <1>9, <1>10, <1>11 DEF WebInv
<1>13. Phase(d) = "over"
  BY <1>7, PhaseOf
<1>14. QED
  BY <1>2, <1>7, <1>8, <1>12, <1>13 DEF WebFinished, Moves, Ats

\* A connect that succeeds.
LEMMA WebOpens ==
  ASSUME NEW c, WebInv(c), c.st = "CONNECTING"
  PROVE  WebFinished(c, Tell([c EXCEPT !.st = "TRANS"], "CONNECT", 0))
<1>1. PICK t \in {"CONNECT", "FAIL"} : t = "CONNECT"
  OBVIOUS
<1>2. PICK m, d : m = Note(t, 0) /\ d = Tell([c EXCEPT !.st = "TRANS"], "CONNECT", 0)
  OBVIOUS
<1>3. c \in WebConn /\ c.told = <<>> /\ m \in AnyNote
  BY <1>2, WebHears
<1>4. PICK told : told = Append(c.told, m)
  OBVIOUS
<1>5. told \in Seq(AnyNote)
  BY <1>3, <1>4
<1>6. d = [c EXCEPT !.told = told, !.st = "TRANS"]
  BY <1>1, <1>2, <1>3, <1>4 DEF Tell, WebConn, Conns
<1>7. /\ d \in WebConn /\ d.proto = c.proto /\ d.role = c.role /\ d.st = "TRANS" /\ d.up = c.up
      /\ d.bye = c.bye /\ d.linked = c.linked /\ d.told = told /\ d.came = c.came /\ d.rbl = c.rbl
      /\ d.pr = c.pr
  BY <1>3, <1>5, <1>6 DEF WebConn, Conns, States
<1>8. Got(d) = <<>> /\ Got(c) = <<>> /\ Tells(c, d, "open")
  BY <1>1, <1>2, <1>4, <1>7, WebHears
<1>9. c.role = "client" /\ c.proto = "http" /\ Flows(c.came) /\ Parses(c, 0) /\ AtRest(c) /\ c.up
  BY <1>3, WebFields DEF WebInv, Common, Stages
<1>10. Common(d)
  <2>1. d.st \in Stages(d.proto, d.role) /\ ~d.linked /\ ~d.bye
    BY <1>7 DEF Stages, WebInv, Common
  <2>2. d.up = (d.st # "CLOSE")
    BY <1>7, <1>9, WebFields
  <2>3. QED
    BY <1>7, <1>9, <2>1, <2>2 DEF Common
<1>11. Parses(d, 0) /\ AtRest(d)
  <2>1. Begins(d) = Begins(c)
    <3>1. Begins(c) = 0 /\ Begins(d) = 0
      <4>1. Got(c) \in Seq(AnyNote) /\ Got(d) \in Seq(AnyNote) /\ Len(Got(c)) = 0 /\ Len(Got(d)) = 0
        BY <1>3, <1>7, <1>8, WebFields
      <4>2. Taken(c, 0) = 0 /\ Taken(d, 0) = 0
        BY <4>1, TakenZero
      <4>3. QED
        BY <4>1, <4>2 DEF Begins
    <3>2. QED
      BY <3>1
  <2>2. QED
    BY <1>7, <1>8, <1>9, <2>1 DEF AtRest, Parses, At
<1>12. \A k \in 1 .. Len(Got(d)) : IsWhole(d, k)
  BY <1>8
<1>13. WebInv(d)
  BY <1>7, <1>9, <1>10, <1>11, <1>12 DEF WebInv
<1>14. Phase(d) = "open"
  BY <1>7, PhaseOf
<1>15. QED
  BY <1>2, <1>7, <1>8, <1>13, <1>14 DEF WebFinished, Moves, Ats

\* The end of the stream ends the message.
LEMMA WebEndsMessage ==
  ASSUME NEW c, WebInv(c), c.st = "TRANS", c.pr.step = "BODY", c.role = "client",
         c.pr.off <= Len(c.rbl)
  PROVE  WebFinished(c, Shut(Web!Deliver(c)))
<1>1. PICK e, d, o : e = Web!Deliver(c) /\ d = Shut(e) /\ o = c.pr.off
  OBVIOUS
<1>2. /\ c \in WebConn /\ c.proto = "http" /\ c.st \in States /\ c.told \in Seq(AnyNote) /\ Flows(c.came)
      /\ Parses(c, 0) /\ o \in Nat /\ ~c.linked /\ \A k \in 1 .. Len(Got(c)) : IsWhole(c, k)
  BY <1>1, WebFields, WebParserFields DEF WebInv, Common
<1>3. /\ e \in WebConn /\ e.proto = c.proto /\ e.role = c.role /\ e.linked = c.linked
      /\ e.came = c.came /\ e.bye = c.bye /\ e.told = Append(c.told, Note("RECV", o))
      /\ e.pr.twice = c.pr.twice
  BY <1>1, <1>2, DeliverFields
<1>4. /\ d \in WebConn /\ d.proto = c.proto /\ d.role = c.role /\ d.st = "CLOSE" /\ ~d.up
      /\ d.bye = c.bye /\ d.linked = c.linked /\ d.told = Append(c.told, Note("RECV", o)) /\ d.came = c.came
      /\ d.pr.twice = c.pr.twice
  <2>1. /\ d \in WebConn /\ d.proto = e.proto /\ d.role = e.role /\ d.st = "CLOSE" /\ ~d.up
        /\ d.bye = e.bye /\ d.linked = e.linked /\ d.told = e.told /\ d.came = e.came /\ d.pr = e.pr
    BY <1>1, <1>3, WebShut
  <2>2. QED
    BY <1>3, <2>1
<1>5. \A k \in 1 .. Len(Got(d)) : IsWhole(d, k)
  <2>1. c.pr.off > 0 /\ c.st # "CLOSE" /\ d.told = Append(c.told, Note("RECV", c.pr.off))
    BY <1>1, <1>2, <1>4 DEF Parses, Over
  <2>2. QED
    BY <1>2, <1>4, <2>1, OneMore
<1>6. Common(d)
  <2>1. d.st \in Stages(d.proto, d.role)
    BY <1>4 DEF Stages
  <2>2. d.up = (d.st # "CLOSE")
    BY <1>4, WebFields
  <2>3. QED
    BY <1>2, <1>4, <2>1, <2>2 DEF Common
<1>7. WebInv(d)
  BY <1>2, <1>4, <1>5, <1>6 DEF WebInv
<1>8. Tells(c, d, "open")
  <2>1. PICK m : m = Note("RECV", o)
    OBVIOUS
  <2>2. m \in AnyNote /\ m.t = "RECV"
    BY <1>2, <2>1 DEF Note, AnyNote, Notices
  <2>3. Phase(c) = "open" /\ Tells(c, c, Phase(c))
    BY <1>2, TellsNothing, PhaseOf
  <2>4. Tells(c, d, S!After(Phase(c), m))
    BY <1>2, <1>4, <2>1, <2>2, <2>3, TellsMore
  <2>5. S!After(Phase(c), m) = "open"
    BY <2>2, <2>3 DEF S!After
  <2>6. QED
    BY <2>4, <2>5
<1>9. Phase(d) = "over"
  BY <1>4, PhaseOf
<1>10. QED
  BY <1>1, <1>2, <1>4, <1>7, <1>8, <1>9 DEF WebFinished, Moves, Ats

\* jetnet_http_handle_*_close.
LEMMA WebClosed ==
  ASSUME NEW c, WebInv(c), c.st # "CLOSE"
  PROVE  /\ WebFinished(c, Web!HandleListenerClose(c))
         /\ c.role = "client" => WebFinished(c, Web!HandleClientClose(c))
         /\ WebFinished(c, Web!HandleServerClose(c))
<1>1. WebFinished(c, Shut(c))
  BY WebShutsDown
<1>2. Web!HandleListenerClose(c) = Shut(c) /\ Web!HandleServerClose(c) = Shut(c)
  BY DEF Web!HandleListenerClose, Web!HandleServerClose, Web!Shut, Shut
<1>3. ASSUME c.role = "client"
      PROVE  WebFinished(c, Web!HandleClientClose(c))
  <2>1. CASE c.st = "CONNECTING"
    <3>1. Web!HandleClientClose(c) = Shut(Tell(c, "FAIL", 0))
      BY <2>1 DEF Web!HandleClientClose, Web!NotifyConnect, Web!Tell, Web!Note, Web!Shut, Shut, Tell, Note
    <3>2. QED
      BY <2>1, <3>1, WebFails
  <2>2. CASE c.st = "TRANS" /\ c.pr.step = "BODY" /\ c.pr.toeof /\ Web!Held(c)
    <3>1. Web!HandleClientClose(c) = Shut(Web!Deliver(c))
      BY <2>2 DEF Web!HandleClientClose, Web!Shut, Shut
    <3>2. QED
      BY <1>3, <2>2, <3>1, WebEndsMessage DEF Web!Held
  <2>3. CASE c.st # "CONNECTING" /\ ~(c.st = "TRANS" /\ c.pr.step = "BODY" /\ c.pr.toeof /\ Web!Held(c))
    <3>1. Web!HandleClientClose(c) = Shut(c)
      BY <2>3 DEF Web!HandleClientClose, Web!Shut, Shut
    <3>2. QED
      BY <1>1, <3>1
  <2>4. QED
    BY <2>1, <2>2, <2>3
<1>4. QED
  BY <1>1, <1>2, <1>3

\* jetnet_http_handle_connect.
LEMMA WebConnected ==
  ASSUME NEW c, NEW ok \in BOOLEAN, WebInv(c), c.st = "CONNECTING"
  PROVE  WebFinished(c, Web!HandleConnect(c, ok))
<1>1. Web!HandleConnect(c, ok) = IF ok THEN Tell([c EXCEPT !.st = "TRANS"], "CONNECT", 0) ELSE Shut(Tell(c, "FAIL", 0))
  BY DEF Web!HandleConnect, Web!NotifyConnect, Web!Tell, Web!Note, Web!Shut, Shut, Tell, Note
<1>2. QED
  BY <1>1, WebFails, WebOpens

\* A step that is nothing to an http connection's parser or owner.
LEMMA WebStays ==
  ASSUME NEW c, NEW d \in WebConn, WebInv(c), c.st # "CLOSE",
         d.proto = c.proto, d.role = c.role, d.st = c.st, d.pr = c.pr, d.linked = c.linked,
         d.rbl = c.rbl, d.told = c.told, d.came = c.came, d.up = c.up, d.bye = c.bye
  PROVE  WebInv(d) /\ Still(c, d)
<1>1. /\ c \in WebConn /\ Flows(c.came) /\ c.came \in Seq(Unit) /\ Parses(c, 0) /\ AtRest(c) /\ Common(c)
      /\ \A k \in 1 .. Len(Got(c)) : IsWhole(c, k)
  BY WebFields DEF WebInv
<1>2. Got(d) = Got(c) /\ (\A k \in 1 .. Len(Got(d)) : IsWhole(d, k)) /\ Begins(d) = Begins(c)
  BY <1>1, ReachesSelf, AllStayWhole, AlikeTaken
<1>3. Parses(d, 0) /\ AtRest(d)
  BY <1>1, <1>2 DEF AtRest, Parses, At
<1>4. Common(d)
  BY <1>1 DEF Common
<1>5. (d.role = "server" /\ d.told # <<>> => Got(d) # <<>>) /\ (d.st \notin {"TRANS", "CLOSE"} => d.told = <<>>)
  BY <1>2 DEF WebInv
<1>6. WebInv(d)
  BY <1>1, <1>2, <1>3, <1>4, <1>5 DEF WebInv
<1>7. QED
  BY <1>6 DEF Still

\* jetnet_net_send, on http.
LEMMA WebSends ==
  ASSUME NEW c, NEW d, NEW seq \in 0 .. MaxSend, NEW k \in 0 .. MaxSend, WebInv(c), c.st # "CLOSE",
         d = [c EXCEPT !.sent = k] \/ d = [[c EXCEPT !.wbl = Append(@, seq)] EXCEPT !.sent = k]
  PROVE  WebInv(d) /\ Still(c, d)
<1>1. c \in WebConn /\ c.wbl \in Seq(0 .. MaxSend)
  BY WebFields DEF WebInv
<1>2. PICK w : w = Append(c.wbl, seq)
  OBVIOUS
<1>3. w \in Seq(0 .. MaxSend)
  BY <1>1, <1>2
<1>4. PICK v \in {c.wbl, w} : d = [c EXCEPT !.wbl = v, !.sent = k]
  <2>1. [c EXCEPT !.sent = k] = [c EXCEPT !.wbl = c.wbl, !.sent = k]
    BY <1>1 DEF WebConn, Conns
  <2>2. [[c EXCEPT !.wbl = Append(@, seq)] EXCEPT !.sent = k] = [c EXCEPT !.wbl = w, !.sent = k]
    BY <1>1, <1>2 DEF WebConn, Conns
  <2>3. QED
    BY <2>1, <2>2
<1>5. v \in Seq(0 .. MaxSend)
  BY <1>1, <1>3
<1>6. /\ d \in WebConn /\ d.proto = c.proto /\ d.role = c.role /\ d.st = c.st /\ d.pr = c.pr
      /\ d.linked = c.linked /\ d.rbl = c.rbl /\ d.told = c.told /\ d.came = c.came
      /\ d.up = c.up /\ d.bye = c.bye
  BY <1>1, <1>4, <1>5 DEF WebConn, Conns
<1>7. QED
  BY <1>6, WebStays

\* No connection is linked to be kept alive: when its owner may answer, the parser
\* was reset, and should_keep_alive with it.
LEMMA NeverLinked ==
  ASSUME NEW c, WebInv(c), c.st # "CLOSE", c.role # "server" \/ c.told # <<>>
  PROVE  [c EXCEPT !.linked = Web!Linked(c)] = c
<1>1. c \in WebConn /\ ~c.linked /\ c.linked \in BOOLEAN /\ Parses(c, 0) /\ AtRest(c)
  BY WebFields DEF WebInv, Common
<1>2. ~(c.role = "server" /\ c.pr.keep)
  <2>1. ASSUME c.role = "server"
        PROVE  ~c.pr.keep
    <3>1. Got(c) # <<>>
      BY <2>1 DEF WebInv
    <3>2. c.pr.step # "ERROR"
      BY <1>1 DEF AtRest, Going
    <3>3. QED
      BY <1>1, <3>1, <3>2 DEF Parses, Over
  <2>2. QED
    BY <2>1
<1>3. PICK l \in BOOLEAN : l = Web!Linked(c)
  BY <1>1 DEF Web!Linked
<1>4. l = c.linked
  BY <1>1, <1>2, <1>3 DEF Web!Linked
<1>5. [c EXCEPT !.linked = l] = c
  BY <1>1, <1>4 DEF WebConn, Conns
<1>6. QED
  BY <1>3, <1>5, Zenon

\* A write buffer goes out.
LEMMA WebFlushes ==
  ASSUME NEW c, NEW d, WebInv(c), c.st # "CLOSE", c.wbl # <<>>, d = [c EXCEPT !.wbl = Tail(@)]
  PROVE  WebInv(d) /\ Still(c, d)
<1>1. c \in WebConn /\ c.wbl \in Seq(0 .. MaxSend)
  BY WebFields DEF WebInv
<1>2. PICK w : w = Tail(c.wbl)
  OBVIOUS
<1>3. w \in Seq(0 .. MaxSend)
  <2>1. PICK s, Q : s = c.wbl /\ Q = 0 .. MaxSend
    OBVIOUS
  <2>2. s \in Seq(Q) /\ s # <<>> /\ w = Tail(s)
    BY <1>1, <1>2, <2>1
  <2>3. w \in Seq(Q)
    BY ONLY <2>2
  <2>4. QED
    BY <2>1, <2>3
<1>4. d = [c EXCEPT !.wbl = w]
  BY <1>1, <1>2 DEF WebConn, Conns
<1>5. /\ d \in WebConn /\ d.proto = c.proto /\ d.role = c.role /\ d.st = c.st /\ d.pr = c.pr
      /\ d.linked = c.linked /\ d.rbl = c.rbl /\ d.told = c.told /\ d.came = c.came
      /\ d.up = c.up /\ d.bye = c.bye
  BY <1>1, <1>3, <1>4 DEF WebConn, Conns
<1>6. QED
  BY <1>5, WebStays

\* Time goes by.
LEMMA WebExpires ==
  ASSUME NEW c, NEW d, WebInv(c), c.st # "CLOSE", d = [c EXCEPT !.old = TRUE]
  PROVE  WebInv(d) /\ Still(c, d)
<1>1. c \in WebConn
  BY DEF WebInv
<1>2. /\ d \in WebConn /\ d.proto = c.proto /\ d.role = c.role /\ d.st = c.st /\ d.pr = c.pr
      /\ d.linked = c.linked /\ d.rbl = c.rbl /\ d.told = c.told /\ d.came = c.came
      /\ d.up = c.up /\ d.bye = c.bye
  BY <1>1 DEF WebConn, Conns
<1>3. QED
  BY <1>2, WebStays

-----------------------------------------------------------------------------
(* New http connections.                                                   *)

\* A new http connection in one of the states it begins with.
LEMMA WebNew ==
  ASSUME "http" \in Proto, NEW role \in {"listener", "client", "server"},
         NEW st \in States \ {"CLOSE"},
         NEW full \in BOOLEAN, st \in Stages("http", role), role = "listener" => st # "TRANS",
         NEW c, c = Web!NewConnection("http", role, st, Web!Parser0(full))
  PROVE  WebInv(c) /\ Starts(c)
<1>1. PICK proto, P, p : proto = "http" /\ P = {"http"} \cap Proto /\ p = Web!Parser0(full)
  OBVIOUS
<1>2. p \in WebParser /\ p.step = "NONE" /\ p.off = 0 /\ p.body = 0 /\ ~p.keep /\ ~p.paused
      /\ p.size = "right" /\ ~p.twice
  BY <1>1 DEF WebParser, Web!Parser0
<1>3. c = NewConnection(proto, role, st, p) /\ proto \in P /\ WebConn = Conns(P, WebParser)
  BY <1>1 DEF Web!NewConnection, NewConnection, WebConn
<1>4. /\ c \in WebConn /\ c.proto = proto /\ c.role = role /\ c.st = st /\ c.pr = p
      /\ c.rbl = <<>> /\ c.came = <<>> /\ c.told = <<>> /\ c.wbl = <<>> /\ c.sent = 0
      /\ ~c.linked /\ ~c.bye /\ c.up
  BY <1>2, <1>3, NewFields
<1>5. Common(c)
  BY <1>1, <1>4 DEF Common
<1>6. Got(c) = <<>>
  BY <1>4, ToldNothing DEF Got
<1>7. Begins(c) = 0
  <2>1. Got(c) \in Seq(AnyNote) /\ Len(Got(c)) = 0
    BY <1>4, <1>6, WebFields
  <2>2. QED
    BY <2>1, TakenZero DEF Begins
<1>8. Parses(c, 0)
  <2>1. PICK e : e = <<>>
    OBVIOUS
  <2>2. Len(e) = 0 /\ SubSeq(e, 1, 0) = <<>>
    BY <2>1
  <2>3. p.body = Bodies(SubSeq(e, 1, 0))
    BY <1>2, <2>2, BodiesAre
  <2>4. Once(e, p, 0) /\ Holds(e, e, 0)
    BY <1>2, <2>2, <2>3 DEF Once, Holds
  <2>5. p.step \notin Going /\ p.step \notin Sized
    BY <1>2 DEF Going, Sized
  <2>6. Over(e, e, 0, p, Got(c) # <<>>, 0)
    BY <1>2, <1>6, <2>2, <2>4, <2>5 DEF Over
  <2>7. At(c, 0) = 0
    BY <1>2, <1>4 DEF At
  <2>8. QED
    BY <1>4, <1>7, <2>1, <2>6, <2>7 DEF Parses
<1>9. AtRest(c)
  BY <1>2, <1>4 DEF AtRest, At
<1>10. Flows(c.came) /\ \A k \in 1 .. Len(Got(c)) : IsWhole(c, k)
  BY <1>4, <1>6 DEF Flows
<1>11. WebInv(c)
  BY <1>4, <1>5, <1>8, <1>9, <1>10 DEF WebInv
<1>12. QED
  BY <1>4, <1>11 DEF Starts

\* The new connections of http.
LEMMA WebBegins ==
  ASSUME "http" \in Proto, NEW atonce \in BOOLEAN, NEW full \in BOOLEAN
  PROVE  /\ WebInv(Web!Listen) /\ Starts(Web!Listen)
         /\ WebInv(Web!Connect(atonce, full)) /\ Starts(Web!Connect(atonce, full))
         /\ WebInv(Web!HandleAccept(full)) /\ Starts(Web!HandleAccept(full))
<1>1. \A role \in {"listener", "client", "server"}, st \in States \ {"CLOSE"}, f \in BOOLEAN :
        st \in Stages("http", role) /\ (role = "listener" => st # "TRANS")
        => \A c : c = Web!NewConnection("http", role, st, Web!Parser0(f)) => WebInv(c) /\ Starts(c)
  BY WebNew
<1>2. WebInv(Web!Listen) /\ Starts(Web!Listen)
  <2>1. PICK role, st, f : role = "listener" /\ st = "LISTEN" /\ f = FALSE
    OBVIOUS
  <2>2. Web!Listen = Web!NewConnection("http", role, st, Web!Parser0(f))
    BY <2>1 DEF Web!Listen
  <2>3. st \in States \ {"CLOSE"} /\ st \in Stages("http", role) /\ (role = "listener" => st # "TRANS")
        /\ role \in {"listener", "client", "server"} /\ f \in BOOLEAN
    BY <2>1 DEF States, Stages
  <2> HIDE <2>1
  <2>4. QED
    BY <1>1, <2>2, <2>3
<1>3. WebInv(Web!Connect(atonce, full)) /\ Starts(Web!Connect(atonce, full))
  <2>1. PICK role, st : role = "client" /\ st = IF atonce THEN "TRANS" ELSE "CONNECTING"
    OBVIOUS
  <2>2. Web!Connect(atonce, full) = Web!NewConnection("http", role, st, Web!Parser0(full))
    BY <2>1 DEF Web!Connect
  <2>3. st \in States \ {"CLOSE"} /\ st \in Stages("http", role) /\ (role = "listener" => st # "TRANS")
        /\ role \in {"listener", "client", "server"}
    BY <2>1 DEF States, Stages
  <2> HIDE <2>1
  <2>4. QED
    BY <1>1, <2>2, <2>3
<1>4. WebInv(Web!HandleAccept(full)) /\ Starts(Web!HandleAccept(full))
  <2>1. PICK role, st : role = "server" /\ st = "TRANS"
    OBVIOUS
  <2>2. Web!HandleAccept(full) = Web!NewConnection("http", role, st, Web!Parser0(full))
    BY <2>1 DEF Web!HandleAccept
  <2>3. st \in States \ {"CLOSE"} /\ st \in Stages("http", role) /\ (role = "listener" => st # "TRANS")
        /\ role \in {"listener", "client", "server"}
    BY <2>1 DEF States, Stages
  <2> HIDE <2>1
  <2>4. QED
    BY <1>1, <2>2, <2>3
<1>5. QED
  BY <1>2, <1>3, <1>4

-----------------------------------------------------------------------------
(* A connection of any protocol.                                           *)

\* After a handler, for any protocol.
ConnFinished(b, c) == ConnInv(c) /\ Moves(b, c)

\* What the invariant says of a connection of any protocol.
LEMMA ConnIs ==
  ASSUME NEW c, ConnInv(c)
  PROVE  /\ c.proto \in {"tcpsac", "tcppkg", "http"} /\ c.proto \in Proto
         /\ c.role \in {"listener", "client", "server"}
         /\ ~c.linked /\ c.up = (c.st # "CLOSE") /\ c.up \in BOOLEAN /\ c.bye \in BOOLEAN
         /\ c.st \in States /\ c.told \in Seq(AnyNote) /\ c.wbl \in Seq(0 .. MaxSend) /\ c.linked \in BOOLEAN
         /\ c.proto = "http" => WebInv(c)
         /\ c.proto # "http" => PkgInv(c)
<1>1. CASE PkgInv(c)
  BY <1>1, PkgFields DEF PkgInv, Common
<1>2. CASE WebInv(c)
  BY <1>2, WebFields DEF WebInv, Common
<1>3. QED
  BY <1>1, <1>2 DEF ConnInv

\* jetnet_net_listen and jetnet_net_connect.
LEMMA ConnStarts ==
  ASSUME NEW p \in Proto, NEW atonce \in BOOLEAN, NEW out \in Outcome, NEW full \in BOOLEAN,
         NEW c, \/ c = CASE p = "tcpsac" -> Sac!Listen
                          [] p = "tcppkg" -> Pkg!Listen
                          [] p = "http" -> Web!Listen
                \/ c = CASE p = "tcpsac" -> Sac!Connect(atonce)
                          [] p = "tcppkg" -> Pkg!Connect(atonce, out)
                          [] p = "http" -> Web!Connect(atonce, full)
  PROVE  ConnInv(c) /\ Starts(c)
<1>1. CASE p = "tcpsac"
  <2>1. PkgInv(c) /\ Starts(c)
    BY <1>1, SacBegins
  <2>2. QED
    BY <2>1 DEF ConnInv
<1>2. CASE p = "tcppkg"
  <2>1. PkgInv(c) /\ Starts(c)
    BY <1>2, PkgAsks, PkgTakes
  <2>2. QED
    BY <2>1 DEF ConnInv
<1>3. CASE p = "http"
  <2>1. WebInv(c) /\ Starts(c)
    BY <1>3, WebBegins
  <2>2. QED
    BY <2>1 DEF ConnInv
<1>4. QED
  BY <1>1, <1>2, <1>3, NetAssumption

\* An accepted socket, at the end of the poll that accepted it.
LEMMA ConnTakes ==
  ASSUME NEW b, ConnInv(b), NEW full \in BOOLEAN,
         NEW c, c = CASE b.proto = "tcpsac" -> Sac!HandleAccept
                      [] b.proto = "tcppkg" -> Pkg!HandleAccept
                      [] b.proto = "http" -> Web!HandleAccept(full)
  PROVE  ConnInv(Polled(c)) /\ Starts(Polled(c))
<1>1. b.proto \in {"tcpsac", "tcppkg", "http"} /\ b.proto \in Proto
  BY ConnIs
<1>2. CASE b.proto = "tcpsac"
  <2>1. PkgInv(c) /\ Starts(c)
    BY <1>1, <1>2, SacBegins
  <2>2. Polled(c) = c
    BY <2>1, PolledSame DEF Starts
  <2>3. QED
    BY <2>1, <2>2 DEF ConnInv
<1>3. CASE b.proto = "tcppkg"
  <2>1. PICK d : d = Polled(Pkg!HandleAccept) /\ PkgInv(d) /\ Starts(d)
    BY <1>1, <1>3, PkgTakes
  <2>2. d = Polled(c)
    BY <1>3, <2>1
  <2>3. QED
    BY <2>1, <2>2 DEF ConnInv
<1>4. CASE b.proto = "http"
  <2>1. WebInv(c) /\ Starts(c)
    BY <1>1, <1>4, WebBegins
  <2>2. Polled(c) = c
    BY <2>1, PolledSame DEF Starts
  <2>3. QED
    BY <2>1, <2>2 DEF ConnInv
<1>5. QED
  BY <1>1, <1>2, <1>3, <1>4

\* jetnet_net_send.
LEMMA ConnSends ==
  ASSUME NEW c, NEW d, NEW seq \in 0 .. MaxSend, NEW k \in 0 .. MaxSend, NEW out, ConnInv(c), c.up,
         c.role # "server" \/ c.told # <<>>, d = [SendBy(c, seq, out) EXCEPT !.sent = k]
  PROVE  ConnInv(d) /\ Still(c, d)
<1>1. c.st # "CLOSE" /\ c.proto \in {"tcpsac", "tcppkg", "http"}
  BY ConnIs
<1>2. CASE c.proto = "http"
  <2>1. WebInv(c)
    BY <1>2, ConnIs
  <2>2. [c EXCEPT !.linked = Web!Linked(c)] = c
    BY <1>1, <2>1, NeverLinked
  <2>3. SendBy(c, seq, out) = Web!Send(c, seq, out)
    BY <1>2 DEF SendBy
  <2>4. SendBy(c, seq, out) \in {c, [c EXCEPT !.wbl = Append(@, seq)]}
    BY <2>2, <2>3 DEF Web!Send, Web!Write
  <2>5. d = [c EXCEPT !.sent = k] \/ d = [[c EXCEPT !.wbl = Append(@, seq)] EXCEPT !.sent = k]
    BY <2>4
  <2>6. QED
    BY <1>1, <2>1, <2>5, WebSends DEF ConnInv
<1>3. CASE c.proto # "http"
  <2>1. PkgInv(c)
    BY <1>3, ConnIs
  <2>2. \/ SendBy(c, seq, out) = c
        \/ c.st = "TRANS" /\ SendBy(c, seq, out) = [c EXCEPT !.wbl = Append(@, seq)]
    <3>1. CASE c.proto = "tcpsac"
      BY <3>1 DEF SendBy, Sac!Send, Sac!CanSend, Sac!Write
    <3>2. CASE c.proto = "tcppkg"
      BY <3>2 DEF SendBy, Pkg!Send, Pkg!CanSend, Pkg!Write
    <3>3. QED
      BY <1>1, <1>3, <3>1, <3>2
  <2>3. \/ d = [c EXCEPT !.sent = k]
        \/ c.st = "TRANS" /\ d = [[c EXCEPT !.wbl = Append(@, seq)] EXCEPT !.sent = k]
    BY <2>2
  <2>4. QED
    BY <1>1, <2>1, <2>3, PkgSends DEF ConnInv
<1>4. QED
  BY <1>2, <1>3

\* jetnet_net_close.
LEMMA ConnHangsUp ==
  ASSUME NEW c, NEW d, ConnInv(c), c.up, d = [(CASE c.proto = "tcpsac" -> Sac!Close(c)
                                                 [] c.proto = "tcppkg" -> Pkg!Close(c)
                                                 [] c.proto = "http" -> Web!Close(c)) EXCEPT !.bye = TRUE]
  PROVE  ConnInv(d) /\ Hung(c, d)
<1>1. c.st # "CLOSE" /\ c.proto \in {"tcpsac", "tcppkg", "http"}
  BY ConnIs
<1>2. Sac!Close(c) = Shut(c) /\ Pkg!Close(c) = Shut(c) /\ Web!Close(c) = Shut(c)
  BY DEF Sac!Close, Pkg!Close, Web!Close, Sac!Shut, Pkg!Shut, Web!Shut, Shut
<1>3. d = [Shut(c) EXCEPT !.bye = TRUE]
  BY <1>1, <1>2
<1>4. QED
  BY <1>1, <1>3, ConnIs, PkgHangsUp, WebHangsUp DEF ConnInv

\* A write buffer goes out.
LEMMA ConnFlushes ==
  ASSUME NEW c, NEW d, ConnInv(c), c.up, c.wbl # <<>>, d = [c EXCEPT !.wbl = Tail(@)]
  PROVE  ConnInv(d) /\ Still(c, d)
<1>1. c.st # "CLOSE"
  BY ConnIs
<1>2. QED
  BY <1>1, ConnIs, PkgFlushes, WebFlushes DEF ConnInv

\* Time goes by.
LEMMA ConnExpires ==
  ASSUME NEW c, NEW d, ConnInv(c), c.up, d = [c EXCEPT !.old = TRUE]
  PROVE  ConnInv(d) /\ Still(c, d)
<1>1. c.st # "CLOSE"
  BY ConnIs
<1>2. QED
  BY <1>1, ConnIs, PkgExpires, WebExpires DEF ConnInv

\* The end of a connect, dispatched to the protocol.
LEMMA ConnConnects ==
  ASSUME NEW c, NEW d, NEW ok \in BOOLEAN, NEW out \in Outcome, ConnInv(c), c.st = "CONNECTING",
         d = CASE c.proto = "tcpsac" -> Sac!HandleConnect(c, ok)
               [] c.proto = "tcppkg" -> Pkg!HandleConnect(c, ok, out)
               [] c.proto = "http" -> Web!HandleConnect(c, ok)
  PROVE  ConnFinished(c, d)
<1>1. c.proto \in {"tcpsac", "tcppkg", "http"}
  BY ConnIs
<1>2. CASE c.proto = "tcpsac"
  <2>1. Finished(c, d)
    BY <1>2, ConnIs, SacConnected
  <2>2. QED
    BY <2>1 DEF Finished, ConnFinished, ConnInv
<1>3. CASE c.proto = "tcppkg"
  <2>1. Finished(c, d)
    BY <1>3, ConnIs, PkgConnected
  <2>2. QED
    BY <2>1 DEF Finished, ConnFinished, ConnInv
<1>4. CASE c.proto = "http"
  <2>1. WebFinished(c, d)
    BY <1>4, ConnIs, WebConnected
  <2>2. QED
    BY <2>1 DEF WebFinished, ConnFinished, ConnInv
<1>5. QED
  BY <1>1, <1>2, <1>3, <1>4

\* What was read, dispatched to the protocol and role.
LEMMA ConnReceives ==
  ASSUME NEW c, NEW d \in Reads(c), NEW out \in Outcome, ConnInv(c), c.up, c.role # "listener",
         c.st # "CONNECTING"
  PROVE  ConnFinished(c, Received(c, d, out))
<1>1. c.proto \in {"tcpsac", "tcppkg", "http"} /\ c.role \in {"client", "server"} /\ c.st # "CLOSE"
  BY ConnIs
<1>2. PICK f : f = SubSeq(d.rbl, Len(c.rbl) + 1, Len(d.rbl))
  OBVIOUS
<1>3. PICK e : e = Received(c, d, out)
  OBVIOUS
<1>4. CASE c.proto = "tcpsac"
  <2>1. PkgInv(c) /\ ReadOf(c, d)
    BY <1>1, <1>4, ConnIs, LiveOf, PkgReads
  <2>2. Finished(c, Sac!HandleClientRecv(d)) /\ Finished(c, Sac!HandleServerRecv(d))
    BY <1>1, <1>4, <2>1, SacReceived
  <2>3. Finished(c, e)
    BY <1>1, <1>3, <1>4, <2>2 DEF Received
  <2>4. QED
    BY <1>3, <2>3 DEF Finished, ConnFinished, ConnInv
<1>5. CASE c.proto = "tcppkg"
  <2>1. PkgInv(c) /\ ReadOf(c, d)
    BY <1>1, <1>5, ConnIs, LiveOf, PkgReads
  <2>2. /\ c.role = "client" => Finished(c, Pkg!HandleClientRecv(d))
        /\ c.role = "server" => Finished(c, Pkg!HandleServerRecv(d, out))
    BY <1>1, <1>5, <2>1, PkgReceived
  <2>3. Finished(c, e)
    BY <1>1, <1>3, <1>5, <2>2 DEF Received
  <2>4. QED
    BY <1>3, <2>3 DEF Finished, ConnFinished, ConnInv
<1>6. CASE c.proto = "http"
  <2>1. WebInv(c) /\ c.st = "TRANS"
    BY <1>1, <1>6, ConnIs DEF WebInv, Common, Stages
  <2>2. WebFinished(c, Web!HandleClientRecv(d, f)) /\ WebFinished(c, Web!HandleServerRecv(d, f))
    BY <1>2, <2>1, WebReceived
  <2>3. e = Web!HandleClientRecv(d, f) \/ e = Web!HandleServerRecv(d, f)
    BY <1>1, <1>2, <1>3, <1>6 DEF Received
  <2>4. WebFinished(c, e)
    BY <2>2, <2>3
  <2>5. QED
    BY <1>3, <2>4 DEF WebFinished, ConnFinished, ConnInv
<1>7. QED
  BY <1>1, <1>4, <1>5, <1>6

\* The close of the network, dispatched to the protocol and role.
LEMMA ConnCloses ==
  ASSUME NEW c, ConnInv(c), c.up
  PROVE  ConnFinished(c, Closed(c))
<1>1. c.proto \in {"tcpsac", "tcppkg", "http"} /\ c.role \in {"listener", "client", "server"} /\ c.st # "CLOSE"
  BY ConnIs
<1>2. PICK e : e = Closed(c)
  OBVIOUS
<1>3. CASE c.proto = "tcpsac"
  <2>1. Finished(c, e)
    BY <1>1, <1>2, <1>3, ConnIs, SacClosed DEF Closed
  <2>2. QED
    BY <1>2, <2>1 DEF Finished, ConnFinished, ConnInv
<1>4. CASE c.proto = "tcppkg"
  <2>1. Finished(c, e)
    BY <1>1, <1>2, <1>4, ConnIs, PkgClosed DEF Closed
  <2>2. QED
    BY <1>2, <2>1 DEF Finished, ConnFinished, ConnInv
<1>5. CASE c.proto = "http"
  <2>1. WebInv(c)
    BY <1>5, ConnIs
  <2>2. WebFinished(c, e)
    BY <1>1, <1>2, <1>5, <2>1, WebClosed DEF Closed
  <2>3. QED
    BY <1>2, <2>2 DEF WebFinished, ConnFinished, ConnInv
<1>6. QED
  BY <1>1, <1>3, <1>4, <1>5

-----------------------------------------------------------------------------
(* The steps of the service, as the owners see them.                       *)

\* Connection id becomes d, and no other changes.
Becomes(id, d) ==
  /\ id \in DOMAIN conn /\ DOMAIN conn' = DOMAIN conn /\ conn'[id] = d
  /\ \A i \in DOMAIN conn \ {id} : conn'[i] = conn[i]

\* A connection more.
Gains(d) ==
  /\ DOMAIN conn' = DOMAIN conn \cup {Fresh} /\ conn'[Fresh] = d
  /\ \A i \in DOMAIN conn : conn'[i] = conn[i]

\* The invariant is that of each connection.
LEMMA StaysInv ==
  ASSUME NetInv, DOMAIN conn' = DOMAIN conn, \A i \in DOMAIN conn : ConnInv(conn'[i])
  PROVE  NetInv'
<1>1. Fresh' = Fresh
  BY DEF Fresh
<1>2. QED
  BY <1>1 DEF NetInv

\* One connection changes.
LEMMA BecomesInv ==
  ASSUME NetInv, NEW id, NEW d, Becomes(id, d), ConnInv(d)
  PROVE  NetInv'
<1>1. \A i \in DOMAIN conn : ConnInv(conn'[i])
  BY DEF NetInv, Becomes
<1>2. QED
  BY <1>1, StaysInv DEF Becomes

\* One connection more, with a new id.
LEMMA GainsInv ==
  ASSUME NetInv, NEW d, Gains(d), ConnInv(d)
  PROVE  NetInv' /\ Fresh \notin DOMAIN conn
<1>1. PICK n \in Nat : n = Fresh /\ DOMAIN conn = 0 .. n - 1
  BY DEF NetInv
<1>2. DOMAIN conn' = 0 .. n
  BY <1>1 DEF Gains
<1>3. Fresh' = n + 1
  <2>1. Cardinality(0 .. n) = n + 1
    BY <1>1, FS_Interval
  <2>2. QED
    BY <1>2, <2>1 DEF Fresh
<1>4. \A i \in DOMAIN conn' : ConnInv(conn'[i])
  BY DEF NetInv, Gains
<1>5. NetInv'
  BY <1>1, <1>2, <1>3, <1>4 DEF NetInv
<1>6. QED
  BY <1>1, <1>5

\* What the owners see.
LEMMA PhaseBy ==
  ASSUME NEW c, NEW d, d.st = c.st
  PROVE  Phase(d) = Phase(c)
BY DEF Phase

\* Nothing an owner sees has changed.
LEMMA StillSeen ==
  ASSUME DOMAIN conn' = DOMAIN conn, \A i \in DOMAIN conn : Still(conn[i], conn'[i])
  PROVE  UNCHANGED S!svars
<1>1. \A i \in DOMAIN conn : Phase(conn'[i]) = Phase(conn[i])
  BY PhaseBy DEF Still
<1>2. [i \in DOMAIN conn' |-> Phase(conn'[i])] = [i \in DOMAIN conn |-> Phase(conn[i])]
  BY <1>1
<1>3. [i \in DOMAIN conn' |-> conn'[i].told] = [i \in DOMAIN conn |-> conn[i].told]
  BY DEF Still
<1>4. {i \in DOMAIN conn' : conn'[i].bye} = {i \in DOMAIN conn : conn[i].bye}
  BY DEF Still
<1>5. {i \in DOMAIN conn' : Is(i, "http")'} = {i \in DOMAIN conn : Is(i, "http")}
  BY DEF Still, Is
<1>6. QED
  BY <1>2, <1>3, <1>4, <1>5 DEF S!svars

\* The owner closed its connection.
LEMMA HungSeen ==
  ASSUME NEW id, NEW d, Becomes(id, d), Hung(conn[id], d), conn[id].st \in States
  PROVE  S!HangUp(id)
<1>1. \A i \in DOMAIN conn \ {id} : Phase(conn'[i]) = Phase(conn[i])
  BY PhaseBy DEF Becomes
<1>2. Phase(conn[id]) # "over" /\ Phase(conn'[id]) = "over"
  BY PhaseOf DEF Becomes, Hung, Phase, States
<1>3. [i \in DOMAIN conn' |-> Phase(conn'[i])] = [[i \in DOMAIN conn |-> Phase(conn[i])] EXCEPT ![id] = "over"]
  BY <1>1, <1>2 DEF Becomes
<1>4. [i \in DOMAIN conn' |-> conn'[i].told] = [i \in DOMAIN conn |-> conn[i].told]
  BY DEF Becomes, Hung
<1>5. {i \in DOMAIN conn' : conn'[i].bye} = {i \in DOMAIN conn : conn[i].bye} \cup {id}
  BY DEF Becomes, Hung
<1>6. {i \in DOMAIN conn' : Is(i, "http")'} = {i \in DOMAIN conn : Is(i, "http")}
  BY DEF Becomes, Hung, Is
<1>7. [i \in DOMAIN conn |-> Phase(conn[i])][id] # "over"
  BY <1>2 DEF Becomes
<1>8. QED
  BY <1>3, <1>4, <1>5, <1>6, <1>7 DEF S!HangUp

\* What is behind s in s \o x.
LEMMA Appended ==
  ASSUME NEW E, NEW s \in Seq(E), NEW x \in Seq(E), NEW t, t = s \o x
  PROVE  /\ SubSeq(t, Len(s) + 1, Len(t)) = x
         /\ Len(s) <= Len(t) /\ SubSeq(s, 1, Len(s)) = SubSeq(t, 1, Len(s))
<1>1. PICK m, n : m = Len(s) /\ n = Len(x)
  OBVIOUS
<1>2. /\ t \in Seq(E) /\ m \in Nat /\ n \in Nat /\ Len(t) = m + n
      /\ (\A i \in 1 .. m : t[i] = s[i]) /\ (\A i \in 1 .. n : t[m + i] = x[i])
  BY <1>1
<1>3. SubSeq(t, m + 1, m + n) = x
  <2>1. PICK q, a, b : q = SubSeq(t, m + 1, m + n) /\ a = m + 1 /\ b = m + n
    OBVIOUS
  <2>2. a \in 1 .. Len(t) + 1 /\ b \in a - 1 .. Len(t) /\ q = SubSeq(t, a, b)
    BY <1>2, <2>1
  <2>3. q \in Seq(E) /\ Len(q) = b - a + 1 /\ \A i \in 1 .. b - a + 1 : q[i] = t[a + i - 1]
    BY ONLY <1>2, <2>2, SubSeqProperties
  <2>4. b - a + 1 = n /\ \A i \in 1 .. n : a + i - 1 = m + i
    BY <1>2, <2>1
  <2>5. Len(q) = n /\ \A i \in 1 .. n : q[i] = x[i]
    BY <1>2, <2>3, <2>4
  <2>6. q = x
    BY <1>1, <2>3, <2>5, SMTT(30)
  <2>7. QED
    BY <2>1, <2>6
<1>4. SubSeq(s, 1, m) = SubSeq(t, 1, m)
  <2>1. \A i \in 1 .. m - 0 : s[0 + i] = t[0 + i]
    BY <1>2
  <2>2. m - 0 = m /\ 0 + 1 = 1 /\ 0 + (m - 0) = m /\ 0 \in Nat /\ m <= Len(s) /\ m - 0 <= Len(t) - 0
    BY <1>1, <1>2
  <2>3. SubSeq(s, 0 + 1, m) = SubSeq(t, 0 + 1, 0 + (m - 0))
    BY <1>2, <2>1, <2>2, PartSame
  <2>4. QED
    BY <2>2, <2>3
<1>5. Len(s) <= Len(t)
  BY <1>1, <1>2
<1>6. SubSeq(t, Len(s) + 1, Len(t)) = x
  BY ONLY <1>1, <1>2, <1>3, Zenon
<1>7. SubSeq(s, 1, Len(s)) = SubSeq(t, 1, Len(s))
  BY ONLY <1>1, <1>4, Zenon
<1>8. QED
  BY <1>5, <1>6, <1>7, Zenon

\* What a handler tells is a step of the owner's session.
LEMMA HeardSeen ==
  ASSUME NEW id, NEW d, Becomes(id, d), ConnInv(conn[id]), Moves(conn[id], d)
  PROVE  S!Hears(id)
<1>1. PICK at \in Ats \ {"wrong", "ending"} :
        /\ Tells(conn[id], d, at)
        /\ Phase(d) = at \/ (Phase(d) = "over" /\ (at = "offered" \/ conn[id].proto = "http"))
  BY DEF Moves
<1>2. PICK new \in Seq(AnyNote) : d.told = conn[id].told \o new /\ S!AfterAll(Phase(conn[id]), new) = at
  BY <1>1 DEF Tells
<1>3. conn[id].told \in Seq(AnyNote)
  BY ConnIs
<1>4. /\ SubSeq(d.told, Len(conn[id].told) + 1, Len(d.told)) = new
      /\ S!IsPrefix(conn[id].told, d.told)
  <2>1. PICK s, t : s = conn[id].told /\ t = d.told
    OBVIOUS
  <2>2. s \in Seq(AnyNote) /\ t = s \o new
    BY <1>2, <1>3, <2>1
  <2>3. /\ SubSeq(t, Len(s) + 1, Len(t)) = new
        /\ Len(s) <= Len(t) /\ SubSeq(s, 1, Len(s)) = SubSeq(t, 1, Len(s))
    BY ONLY <2>2, Appended
  <2>4. QED
    BY <2>1, <2>3 DEF S!IsPrefix
<1>5. PICK L, M, P, Q : /\ L = [i \in DOMAIN conn |-> conn[i].told] /\ M = [i \in DOMAIN conn' |-> conn'[i].told]
                        /\ P = [i \in DOMAIN conn |-> Phase(conn[i])] /\ Q = [i \in DOMAIN conn' |-> Phase(conn'[i])]
  OBVIOUS
<1>6. /\ DOMAIN M = DOMAIN L /\ DOMAIN Q = DOMAIN P /\ DOMAIN L = DOMAIN conn
      /\ L[id] = conn[id].told /\ M[id] = d.told /\ P[id] = Phase(conn[id]) /\ Q[id] = Phase(d)
      /\ \A i \in DOMAIN conn \ {id} : M[i] = L[i] /\ Q[i] = P[i]
  BY <1>5 DEF Becomes
<1>7. {i \in DOMAIN conn' : conn'[i].bye} = {i \in DOMAIN conn : conn[i].bye}
  BY DEF Becomes, Moves
<1>8. {i \in DOMAIN conn' : Is(i, "http")'} = {i \in DOMAIN conn : Is(i, "http")}
  BY DEF Becomes, Moves, Is
<1>9. conn[id].proto = "http" => id \in {i \in DOMAIN conn : Is(i, "http")}
  BY DEF Becomes, Is
<1>10. S!AfterAll(P[id], SubSeq(M[id], Len(L[id]) + 1, Len(M[id]))) = at /\ S!IsPrefix(L[id], M[id])
  BY <1>2, <1>4, <1>6
<1>11. PICK x : x = S!AfterAll(P[id], SubSeq(M[id], Len(L[id]) + 1, Len(M[id])))
  OBVIOUS
<1>12. /\ DOMAIN M = DOMAIN L /\ DOMAIN Q = DOMAIN P
       /\ \A i \in DOMAIN L \ {id} : M[i] = L[i] /\ Q[i] = P[i]
       /\ S!IsPrefix(L[id], M[id])
       /\ \/ Q[id] = x /\ x \notin {"wrong", "ending"}
          \/ /\ Q[id] = "over" /\ x \notin {"wrong", "ending"}
             /\ x = "offered" \/ id \in {i \in DOMAIN conn : Is(i, "http")}
  BY <1>1, <1>6, <1>9, <1>10, <1>11
<1>13. QED
  BY <1>5, <1>7, <1>8, <1>11, <1>12 DEF S!Hears, S!Same

\* A connection that begins is a session that begins.
LEMMA BegunSeen ==
  ASSUME NEW d, Gains(d), Fresh \notin DOMAIN conn, Starts(d)
  PROVE  S!SNext
<1>1. PICK L, M, P, Q : /\ L = [i \in DOMAIN conn |-> conn[i].told] /\ M = [i \in DOMAIN conn' |-> conn'[i].told]
                        /\ P = [i \in DOMAIN conn |-> Phase(conn[i])] /\ Q = [i \in DOMAIN conn' |-> Phase(conn'[i])]
  OBVIOUS
<1>2. PICK n : n = Fresh
  OBVIOUS
<1>3. /\ DOMAIN M = DOMAIN L \cup {n} /\ DOMAIN Q = DOMAIN M /\ DOMAIN L = DOMAIN conn
      /\ M[n] = d.told /\ Q[n] = Phase(d)
      /\ \A i \in DOMAIN L : M[i] = L[i] /\ Q[i] = P[i]
  BY <1>1, <1>2 DEF Gains
<1>4. Phase(d) \in {"listening", "asked", "offered", "open", "over"}
  BY PhaseType DEF Starts
<1>5. \/ /\ M[n] = <<>>
         /\ Q[n] \in {"listening", "asked", "offered", "open", "over"}
      \/ M[n] # <<>> /\ Q[n] = S!AfterAll("offered", M[n])
  BY <1>3, <1>4 DEF Starts
<1>6. {i \in DOMAIN conn' : conn'[i].bye} = {i \in DOMAIN conn : conn[i].bye}
  BY DEF Gains, Starts
<1>7. PICK A, B : A = {i \in DOMAIN conn : Is(i, "http")} /\ B = {i \in DOMAIN conn' : Is(i, "http")'}
  OBVIOUS
<1>8. B \in {A, A \cup {n}}
  BY <1>2, <1>7 DEF Gains, Is
<1>9. S!Begin(n)
  BY <1>1, <1>3, <1>5, <1>6, <1>7, <1>8 DEF S!Begin, S!Same
<1>10. n \in DOMAIN M \ DOMAIN L
  BY <1>2, <1>3
<1>11. n \in DOMAIN [i \in DOMAIN conn' |-> conn'[i].told] \ DOMAIN [i \in DOMAIN conn |-> conn[i].told]
  BY <1>1, <1>10, Zenon
<1>12. QED
  BY <1>9, <1>11, Zenon DEF S!SNext

\* A step of one session is a step of the sessions.
LEMMA HeardIsNext ==
  ASSUME NEW id \in DOMAIN conn, S!Hears(id) \/ S!HangUp(id)
  PROVE  S!SNext
<1>1. id \in DOMAIN [i \in DOMAIN conn |-> conn[i].told]
  OBVIOUS
<1>2. QED
  BY <1>1, Zenon DEF S!SNext

\* A step keeps the invariant and is one of a session's, or none.
Steps == NetInv' /\ (S!SNext \/ UNCHANGED S!svars)

\* A handler of the network.
LEMMA HeardSteps ==
  ASSUME NetInv, NEW id, NEW d, Becomes(id, d), ConnFinished(conn[id], d)
  PROVE  Steps
<1>1. id \in DOMAIN conn /\ ConnInv(conn[id])
  BY DEF NetInv, Becomes
<1>2. S!Hears(id)
  BY <1>1, HeardSeen DEF ConnFinished
<1>3. S!SNext
  BY <1>1, <1>2, HeardIsNext
<1>4. QED
  BY <1>3, BecomesInv DEF Steps, ConnFinished

\* A close of the owner.
LEMMA HungSteps ==
  ASSUME NetInv, NEW id, NEW d, Becomes(id, d), ConnInv(d), Hung(conn[id], d)
  PROVE  Steps
<1>1. id \in DOMAIN conn /\ ConnInv(conn[id])
  BY DEF NetInv, Becomes
<1>2. S!HangUp(id)
  BY <1>1, ConnIs, HungSeen
<1>3. S!SNext
  BY <1>1, <1>2, HeardIsNext
<1>4. QED
  BY <1>3, BecomesInv DEF Steps

\* A step nobody is told of.
LEMMA StillSteps ==
  ASSUME NetInv, NEW id, NEW d, Becomes(id, d), ConnInv(d), Still(conn[id], d)
  PROVE  Steps
<1>1. \A i \in DOMAIN conn : Still(conn[i], conn'[i])
  BY DEF Becomes, Still
<1>2. DOMAIN conn' = DOMAIN conn
  BY DEF Becomes
<1>3. UNCHANGED S!svars
  BY <1>1, <1>2, StillSeen
<1>4. QED
  BY <1>3, BecomesInv DEF Steps

\* A connection more.
LEMMA GainSteps ==
  ASSUME NetInv, NEW d, Gains(d), ConnInv(d), Starts(d)
  PROVE  Steps
<1>1. NetInv' /\ Fresh \notin DOMAIN conn
  BY GainsInv
<1>2. S!SNext
  BY <1>1, BegunSeen
<1>3. QED
  BY <1>1, <1>2 DEF Steps

\* The next id is a new one.
LEMMA NewId ==
  ASSUME NetInv
  PROVE  Fresh \notin DOMAIN conn
BY DEF NetInv

-----------------------------------------------------------------------------
(* The poll of the lists takes nothing out.                                *)

\* A poll that finds no entry linked changes nothing.
LEMMA PolledAll ==
  ASSUME NEW f, PollsAll(f), \A i \in DOMAIN f : ~f[i].linked
  PROVE  DOMAIN conn' = DOMAIN f /\ \A i \in DOMAIN f : conn'[i] = f[i]
<1>1. conn' = [i \in DOMAIN f |-> Polled(f[i])]
  BY DEF PollsAll
<1>2. \A i \in DOMAIN f : Polled(f[i]) = f[i]
  BY PolledSame
<1>3. QED
  BY <1>1, <1>2

\* The poll, after an event of one connection.
LEMMA PollBecomes ==
  ASSUME NetInv, NEW id \in DOMAIN conn, NEW d, ConnInv(d), PollsAll([conn EXCEPT ![id] = d])
  PROVE  Becomes(id, d)
<1>1. PICK f : f = [conn EXCEPT ![id] = d]
  OBVIOUS
<1>2. DOMAIN f = DOMAIN conn /\ f[id] = d /\ \A i \in DOMAIN conn \ {id} : f[i] = conn[i]
  BY <1>1
<1>3. \A i \in DOMAIN f : ~f[i].linked
  <2>1. ~d.linked /\ \A i \in DOMAIN conn : ~conn[i].linked
    BY ConnIs DEF NetInv
  <2>2. QED
    BY <1>2, <2>1
<1>4. DOMAIN conn' = DOMAIN f /\ \A i \in DOMAIN f : conn'[i] = f[i]
  BY <1>1, <1>3, PolledAll
<1>5. QED
  BY <1>2, <1>4 DEF Becomes

\* A call of the owner, which does not poll.
LEMMA ExceptBecomes ==
  ASSUME NEW id \in DOMAIN conn, NEW d, conn' = [conn EXCEPT ![id] = d]
  PROVE  Becomes(id, d)
BY DEF Becomes

\* jetnet_net_listen and jetnet_net_connect add a connection.
LEMMA OpensGains ==
  ASSUME NetInv, NEW d, Opens(d)
  PROVE  Gains(d)
<1>1. Fresh \notin DOMAIN conn
  BY NewId
<1>2. QED
  BY <1>1 DEF Opens, With, Gains

-----------------------------------------------------------------------------
(* Every action.                                                           *)

\* Listen and Connect.
LEMMA ListenSteps ==
  ASSUME NetInv, NEW p \in Proto, Listen(p) \/ Connect(p)
  PROVE  Steps
<1>1. PICK c :
        /\ Opens(c)
        /\ \E atonce \in BOOLEAN, out \in Outcome, full \in BOOLEAN :
           \/ c = CASE p = "tcpsac" -> Sac!Listen
                    [] p = "tcppkg" -> Pkg!Listen
                    [] p = "http" -> Web!Listen
           \/ c = CASE p = "tcpsac" -> Sac!Connect(atonce)
                    [] p = "tcppkg" -> Pkg!Connect(atonce, out)
                    [] p = "http" -> Web!Connect(atonce, full)
  <2>1. CASE Listen(p)
    <3>1. "sent" \in Outcome /\ TRUE \in BOOLEAN
      BY DEF Outcome
    <3>2. QED
      BY <2>1, <3>1 DEF Listen
  <2>2. CASE Connect(p)
    BY <2>2 DEF Connect
  <2>3. QED
    BY <2>1, <2>2
<1>2. ConnInv(c) /\ Starts(c)
  BY <1>1, ConnStarts
<1>3. QED
  BY <1>1, <1>2, OpensGains, GainSteps

\* Send.
LEMMA SendSteps ==
  ASSUME NetInv, NEW id \in DOMAIN conn, Send(id)
  PROVE  Steps
<1>1. PICK c, k : c = conn[id] /\ k = c.sent + 1
  OBVIOUS
<1>2. ConnInv(c) /\ c.up /\ (c.role # "server" \/ c.told # <<>>) /\ k <= MaxSend
  BY <1>1 DEF NetInv, Send, Open, Knows
<1>3. PICK out \in Outcome, seq \in {0, k} :
        conn' = [conn EXCEPT ![id] = [SendBy(conn[id], seq, out) EXCEPT !.sent = k]]
  BY <1>1 DEF Send
<1>4. k \in 0 .. MaxSend /\ seq \in 0 .. MaxSend
  <2>1. c.sent \in 0 .. MaxSend
    BY <1>2, PkgFields, WebFields DEF ConnInv, PkgInv, WebInv
  <2>2. QED
    BY <1>1, <1>2, <2>1, NetAssumption
<1>5. PICK d : d = [SendBy(c, seq, out) EXCEPT !.sent = k]
  OBVIOUS
<1>6. ConnInv(d) /\ Still(c, d)
  BY <1>2, <1>4, <1>5, ConnSends
<1>7. Becomes(id, d)
  BY <1>1, <1>3, <1>5, ExceptBecomes
<1>8. QED
  BY <1>1, <1>6, <1>7, StillSteps

\* Close.
LEMMA CloseSteps ==
  ASSUME NetInv, NEW id \in DOMAIN conn, Close(id)
  PROVE  Steps
<1>1. PICK c, d : c = conn[id] /\ d = [(CASE c.proto = "tcpsac" -> Sac!Close(c)
                                          [] c.proto = "tcppkg" -> Pkg!Close(c)
                                          [] c.proto = "http" -> Web!Close(c)) EXCEPT !.bye = TRUE]
  OBVIOUS
<1>2. ConnInv(c) /\ c.up
  BY <1>1 DEF NetInv, Close, Open
<1>3. conn' = [conn EXCEPT ![id] = d]
  BY <1>1 DEF Close, Is
<1>4. QED
  BY <1>1, <1>2, <1>3, ConnHangsUp, ExceptBecomes, HungSteps

\* Flush.
LEMMA FlushSteps ==
  ASSUME NetInv, NEW id \in DOMAIN conn, Flush(id)
  PROVE  Steps
<1>1. PICK c, d : c = conn[id] /\ d = [c EXCEPT !.wbl = Tail(@)]
  OBVIOUS
<1>2. ConnInv(c) /\ c.up /\ c.wbl # <<>>
  BY <1>1 DEF NetInv, Flush, Open
<1>3. conn' = [conn EXCEPT ![id] = d]
  BY <1>1 DEF Flush
<1>4. QED
  BY <1>1, <1>2, <1>3, ConnFlushes, ExceptBecomes, StillSteps

\* Expire.
LEMMA ExpireSteps ==
  ASSUME NetInv, NEW id \in DOMAIN conn, Expire(id)
  PROVE  Steps
<1>1. PICK c, d : c = conn[id] /\ d = [c EXCEPT !.old = TRUE]
  OBVIOUS
<1>2. ConnInv(c) /\ c.up
  BY <1>1 DEF NetInv, Expire, Open
<1>3. conn' = [conn EXCEPT ![id] = d]
  BY <1>1 DEF Expire
<1>4. QED
  BY <1>1, <1>2, <1>3, ConnExpires, ExceptBecomes, StillSteps

\* PollNothing.
LEMMA PollNothingSteps ==
  ASSUME NetInv, PollNothing
  PROVE  Steps
<1>1. \A i \in DOMAIN conn : ConnInv(conn[i]) /\ ~conn[i].linked
  BY ConnIs DEF NetInv
<1>2. DOMAIN conn' = DOMAIN conn /\ \A i \in DOMAIN conn : conn'[i] = conn[i]
  BY <1>1, PolledAll DEF PollNothing
<1>3. NetInv'
  BY <1>1, <1>2, StaysInv
<1>4. UNCHANGED S!svars
  BY <1>2, StillSeen DEF Still
<1>5. QED
  BY <1>3, <1>4 DEF Steps

\* PollConnect.
LEMMA PollConnectSteps ==
  ASSUME NetInv, NEW id \in DOMAIN conn, PollConnect(id)
  PROVE  Steps
<1>1. PICK c : c = conn[id]
  OBVIOUS
<1>2. PICK d :
        /\ \E ok \in BOOLEAN, out \in Outcome :
             d = CASE c.proto = "tcpsac" -> Sac!HandleConnect(c, ok)
                   [] c.proto = "tcppkg" -> Pkg!HandleConnect(c, ok, out)
                   [] c.proto = "http" -> Web!HandleConnect(c, ok)
        /\ PollsAll([conn EXCEPT ![id] = d])
  BY <1>1 DEF PollConnect, Is
<1>3. ConnInv(c) /\ c.st = "CONNECTING"
  BY <1>1 DEF NetInv, PollConnect
<1>4. ConnFinished(c, d)
  BY <1>2, <1>3, ConnConnects
<1>5. QED
  BY <1>1, <1>2, <1>4, PollBecomes, HeardSteps DEF ConnFinished

\* PollRecv.
LEMMA PollRecvSteps ==
  ASSUME NetInv, NEW id \in DOMAIN conn, PollRecv(id)
  PROVE  Steps
<1>1. PICK c : c = conn[id]
  OBVIOUS
<1>2. PICK e :
        /\ \E d \in Reads(c), out \in Outcome : e = Received(c, d, out)
        /\ PollsAll([conn EXCEPT ![id] = e])
  BY <1>1 DEF PollRecv
<1>3. ConnInv(c) /\ c.up /\ c.role # "listener" /\ c.st # "CONNECTING"
  BY <1>1 DEF NetInv, PollRecv, Open
<1>4. ConnFinished(c, e)
  BY <1>2, <1>3, ConnReceives
<1>5. QED
  BY <1>1, <1>2, <1>4, PollBecomes, HeardSteps DEF ConnFinished

\* PollClose.
LEMMA PollCloseSteps ==
  ASSUME NetInv, NEW id \in DOMAIN conn, PollClose(id)
  PROVE  Steps
<1>1. PICK c, e : c = conn[id] /\ e = Closed(c)
  OBVIOUS
<1>2. PollsAll([conn EXCEPT ![id] = e])
  BY <1>1 DEF PollClose
<1>3. ConnInv(c) /\ c.up
  BY <1>1 DEF NetInv, PollClose, Open
<1>4. ConnFinished(c, e)
  BY <1>1, <1>3, ConnCloses
<1>5. QED
  BY <1>1, <1>2, <1>4, PollBecomes, HeardSteps DEF ConnFinished

\* PollAccept.
LEMMA PollAcceptSteps ==
  ASSUME NetInv, NEW id \in DOMAIN conn, PollAccept(id)
  PROVE  Steps
<1>1. PICK b : b = conn[id]
  OBVIOUS
<1>2. PICK c :
        /\ \E full \in BOOLEAN :
             c = CASE b.proto = "tcpsac" -> Sac!HandleAccept
                   [] b.proto = "tcppkg" -> Pkg!HandleAccept
                   [] b.proto = "http" -> Web!HandleAccept(full)
        /\ PollsAll(With(c))
  BY <1>1 DEF PollAccept, Is
<1>3. ConnInv(b)
  BY <1>1 DEF NetInv
<1>4. ConnInv(Polled(c)) /\ Starts(Polled(c))
  BY <1>2, <1>3, ConnTakes
<1>5. Gains(Polled(c))
  <2>1. PICK f : f = With(c)
    OBVIOUS
  <2>2. DOMAIN f = DOMAIN conn \cup {Fresh} /\ f[Fresh] = c /\ \A i \in DOMAIN conn : f[i] = conn[i]
    BY <2>1, NewId DEF With
  <2>3. conn' = [i \in DOMAIN f |-> Polled(f[i])]
    BY <1>2, <2>1 DEF PollsAll
  <2>4. \A i \in DOMAIN conn : Polled(conn[i]) = conn[i]
    BY ConnIs, PolledSame DEF NetInv
  <2>5. QED
    BY <2>2, <2>3, <2>4 DEF Gains
<1>6. QED
  BY <1>4, <1>5, GainSteps

\* Every action.
LEMMA NextSteps ==
  ASSUME NetInv, Next
  PROVE  Steps
BY ListenSteps, SendSteps, CloseSteps, FlushSteps, ExpireSteps, PollNothingSteps, PollConnectSteps,
   PollAcceptSteps, PollRecvSteps, PollCloseSteps DEF Next, NetPoll

\* The service begins with no connection and no session.
LEMMA InitNet ==
  ASSUME Init
  PROVE  NetInv /\ S!SInit
<1>1. DOMAIN conn = {} /\ conn = [id \in {} |-> 0]
  BY DEF Init
<1>2. Fresh = 0
  BY <1>1, FS_EmptySet DEF Fresh
<1>3. 0 .. 0 - 1 = {} /\ 0 \in Nat
  OBVIOUS
<1>4. NetInv
  BY <1>1, <1>2, <1>3 DEF NetInv
<1>5. S!SInit
  BY <1>1 DEF S!SInit
<1>6. QED
  BY <1>4, <1>5

\* A step of something else.
LEMMA StutterNet ==
  ASSUME NetInv, UNCHANGED vars
  PROVE  Steps
<1>1. conn' = conn
  BY DEF vars
<1>2. NetInv'
  BY <1>1 DEF NetInv, Fresh
<1>3. UNCHANGED S!svars
  BY <1>1, Zenon DEF S!svars, Is
<1>4. QED
  BY <1>2, <1>3 DEF Steps

\* In every reachable state every connection satisfies the invariant: what the
\* handlers of the three protocols assume of a connection, they leave.
THEOREM NetInvariant == Spec => []NetInv
<1>1. Init => NetInv
  BY InitNet
<1>2. NetInv /\ [Next]_vars => NetInv'
  BY NextSteps, StutterNet DEF Steps
<1>3. QED
  BY <1>1, <1>2, PTL DEF Spec

\* The service implements module Session: whatever calls, packages and closes meet
\* on a connection, its owner is told of an open or a failure first, of one close
\* at most and last, and of nothing behind its own jetnet_net_close.
THEOREM NetSessions == Spec => SessionSpec
<1>1. Init => S!SInit
  BY InitNet
<1>2. NetInv /\ [Next]_vars => [S!SNext]_(S!svars)
  BY NextSteps, StutterNet DEF Steps
<1>3. QED
  BY <1>1, <1>2, NetInvariant, PTL DEF Spec, SessionSpec, S!SafeSpec

-----------------------------------------------------------------------------
\* Validation is a matter of tcppkg.
LEMMA ConnStages ==
  ASSUME NEW c, ConnInv(c), c.st \in {"VALIDING", "CONNECTED"}
  PROVE  c.proto = "tcppkg"
<1>1. CASE c.proto = "http"
  <2>1. c.st \in Stages(c.proto, c.role) /\ c.role \in {"listener", "client", "server"}
    BY <1>1, ConnIs DEF WebInv, Common
  <2>2. QED
    BY <1>1, <2>1 DEF Stages
<1>2. CASE c.proto # "http"
  BY <1>2, ConnIs, StagesOf
<1>3. QED
  BY <1>1, <1>2

\* The items of a sequence.
LEMMA ItemsIn ==
  ASSUME NEW E, NEW s \in Seq(E)
  PROVE  \A i \in DOMAIN s : s[i] \in E
OBVIOUS

\* The types follow from the invariant.
LEMMA NetTypes ==
  ASSUME NetInv
  PROVE  TypeOK
<1>1. ASSUME NEW id \in DOMAIN conn
      PROVE  LET c == conn[id] IN
               /\ c.proto \in Proto /\ c.role \in {"listener", "client", "server"}
               /\ c.st \in States /\ c.up = (c.st # "CLOSE")
               /\ c.st \in {"VALIDING", "CONNECTED"} => c.proto = "tcppkg"
               /\ \A m \in ToSet(c.told) : m.t \in Notices /\ m.n \in Nat
               /\ \A k \in ToSet(c.wbl) : k \in 0 .. MaxSend
               /\ c.linked \in BOOLEAN /\ c.bye \in BOOLEAN
  <2>1. PICK c : c = conn[id]
    OBVIOUS
  <2>2. ConnInv(c)
    BY <2>1 DEF NetInv
  <2>3. /\ c.proto \in Proto /\ c.role \in {"listener", "client", "server"}
        /\ c.st \in States /\ c.up = (c.st # "CLOSE")
        /\ c.linked \in BOOLEAN /\ c.bye \in BOOLEAN
        /\ c.told \in Seq(AnyNote) /\ c.wbl \in Seq(0 .. MaxSend)
    BY <2>2, ConnIs
  <2>4. c.st \in {"VALIDING", "CONNECTED"} => c.proto = "tcppkg"
    BY <2>2, ConnStages
  <2>5. \A m \in ToSet(c.told) : m.t \in Notices /\ m.n \in Nat
    <3>1. PICK t \in Seq(AnyNote) : t = c.told
      BY <2>3
    <3>2. \A i \in DOMAIN t : t[i] \in AnyNote
      OBVIOUS
    <3>3. \A i \in DOMAIN t : t[i].t \in Notices /\ t[i].n \in Nat
      BY <3>2 DEF AnyNote
    <3>4. QED
      BY <3>1, <3>3 DEF ToSet
  <2>6. \A k \in ToSet(c.wbl) : k \in 0 .. MaxSend
    <3>1. PICK b \in Seq(0 .. MaxSend) : b = c.wbl
      BY <2>3
    <3>2. \A i \in DOMAIN b : b[i] \in 0 .. MaxSend
      BY ItemsIn
    <3>3. QED
      BY <3>1, <3>2 DEF ToSet
  <2>7. QED
    BY <2>1, <2>3, <2>4, <2>5, <2>6
<1>2. DOMAIN conn = 0 .. Fresh - 1
  BY DEF NetInv
<1>3. QED
  BY <1>1, <1>2 DEF TypeOK

\* The invariant gives Delivered: with less than a package left in the read buffer
\* none is waiting there.
LEMMA ConnDelivered ==
  ASSUME NEW c, ConnInv(c), c.proto # "http"
  PROVE  /\ IsPrefix(Numbers(Got(c)), Numbers(Whole(c)))
         /\ c.st = "TRANS" => Len(Got(c)) = Len(Whole(c))
<1>1. PkgInv(c) /\ c \in PkgConn
  BY ConnIs DEF PkgInv
<1>2. c.rbl \in Seq(Unit) /\ c.came \in Seq(Unit) /\ c.told \in Seq(AnyNote)
  BY <1>1, PkgFields
<1>3. ASSUME c.st = "TRANS"
      PROVE  Len(Got(c)) = Len(Whole(c))
  <2>1. Unparsed(c) /\ Kept(c) /\ Len(c.rbl) < 2
    BY <1>1, <1>3 DEF PkgInv
  <2>2. \A i \in 1 .. Len(c.rbl) : c.rbl[i] \notin App
    <3>1. ASSUME NEW i \in 1 .. Len(c.rbl)
          PROVE  c.rbl[i] \notin App
      <4>1. i = 1 /\ c.rbl # <<>>
        BY <1>2, <2>1
      <4>2. c.rbl[1].part = 1
        BY <2>1, <4>1 DEF Unparsed, Paired
      <4>3. QED
        BY <4>1, <4>2 DEF App
    <3>2. QED
      BY <3>1
  <2>3. Chosen(c.rbl, App) = <<>>
    BY <1>2, <2>2, ChosenNone
  <2>4. PICK g : g = Numbers(Got(c))
    OBVIOUS
  <2>5. g \in Seq(Nat) /\ Len(g) = Len(Got(c))
    BY <1>2, <2>4, ToldType DEF Got
  <2>6. g \o <<>> = Numbers(Whole(c))
    BY <2>1, <2>3, <2>4, NumbersEmpty DEF Kept
  <2>7. g = Numbers(Whole(c))
    BY <2>5, <2>6, ConcatEmpty
  <2>8. Len(Numbers(Whole(c))) = Len(Whole(c))
    BY <1>2, UnitNumbers DEF Whole
  <2>9. QED
    BY <2>5, <2>7, <2>8
<1>4. QED
  BY <1>1, <1>3 DEF PkgInv

\* The invariant gives Framed.
LEMMA ConnFramed ==
  ASSUME NEW c, ConnInv(c), c.proto = "http"
  PROVE  \A k \in DOMAIN Got(c) : IsWhole(c, k)
<1>1. WebInv(c) /\ c \in WebConn
  BY ConnIs DEF WebInv
<1>2. Got(c) \in Seq(AnyNote)
  BY <1>1, WebFields
<1>3. DOMAIN Got(c) = 1 .. Len(Got(c))
  BY <1>2
<1>4. QED
  BY <1>1, <1>3 DEF WebInv

\* The invariant gives Validated.
LEMMA ConnValidated ==
  ASSUME NEW c, ConnInv(c), c.proto = "tcppkg",
         c.st = "TRANS" \/ \E m \in ToSet(c.told) : m.t \in {"CONNECT", "ACCEPT", "RECV"}
  PROVE  /\ Len(c.came) >= 2
         /\ c.came[2].kind = IF c.role = "server" THEN "req" ELSE "ack"
<1>1. PkgInv(c)
  BY ConnIs
<1>2. c.told \in Seq(AnyNote)
  BY ConnIs
<1>3. c.st = "TRANS" \/ HeardOf(c)
  BY <1>2 DEF ToSet, HeardOf
<1>4. Checked(c)
  BY <1>1, <1>3 DEF PkgInv
<1>5. QED
  BY <1>4 DEF Checked

\* The invariant gives Accounted.
LEMMA ConnAccounted ==
  ASSUME NEW c, ConnInv(c), c.proto # "http", c.st = "CLOSE", ~c.bye
  PROVE  Numbers(Told(c, "UNREACH")) = Owned(c.wbl)
BY ConnIs DEF PkgInv

-----------------------------------------------------------------------------
\* Every socket has a protocol, a role and a state that go together, and is up
\* until it is closed (jetnet_base_socket_t and the protocols' state fields).
THEOREM NetTypesHold == Spec => []TypeOK
BY NetInvariant, NetTypes, PTL

\* Every application package that came whole is delivered, once and in order, by the
\* handler that read its end, however the packages were cut into reads
\* (jetnet_tcpsac_recv_pkg, jetnet_tcppkg_recv_pkg and their loops).
THEOREM PackagesDelivered == Spec => []Delivered
<1>1. NetInv => Delivered
  BY ConnDelivered DEF NetInv, Delivered
<1>2. QED
  BY <1>1, NetInvariant, PTL

\* A delivered http message is made of pieces that came, and where nothing was parsed
\* twice it is one message, whole (current_offset over jetnet_http_handle_*_recv).
THEOREM MessagesFramed == Spec => []Framed
<1>1. NetInv => Framed
  <2>1. SUFFICES ASSUME NetInv, NEW id \in DOMAIN conn, conn[id].proto = "http",
                        NEW k \in DOMAIN Got(conn[id])
                 PROVE  IsWhole(conn[id], k)
    BY DEF Framed, IsWhole
  <2>2. QED
    BY <2>1, ConnFramed DEF NetInv
<1>2. QED
  BY <1>1, NetInvariant, PTL

\* No tcppkg connection opens, or is told of, before the peer's half of the
\* validation has come (jetnet_tcppkg_handle_*_recv).
THEOREM ConnectionsValidated == Spec => []Validated
<1>1. NetInv => Validated
  BY ConnValidated DEF NetInv, Validated
<1>2. QED
  BY <1>1, NetInvariant, PTL

\* A tcpsac or tcppkg connection that breaks names each of its owner's packages
\* that did not go out (jetnet_*_notify_unreachable on every path that closes).
THEOREM PackagesAccounted == Spec => []Accounted
<1>1. NetInv => Accounted
  BY ConnAccounted DEF NetInv, Accounted
<1>2. QED
  BY <1>1, NetInvariant, PTL

\* No list of the protocols holds a connection that was closed and freed.
THEOREM NothingFreedLinked == Spec => []NoFreedLink
<1>1. NetInv => NoFreedLink
  BY ConnIs DEF NetInv, NoFreedLink
<1>2. QED
  BY <1>1, NetInvariant, PTL
=============================================================================
