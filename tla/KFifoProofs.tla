---------------------------- MODULE KFifoProofs -----------------------------
(***************************************************************************)
(* Proofs about module KFifo, for any writers, packages, ring and buffer:  *)
(* the ring implements the bounded FIFO of Channel.                        *)
(*                                                                         *)
(* The lemmas go from numbers to slots of the ring, from slots to bytes    *)
(* and from bytes to packages; the inductive invariant says what the ring  *)
(* holds while nobody writes, and how far the one who writes has come.     *)
(***************************************************************************)
EXTENDS KFifo, SequenceTheorems, WellFoundedInduction, TLAPS

-----------------------------------------------------------------------------
(* Numbers.                                                                *)

\* A set of numbers has a least one.
LEMMA LeastExists ==
  ASSUME NEW S \in SUBSET Nat, S # {}
  PROVE  \E x \in S : \A y \in S : x <= y
<1> DEFINE R == OpToRel(<, Nat)
<1>1. IsWellFoundedOn(R, Nat)
  BY NatLessThanWellFounded
<1>2. \A x, y \in Nat : y < x => <<y, x>> \in R
  BY DEF OpToRel
<1> HIDE DEF R
<1>3. PICK x \in S : \A y \in S : ~ (<<y, x>> \in R)
  BY <1>1, WFMin
<1>4. \A y \in S : ~ (y < x)
  BY <1>2, <1>3
<1>5. \A y \in S : x <= y
  BY <1>4
<1>6. QED
  BY <1>5

\* Induction, for the numbers of a set.
LEMMA Ascends ==
  ASSUME NEW n \in Nat, NEW T, 0 \in T, \A i \in 0..n-1 : i \in T => i + 1 \in T
  PROVE  \A i \in 0..n : i \in T
<1> DEFINE Bad == {i \in 0..n : i \notin T}
<1>1. ASSUME Bad # {}
      PROVE  FALSE
  <2>0. Bad \in SUBSET Nat
    OBVIOUS
  <2>1. PICK m \in Bad : \A i \in Bad : m <= i
    <3> HIDE DEF Bad
    <3>1. QED
      BY <1>1, <2>0, LeastExists
  <2>2. m # 0 /\ m \in 0..n
    BY <2>1
  <2>3. m - 1 \in 0..n-1 /\ m - 1 \notin Bad
    BY <2>1, <2>2
  <2>4. m - 1 \in T
    BY <2>3
  <2>5. QED
    BY <2>1, <2>3, <2>4
<1>2. QED
  BY <1>1

LEMMA DivMod ==
  ASSUME NEW M \in Nat \ {0}, NEW x \in Int
  PROVE  /\ x = M * (x \div M) + (x % M)
         /\ x \div M \in Int /\ x % M \in 0..M-1
  OBVIOUS

LEMMA ModUnique ==
  ASSUME NEW M \in Nat \ {0}, NEW a \in Int, NEW r \in 0..M-1
  PROVE  (M * a + r) % M = r
  OBVIOUS

LEMMA ModSmall ==
  ASSUME NEW M \in Nat \ {0}, NEW x \in Int
  PROVE  /\ x \in 0..M-1 => x % M = x
         /\ x \in M..2*M-1 => x % M = x - M
         /\ x \in -M..-1 => x % M = x + M
  OBVIOUS

\* The length that is written is the one that is read.
LEMMA LengthRead ==
  ASSUME NEW n \in Nat
  PROVE  /\ LengthBytes(n) \in Seq(Nat) /\ Len(LengthBytes(n)) = HeaderLen
         /\ LengthOf(LengthBytes(n)) = n
<1>1. n = (n % 256) + 256 * ((n \div 256) % 256) + 65536 * ((n \div 65536) % 256)
            + 16777216 * (n \div 16777216)
  OBVIOUS
<1>2. /\ n % 256 \in Nat /\ (n \div 256) % 256 \in Nat
      /\ (n \div 65536) % 256 \in Nat /\ n \div 16777216 \in Nat
  OBVIOUS
<1>3. QED
  BY <1>1, <1>2 DEF LengthBytes, LengthOf, HeaderLen

-----------------------------------------------------------------------------
(* The slots of the ring and its counters.                                 *)

\* The slot that is k slots behind the one of counter at.
Slot(at, k) ==
  LET o == at % Size IN IF o + k < Size THEN o + k ELSE o + k - Size

Counters == 0..CounterMod-1

LEMMA Numbers ==
  /\ Size \in Nat \ {0} /\ CounterMod \in Nat \ {0}
  /\ CounterMod > Size /\ CounterMod % Size = 0
  BY KFifoAssumption

LEMMA WrapIs ==
  ASSUME NEW x \in Int
  PROVE  /\ x \in 0..CounterMod-1 => Wrap(x) = x
         /\ x \in CounterMod..2*CounterMod-1 => Wrap(x) = x - CounterMod
         /\ x \in -CounterMod..-1 => Wrap(x) = x + CounterMod
  BY ModSmall, Numbers DEF Wrap

LEMMA Offset ==
  ASSUME NEW c \in Nat
  PROVE  c % Size \in 0..Size-1
  BY DivMod, Numbers

LEMMA SlotIs ==
  ASSUME NEW c \in Nat, NEW n \in 0..Size
  PROVE  (c + n) % Size = Slot(c, n)
<1> USE Numbers
<1> DEFINE a == c \div Size
           r == c % Size
<1>1. c = Size * a + r /\ a \in Int /\ r \in 0..Size-1
  BY DivMod
<1>2. Slot(c, n) = IF r + n < Size THEN r + n ELSE r + n - Size
  BY DEF Slot
<1> HIDE DEF a, r
<1>3. CASE r + n < Size
  <2>1. c + n = Size * a + (r + n) /\ r + n \in 0..Size-1
    BY <1>1, <1>3
  <2>2. (Size * a + (r + n)) % Size = r + n
    BY <2>1, ModUnique, <1>1
  <2>3. QED
    BY <2>1, <2>2, <1>2, <1>3
<1>4. CASE r + n >= Size
  <2> DEFINE a1 == a + 1
             r1 == r + n - Size
  <2>1. c + n = Size * a1 + r1 /\ r1 \in 0..Size-1 /\ a1 \in Int
    BY <1>1, <1>4
  <2>2. Slot(c, n) = r1
    BY <1>1, <1>2, <1>4
  <2> HIDE DEF a1, r1
  <2>3. (Size * a1 + r1) % Size = r1
    BY <2>1, ModUnique
  <2>4. QED
    BY <2>1, <2>2, <2>3
<1>5. QED
  BY <1>1, <1>3, <1>4

\* The size divides the range of the counters, so that a counter that wraps
\* names the same slot.
LEMMA WrapKeeps ==
  ASSUME NEW x \in 0..2*CounterMod-1
  PROVE  Wrap(x) % Size = x % Size
<1> USE Numbers
<1> DEFINE b == CounterMod \div Size
           a == x \div Size
           r == x % Size
<1>1. CounterMod = Size * b /\ b \in Int
  BY DivMod
<1>2. x = Size * a + r /\ a \in Int /\ r \in 0..Size-1
  BY DivMod
<1> HIDE DEF a, b, r
<1>3. CASE x < CounterMod
  BY <1>3, ModSmall DEF Wrap
<1>4. CASE x >= CounterMod
  <2> DEFINE d == a - b
  <2>1. x \in CounterMod..2*CounterMod-1
    BY <1>4
  <2>2. Wrap(x) = x - CounterMod
    BY <2>1, ModSmall DEF Wrap
  <2>3. x - CounterMod = Size * d + r /\ d \in Int
    BY <1>1, <1>2
  <2> HIDE DEF d
  <2>4. (Size * d + r) % Size = r
    BY ModUnique, <2>3, <1>2
  <2>5. QED
    BY <2>2, <2>3, <2>4 DEF r
<1>5. QED
  BY <1>3, <1>4

\* What a counter that moves on by n finds k slots further.
LEMMA SlotMoves ==
  ASSUME NEW c \in 0..CounterMod-1, NEW n \in 0..Size, NEW k \in 0..Size-1
  PROVE  /\ Slot(Wrap(c + n), k) = Slot(c, IF n + k < Size THEN n + k ELSE n + k - Size)
         /\ Slot(c + n, k) = Slot(Wrap(c + n), k)
<1> USE Numbers
<1>1. c + n \in 0..2*CounterMod-1 /\ c \in Nat
  OBVIOUS
<1>2. Wrap(c + n) % Size = Slot(c, n) /\ (c + n) % Size = Slot(c, n)
  BY <1>1, WrapKeeps, SlotIs
<1>3. c % Size \in 0..Size-1
  BY DivMod, <1>1
<1>4. QED
  BY <1>2, <1>3 DEF Slot

\* The counters tell how much is in the ring, and how much is free.
LEMMA CountersTell ==
  ASSUME in \in 0..CounterMod-1, out \in 0..CounterMod-1
  PROVE  /\ Filled \in 0..CounterMod-1
         /\ in = Wrap(out + Filled)
         /\ Filled <= Size => Free = Size - Filled
<1> USE Numbers
<1>1. CASE in >= out
  <2>1. in - out \in 0..CounterMod-1 /\ out + (in - out) = in
    BY <1>1
  <2>2. Filled = in - out /\ in = Wrap(out + Filled)
    BY <2>1, WrapIs DEF Filled
  <2>3. Filled <= Size => Size - in + out \in 0..CounterMod-1
    BY <2>2, <2>1
  <2>4. QED
    BY <2>1, <2>2, <2>3, WrapIs DEF Free
<1>2. CASE in < out
  <2>1. in - out \in -CounterMod..-1
    BY <1>2
  <2>2. Filled = in - out + CounterMod
    BY <2>1, WrapIs DEF Filled
  <2> DEFINE x == out + Filled
  <2>3. x \in CounterMod..2*CounterMod-1 /\ x - CounterMod = in
    BY <2>2, <1>2
  <2>4. in = Wrap(out + Filled)
    <3> HIDE DEF x
    <3>1. Wrap(x) = in
      BY <2>3, WrapIs
    <3>2. QED
      BY <3>1 DEF x
  <2>5. Filled <= Size => /\ Size - in + out \in CounterMod..2*CounterMod-1
                          /\ Size - in + out - CounterMod = Size - Filled
    BY <2>2, <1>2
  <2>6. QED
    BY <2>1, <2>2, <2>4, <2>5, WrapIs DEF Free
<1>3. QED
  BY <1>1, <1>2

\* The distance between two counters that are d apart.
LEMMA Apart ==
  ASSUME NEW c \in 0..CounterMod-1, NEW d \in 0..CounterMod-1
  PROVE  Wrap(Wrap(c + d) - c) = d /\ Wrap(c + d) \in 0..CounterMod-1
<1> USE Numbers
<1>1. CASE c + d < CounterMod
  <2>1. c + d \in 0..CounterMod-1 /\ (c + d) - c = d
    BY <1>1
  <2>2. QED
    BY <2>1, WrapIs
<1>2. CASE c + d >= CounterMod
  <2>1. c + d \in CounterMod..2*CounterMod-1 /\ c + d - CounterMod \in 0..CounterMod-1
    BY <1>2
  <2>2. Wrap(c + d) = c + d - CounterMod
    BY <2>1, WrapIs
  <2>3. (c + d - CounterMod) - c \in -CounterMod..-1
    BY <1>2
  <2>4. Wrap((c + d - CounterMod) - c) = (c + d - CounterMod) - c + CounterMod
    BY <2>3, WrapIs
  <2>5. QED
    BY <2>1, <2>2, <2>4
<1>3. QED
  BY <1>1, <1>2

\* A counter that moves on twice.
LEMMA WrapAgain ==
  ASSUME NEW c \in Counters, NEW n \in Nat, NEW m \in Nat, n + m < CounterMod
  PROVE  Wrap(Wrap(c + n) + m) = Wrap(c + (n + m))
<1> USE Numbers DEF Counters
<1>1. CASE c + n < CounterMod
  <2>1. c + n \in 0..CounterMod-1 /\ (c + n) + m = c + (n + m)
    BY <1>1
  <2>2. QED
    BY <2>1, WrapIs
<1>2. CASE c + n >= CounterMod
  <2> DEFINE r == c + n - CounterMod
             x == c + (n + m)
  <2>1. /\ c + n \in CounterMod..2*CounterMod-1
        /\ r + m \in 0..CounterMod-1
        /\ x \in CounterMod..2*CounterMod-1
        /\ x - CounterMod = r + m
    BY <1>2
  <2>2. Wrap(c + n) = r
    BY <2>1, WrapIs
  <2> HIDE DEF r, x
  <2>3. Wrap(r + m) = r + m
    BY <2>1, WrapIs
  <2>4. Wrap(x) = x - CounterMod
    BY <2>1, WrapIs
  <2>5. QED
    BY <2>1, <2>2, <2>3, <2>4 DEF x
<1>3. QED
  BY <1>1, <1>2

\* Two rings of the size at most fit in the range of the counters.
LEMMA TwoSizes == 2 * Size <= CounterMod
<1> USE Numbers
<1> DEFINE b == CounterMod \div Size
<1>1. CounterMod = Size * b + 0 /\ b \in Int
  BY DivMod
<1> HIDE DEF b
<1>2. b >= 2
  BY <1>1
<1>3. QED
  BY <1>1, <1>2

-----------------------------------------------------------------------------
(* What packages occupy.                                                   *)

Ends(s) == Chan!Ends(s)
Used(s) == Chan!Used(s)

\* f counts what the first packages of s occupy, up to n of them.
Counts(f, s, n) ==
  /\ f \in [0..n -> Nat]
  /\ \A i \in 0..n : f[i] = IF i = 0 THEN 0 ELSE f[i - 1] + HeaderLen + Len(s[i])

LEMMA BodyIs ==
  ASSUME NEW b \in Body
  PROVE  b \in Seq(Nat) /\ Len(b) \in Nat \ {0} /\ HeaderLen + Len(b) < CounterMod
  BY KFifoAssumption

\* The recursive function of Channel counts the packages.
LEMMA EndsIs ==
  ASSUME NEW s \in Seq(Body)
  PROVE  Counts(Ends(s), s, Len(s))
<1> DEFINE n == Len(s)
           T == {m \in 0..n : \E f : Counts(f, s, m)}
<1>1. n \in Nat /\ \A i \in 1..n : Len(s[i]) \in Nat
  BY BodyIs
<1>2. 0 \in T
  <2>1. Counts([i \in 0..0 |-> 0], s, 0)
    BY DEF Counts
  <2>2. QED
    BY <2>1, <1>1
<1>3. ASSUME NEW m \in 0..n-1, m \in T
      PROVE  m + 1 \in T
  <2>1. PICK f : Counts(f, s, m)
    BY <1>3
  <2> DEFINE g == [i \in 0..m+1 |-> IF i = m + 1 THEN f[m] + HeaderLen + Len(s[m + 1])
                                     ELSE f[i]]
  <2>2. m + 1 \in 1..n /\ f[m] \in Nat
    BY <2>1, <1>1 DEF Counts
  <2>3. Len(s[m + 1]) \in Nat
    BY <2>2, <1>1
  <2>4. g \in [0..m+1 -> Nat]
    BY <2>1, <2>2, <2>3 DEF Counts, HeaderLen
  <2>5. ASSUME NEW i \in 0..m+1
        PROVE  g[i] = IF i = 0 THEN 0 ELSE g[i - 1] + HeaderLen + Len(s[i])
    BY <2>1, <2>2 DEF Counts
  <2>6. Counts(g, s, m + 1)
    BY <2>4, <2>5 DEF Counts
  <2>7. QED
    BY <2>6, <2>2, <1>1
<1>4. n \in T
  <2> HIDE DEF T
  <2>1. \A i \in 0..n : i \in T
    BY <1>1, <1>2, <1>3, Ascends
  <2>2. QED
    BY <2>1, <1>1
<1>5. PICK f : Counts(f, s, n)
  BY <1>4
<1> DEFINE Step(e) == [i \in 0..n |-> IF i = 0 THEN 0 ELSE e[i - 1] + HeaderLen + Len(s[i])]
<1>6. f = Step(f)
  BY <1>5 DEF Counts
<1>7. Ends(s) = CHOOSE e : e = Step(e)
  BY DEF Ends, Chan!Ends
<1>8. Ends(s) = Step(Ends(s))
  <2> HIDE DEF Step
  <2>1. QED
    BY <1>6, <1>7
<1> DEFINE g == Ends(s)
<1>9. \A i \in 0..n : g[i] = IF i = 0 THEN 0 ELSE g[i - 1] + HeaderLen + Len(s[i])
  <2> HIDE DEF g
  <2>1. g = Step(g)
    BY <1>8 DEF g
  <2>2. QED
    BY <2>1
<1>10. \A i \in 0..n : g[i] \in Nat
  <2> DEFINE U == {i \in 0..n : g[i] \in Nat}
  <2> HIDE DEF g
  <2>1. 0 \in U
    BY <1>1, <1>9
  <2>2. ASSUME NEW i \in 0..n-1, i \in U
        PROVE  i + 1 \in U
    <3>1. g[i + 1] = g[i] + HeaderLen + Len(s[i + 1])
      BY <1>1, <1>9
    <3>2. Len(s[i + 1]) \in Nat
      BY <1>1
    <3>3. QED
      BY <3>1, <3>2, <2>2 DEF HeaderLen
  <2>3. \A i \in 0..n : i \in U
    <3> HIDE DEF U
    <3>1. QED
      BY <1>1, <2>1, <2>2, Ascends
  <2>4. QED
    BY <2>3
<1>11. g = [i \in 0..n |-> g[i]]
  BY <1>8
<1>12. QED
  <2> HIDE DEF g
  <2>1. g \in [0..n -> Nat]
    BY <1>10, <1>11
  <2>2. Counts(g, s, n)
    BY <2>1, <1>9 DEF Counts
  <2>3. QED
    BY <2>2 DEF g

LEMMA EndsFacts ==
  ASSUME NEW s \in Seq(Body)
  PROVE  /\ Ends(s)[0] = 0
         /\ \A i \in 0..Len(s) : Ends(s)[i] \in Nat
         /\ \A i \in 1..Len(s) : Ends(s)[i] = Ends(s)[i - 1] + HeaderLen + Len(s[i])
         /\ Used(s) = Ends(s)[Len(s)] /\ Used(s) \in Nat
         /\ \A i \in 0..Len(s) : Ends(s)[i] <= Used(s)
<1>1. Counts(Ends(s), s, Len(s)) /\ Len(s) \in Nat
  BY EndsIs
<1>2. /\ Ends(s)[0] = 0 /\ \A i \in 0..Len(s) : Ends(s)[i] \in Nat
      /\ \A i \in 1..Len(s) : Ends(s)[i] = Ends(s)[i - 1] + HeaderLen + Len(s[i])
  BY <1>1 DEF Counts
<1>3. Used(s) = Ends(s)[Len(s)]
  BY DEF Used, Chan!Used, Ends
<1> DEFINE n == Len(s)
           e == Ends(s)
           T == {k \in 0..n : e[n - k] <= e[n]}
<1>4. \A k \in 0..n : k \in T
  <2> HIDE DEF e
  <2>1. 0 \in T
    BY <1>1, <1>2 DEF e
  <2>2. ASSUME NEW k \in 0..n-1, k \in T
        PROVE  k + 1 \in T
    <3>1. n - k \in 1..n /\ n - (k + 1) = (n - k) - 1 /\ n - (k + 1) \in 0..n
      BY <1>1
    <3>2. e[n - k] = e[n - (k + 1)] + HeaderLen + Len(s[n - k])
      BY <3>1, <1>2 DEF e
    <3>3. Len(s[n - k]) \in Nat
      <4>1. s[n - k] \in Body
        BY <3>1
      <4>2. QED
        BY <4>1, BodyIs
    <3>4. e[n - (k + 1)] \in Nat /\ e[n] \in Nat
      BY <3>1, <1>1, <1>2 DEF e
    <3>5. e[n - k] <= e[n]
      BY <2>2
    <3>6. QED
      BY <3>1, <3>2, <3>3, <3>4, <3>5 DEF HeaderLen
  <2> HIDE DEF T
  <2>3. QED
    BY <1>1, <2>1, <2>2, Ascends
<1>5. ASSUME NEW i \in 0..n
      PROVE  e[i] <= e[n]
  <2>1. n - i \in 0..n /\ n - (n - i) = i
    BY <1>1
  <2> HIDE DEF e
  <2>2. QED
    BY <2>1, <1>4
<1>6. QED
  BY <1>1, <1>2, <1>3, <1>5

\* Two counts that take the same steps.
LEMMA CountsAgree ==
  ASSUME NEW n \in Nat, NEW f \in [0..n -> Nat], NEW g \in [0..n -> Nat], g[0] = 0,
         \A i \in 0..n-1 : f[i + 1] - f[i] = g[i + 1] - g[i]
  PROVE  \A i \in 0..n : f[i] = f[0] + g[i]
<1> DEFINE T == {i \in 0..n : f[i] = f[0] + g[i]}
<1>1. 0 \in T
  OBVIOUS
<1>2. ASSUME NEW i \in 0..n-1, i \in T
      PROVE  i + 1 \in T
  <2>1. f[i + 1] - f[i] = g[i + 1] - g[i] /\ i + 1 \in 0..n /\ i \in 0..n
    OBVIOUS
  <2>2. /\ f[0] \in Nat /\ f[i] = f[0] + g[i] /\ f[i] \in Nat /\ g[i] \in Nat
        /\ f[i + 1] \in Nat /\ g[i + 1] \in Nat
    BY <1>2, <2>1
  <2>3. f[i + 1] = f[0] + g[i + 1]
    <3> DEFINE a == f[i]
               b == f[i + 1]
               c == g[i]
               d == g[i + 1]
               e == f[0]
    <3>1. a \in Nat /\ b \in Nat /\ c \in Nat /\ d \in Nat /\ e \in Nat
      BY <2>2
    <3>2. b - a = d - c /\ a = e + c
      BY <2>1, <2>2
    <3> HIDE DEF a, b, c, d, e
    <3>3. b = e + d
      BY <3>1, <3>2
    <3>4. QED
      BY <3>3 DEF b, d, e
  <2>4. QED
    BY <2>1, <2>3
<1>3. \A i \in 0..n : i \in T
  <2> HIDE DEF T
  <2>1. QED
    BY <1>1, <1>2, Ascends
<1>4. QED
  BY <1>3

\* A package more, and one less.
LEMMA EndsOfAppend ==
  ASSUME NEW s \in Seq(Body), NEW b \in Body
  PROVE  /\ \A i \in 0..Len(s) : Ends(Append(s, b))[i] = Ends(s)[i]
         /\ Used(Append(s, b)) = Used(s) + HeaderLen + Len(b)
<1> DEFINE t == Append(s, b)
           n == Len(s)
<1>1. /\ t \in Seq(Body) /\ Len(t) = n + 1 /\ n \in Nat
      /\ t[n + 1] = b /\ \A i \in 1..n : t[i] = s[i]
  OBVIOUS
<1>2. \A i \in 1..n : Len(s[i]) \in Nat
  BY <1>1, BodyIs
<1> HIDE DEF t
<1>3. \A i \in 0..n : Ends(t)[i] = Ends(t)[0] + Ends(s)[i]
  <2> DEFINE f == [i \in 0..n |-> Ends(t)[i]]
             g == Ends(s)
  <2>1. f[0] = 0 /\ g[0] = 0
    BY <1>1, EndsFacts
  <2>2. f \in [0..n -> Nat] /\ g \in [0..n -> Nat]
    <3>1. g \in [0..n -> Nat]
      BY EndsIs DEF Counts
    <3>2. \A i \in 0..n : Ends(t)[i] \in Nat
      BY <1>1, EndsFacts
    <3>3. QED
      BY <3>1, <3>2
  <2>3. ASSUME NEW i \in 0..n-1
        PROVE  f[i + 1] - f[i] = g[i + 1] - g[i]
    <3>1. /\ i + 1 \in 1..n /\ i + 1 \in 1..Len(t) /\ (i + 1) - 1 = i
          /\ t[i + 1] = s[i + 1] /\ Len(s[i + 1]) \in Nat
      BY <1>1, <1>2
    <3>2. /\ Ends(t)[i + 1] = Ends(t)[i] + HeaderLen + Len(t[i + 1])
          /\ g[i + 1] = g[i] + HeaderLen + Len(s[i + 1])
      BY <3>1, <1>1, EndsFacts
    <3>3. /\ f[i] \in Nat /\ g[i] \in Nat /\ f[i] = Ends(t)[i]
          /\ f[i + 1] = Ends(t)[i + 1]
      <4>1. i \in 0..n /\ i + 1 \in 0..n
        BY <1>1
      <4>2. QED
        BY <4>1, <2>2
    <3> DEFINE l == Len(s[i + 1])
    <3>4. f[i + 1] = f[i] + HeaderLen + l /\ g[i + 1] = g[i] + HeaderLen + l
      BY <3>1, <3>2, <3>3
    <3>5. f[i] \in Nat /\ g[i] \in Nat /\ l \in Nat
      BY <3>1, <3>3
    <3> HIDE DEF f, g, l
    <3>6. QED
      BY <3>4, <3>5 DEF HeaderLen
  <2>4. n \in Nat
    BY <1>1
  <2> HIDE DEF f, g, n
  <2>5. \A i \in 0..n : f[i] = f[0] + g[i]
    BY <2>1, <2>2, <2>3, <2>4, CountsAgree
  <2>6. QED
    BY <2>1, <2>5, <2>4 DEF f, g, n
<1>4. \A i \in 0..n : Ends(t)[i] = Ends(s)[i]
  BY <1>1, <1>3, EndsFacts
<1>5. Used(t) = Ends(t)[n + 1] /\ Ends(t)[n + 1] = Ends(t)[n] + HeaderLen + Len(b)
  <2> DEFINE m == Len(t)
  <2>1. m \in 1..m /\ m = n + 1 /\ m - 1 = n /\ t[m] = b
    BY <1>1
  <2>2. Ends(t)[m] = Ends(t)[m - 1] + HeaderLen + Len(t[m]) /\ Used(t) = Ends(t)[m]
    BY <2>1, <1>1, EndsFacts
  <2>3. QED
    BY <2>1, <2>2
<1>6. Used(s) = Ends(s)[n]
  BY EndsFacts
<1>7. QED
  BY <1>1, <1>4, <1>5, <1>6 DEF t

LEMMA EndsOfTail ==
  ASSUME NEW s \in Seq(Body), s # <<>>
  PROVE  /\ Head(s) \in Body /\ Tail(s) \in Seq(Body)
         /\ \A i \in 0..Len(s)-1 :
              Ends(s)[i + 1] = Ends(Tail(s))[i] + HeaderLen + Len(Head(s))
         /\ Used(s) = Used(Tail(s)) + HeaderLen + Len(Head(s))
<1> DEFINE t == Tail(s)
           n == Len(t)
<1>1. /\ t \in Seq(Body) /\ Len(s) = n + 1 /\ n \in Nat /\ Head(s) = s[1]
      /\ Head(s) \in Body /\ \A i \in 1..n : s[1 + i] = t[i]
  BY HeadTailProperties
<1>2. \A i \in 1..n : Len(t[i]) \in Nat
  BY <1>1, BodyIs
<1> HIDE DEF t
<1>3. \A i \in 0..n : Ends(s)[1 + i] = Ends(s)[1] + Ends(t)[i]
  <2> DEFINE f == [i \in 0..n |-> Ends(s)[1 + i]]
             g == Ends(t)
  <2>1. f[0] = Ends(s)[1] /\ g[0] = 0
    BY <1>1, EndsFacts
  <2>2. f \in [0..n -> Nat] /\ g \in [0..n -> Nat]
    <3>1. \A i \in 0..n : 1 + i \in 0..Len(s)
      BY <1>1
    <3>2. \A i \in 0..n : Ends(s)[1 + i] \in Nat
      BY <3>1, EndsFacts
    <3>3. g \in [0..n -> Nat]
      BY <1>1, EndsIs DEF Counts
    <3>4. QED
      BY <3>2, <3>3
  <2>3. ASSUME NEW i \in 0..n-1
        PROVE  f[i + 1] - f[i] = g[i + 1] - g[i]
    <3>1. /\ i + 1 \in 1..n /\ 1 + (i + 1) \in 1..Len(s) /\ (i + 1) - 1 = i
          /\ (1 + (i + 1)) - 1 = 1 + i
          /\ s[1 + (i + 1)] = t[i + 1] /\ Len(t[i + 1]) \in Nat
          /\ i \in 0..n /\ i + 1 \in 0..n
      BY <1>1, <1>2
    <3>2. /\ Ends(s)[1 + (i + 1)] = Ends(s)[1 + i] + HeaderLen + Len(s[1 + (i + 1)])
          /\ g[i + 1] = g[i] + HeaderLen + Len(t[i + 1])
      BY <3>1, <1>1, EndsFacts
    <3>3. f[i] \in Nat /\ g[i] \in Nat /\ f[i] = Ends(s)[1 + i]
          /\ f[i + 1] = Ends(s)[1 + (i + 1)]
      BY <2>2, <3>1
    <3>4. QED
      BY <3>1, <3>2, <3>3 DEF HeaderLen
  <2>4. n \in Nat
    BY <1>1
  <2> HIDE DEF f, g, n
  <2>5. \A i \in 0..n : f[i] = f[0] + g[i]
    BY <2>1, <2>2, <2>3, <2>4, CountsAgree
  <2>6. QED
    BY <2>1, <2>5, <2>4 DEF f, g, n
<1>4. Ends(s)[1] = HeaderLen + Len(Head(s)) /\ Len(Head(s)) \in Nat
  <2>1. 1 \in 1..Len(s) /\ 1 - 1 = 0
    BY <1>1
  <2>2. Ends(s)[1] = Ends(s)[0] + HeaderLen + Len(s[1]) /\ Ends(s)[0] = 0
    BY <2>1, EndsFacts
  <2>3. Len(s[1]) \in Nat
    BY <1>1, BodyIs
  <2>4. QED
    BY <2>2, <2>3, <1>1 DEF HeaderLen
<1>5. \A i \in 0..n : Ends(t)[i] \in Nat
  BY <1>1, EndsFacts
<1>6. ASSUME NEW i \in 0..n
      PROVE  Ends(s)[i + 1] = Ends(t)[i] + HeaderLen + Len(Head(s))
  <2>1. Ends(s)[1 + i] = Ends(s)[1] + Ends(t)[i] /\ 1 + i = i + 1
    BY <1>1, <1>3
  <2>2. Ends(t)[i] \in Nat
    BY <1>5
  <2>3. QED
    BY <2>1, <2>2, <1>4 DEF HeaderLen
<1>7. Used(s) = Ends(s)[n + 1] /\ Used(t) = Ends(t)[n]
  BY <1>1, EndsFacts
<1>8. QED
  BY <1>1, <1>6, <1>7 DEF t

-----------------------------------------------------------------------------
(* The bytes in the ring.                                                  *)

\* Byte k behind counter o, of the ring b.
At(b, o, k) == b[Slot(o, k)]

\* A package with its length.
Bytes(x) == LengthBytes(Len(x)) \o x

\* The bytes t lie in ring b, from byte at behind counter o.
Holds(b, o, t, at) == \A k \in 1..Len(t) : At(b, o, at + k - 1) = t[k]

\* The packages s do.
Whole(b, o, s) == \A i \in 1..Len(s) : Holds(b, o, Bytes(s[i]), Ends(s)[i - 1])

Rings == [0..Size-1 -> Nat]

LEMMA Glued ==
  ASSUME NEW s \in Seq(Nat), NEW t \in Seq(Nat)
  PROVE  /\ s \o t \in Seq(Nat) /\ Len(s \o t) = Len(s) + Len(t)
         /\ \A i \in 1..Len(s) + Len(t) :
              (s \o t)[i] = IF i <= Len(s) THEN s[i] ELSE t[i - Len(s)]
  BY ConcatProperties

LEMMA BytesIs ==
  ASSUME NEW x \in Body
  PROVE  /\ Bytes(x) \in Seq(Nat) /\ Len(Bytes(x)) = HeaderLen + Len(x)
         /\ \A k \in 1..HeaderLen : Bytes(x)[k] = LengthBytes(Len(x))[k]
         /\ \A k \in 1..Len(x) : Bytes(x)[HeaderLen + k] = x[k]
<1> DEFINE h == LengthBytes(Len(x))
<1>1. x \in Seq(Nat) /\ Len(x) \in Nat
  BY BodyIs
<1>2. h \in Seq(Nat) /\ Len(h) = HeaderLen
  BY <1>1, LengthRead
<1> HIDE DEF h
<1>3. /\ h \o x \in Seq(Nat) /\ Len(h \o x) = Len(h) + Len(x)
      /\ \A k \in 1..Len(h) + Len(x) :
           (h \o x)[k] = IF k <= Len(h) THEN h[k] ELSE x[k - Len(h)]
  BY <1>1, <1>2, ConcatProperties
<1>4. \A k \in 1..HeaderLen : (h \o x)[k] = h[k]
  BY <1>1, <1>2, <1>3 DEF HeaderLen
<1>5. \A k \in 1..Len(x) : (h \o x)[HeaderLen + k] = x[k]
  BY <1>1, <1>2, <1>3 DEF HeaderLen
<1>6. QED
  BY <1>2, <1>3, <1>4, <1>5 DEF Bytes, h

\* kfifo_internal_put fills the slots from in on, and no others.
LEMMA StoredIs ==
  ASSUME buf \in Rings, NEW at \in Nat, NEW s \in Seq(Nat), Len(s) <= Size
  PROVE  /\ Stored(s, at) \in Rings
         /\ \A k \in 0..Size-1 :
              Stored(s, at)[Slot(at, k)] = IF k < Len(s) THEN s[k + 1] ELSE buf[Slot(at, k)]
<1> DEFINE o == at % Size
           n == Least(Len(s), Size - o)
           cell(i) == IF i \in o..o + n - 1 THEN s[i - o + 1]
                      ELSE IF i < Len(s) - n THEN s[n + i + 1] ELSE buf[i]
<1> USE Numbers
<1>1. o \in 0..Size-1 /\ Len(s) \in Nat
  <2>1. o \in 0..Size-1
    BY Offset
  <2>2. Len(s) \in Nat
    OBVIOUS
  <2>3. QED
    BY <2>1, <2>2
<1>2. /\ n \in Nat /\ n <= Len(s) /\ n <= Size - o
      /\ n = Len(s) \/ n = Size - o
  BY <1>1 DEF Least
<1>3. Stored(s, at) = [i \in 0..Size-1 |-> cell(i)]
  BY DEF Stored
<1>4. Slot(at, 0) = Slot(at, 0) /\ \A k \in 0..Size-1 :
        Slot(at, k) = IF o + k < Size THEN o + k ELSE o + k - Size
  BY DEF Slot
<1> HIDE DEF o, n
<1>5. ASSUME NEW i \in 0..Size-1
      PROVE  cell(i) \in Nat
  <2>1. CASE i \in o..o + n - 1
    <3>1. i - o + 1 \in 1..Len(s)
      BY <1>1, <1>2, <2>1
    <3>2. QED
      BY <2>1, <3>1
  <2>2. CASE i \notin o..o + n - 1 /\ i < Len(s) - n
    <3>1. n + i + 1 \in 1..Len(s)
      BY <1>1, <1>2, <2>2
    <3>2. QED
      BY <2>2, <3>1
  <2>3. CASE i \notin o..o + n - 1 /\ ~ (i < Len(s) - n)
    BY <2>3 DEF Rings
  <2>4. QED
    BY <2>1, <2>2, <2>3
<1>6. ASSUME NEW k \in 0..Size-1
      PROVE  Stored(s, at)[Slot(at, k)] = IF k < Len(s) THEN s[k + 1] ELSE buf[Slot(at, k)]
  <2> DEFINE i == Slot(at, k)
  <2>1. i = IF o + k < Size THEN o + k ELSE o + k - Size
    BY <1>4
  <2>2. i \in 0..Size-1
    BY <2>1, <1>1
  <2>3. Stored(s, at)[i] = cell(i)
    BY <2>2, <1>3
  <2> HIDE DEF i
  <2>4. CASE o + k < Size /\ k < Len(s)
    <3>1. i \in o..o + n - 1 /\ i - o + 1 = k + 1
      BY <2>1, <2>4, <1>1, <1>2
    <3>2. QED
      BY <3>1, <2>3, <2>4 DEF i
  <2>5. CASE ~ (o + k < Size) /\ k < Len(s)
    <3>1. i \notin o..o + n - 1 /\ i < Len(s) - n /\ n + i + 1 = k + 1
      BY <2>1, <2>5, <1>1, <1>2
    <3>2. QED
      BY <3>1, <2>3, <2>5 DEF i
  <2>6. CASE ~ (k < Len(s))
    <3>1. i \notin o..o + n - 1 /\ ~ (i < Len(s) - n)
      BY <2>1, <2>6, <1>1, <1>2
    <3>2. QED
      BY <3>1, <2>3, <2>6 DEF i
  <2>7. QED
    BY <2>4, <2>5, <2>6
<1>7. Stored(s, at) \in Rings
  <2> HIDE DEF cell
  <2>1. QED
    BY <1>3, <1>5 DEF Rings
<1>8. QED
  BY <1>6, <1>7

\* The two copies of kfifo_pkg_get.
LEMMA LoadedIs ==
  ASSUME NEW at \in Nat, NEW len \in 0..Size
  PROVE  Loaded(at, len) = [i \in 1..len |-> At(buf, at, i - 1)]
<1> DEFINE o == at % Size
           n == Least(len, Size - o)
<1> USE Numbers
<1>1. o \in 0..Size-1
  BY DivMod
<1>2. n \in Nat /\ n <= len /\ n <= Size - o /\ (n = len \/ n = Size - o)
  BY <1>1 DEF Least
<1>3. Loaded(at, len) = [i \in 1..len |-> IF i <= n THEN buf[o + i - 1] ELSE buf[i - n - 1]]
  BY DEF Loaded
<1>4. \A i \in 1..len :
        Slot(at, i - 1) = IF o + (i - 1) < Size THEN o + (i - 1) ELSE o + (i - 1) - Size
  BY DEF Slot
<1> HIDE DEF o, n
<1>5. ASSUME NEW i \in 1..len
      PROVE  At(buf, at, i - 1) = IF i <= n THEN buf[o + i - 1] ELSE buf[i - n - 1]
  <2>1. Slot(at, i - 1) = IF i <= n THEN o + i - 1 ELSE i - n - 1
    BY <1>1, <1>2, <1>4
  <2>2. QED
    BY <2>1 DEF At
<1>6. QED
  BY <1>3, <1>5

\* A put behind f bytes leaves these alone.
LEMMA StoredBehind ==
  ASSUME buf \in Rings, out \in Counters, NEW f \in 0..Size, in = Wrap(out + f),
         NEW s \in Seq(Nat), f + Len(s) <= Size
  PROVE  /\ Stored(s, in) \in Rings
         /\ \A k \in 0..f-1 : At(Stored(s, in), out, k) = At(buf, out, k)
         /\ \A k \in 0..Len(s)-1 : At(Stored(s, in), out, f + k) = s[k + 1]
<1> USE Numbers DEF Counters
<1> DEFINE b == Stored(s, in)
<1>1. in \in Nat /\ Len(s) \in Nat
  <2>1. out + f \in Int /\ Len(s) \in Nat
    OBVIOUS
  <2>2. QED
    BY <2>1, DivMod DEF Wrap
<1>2. /\ b \in Rings
      /\ \A k \in 0..Size-1 : b[Slot(in, k)] = IF k < Len(s) THEN s[k + 1] ELSE buf[Slot(in, k)]
  BY <1>1, StoredIs
<1> HIDE DEF b
<1>3. ASSUME NEW k \in 0..f-1
      PROVE  At(b, out, k) = At(buf, out, k)
  <2> DEFINE j == Size - f + k
  <2>1. j \in 0..Size-1 /\ ~ (j < Len(s)) /\ ~ (f + j < Size) /\ f + j - Size = k
    BY <1>1
  <2> HIDE DEF j
  <2>2. Slot(in, j) = Slot(out, k)
    BY <2>1, SlotMoves
  <2>3. b[Slot(in, j)] = buf[Slot(in, j)]
    BY <2>1, <1>2
  <2>4. QED
    BY <2>2, <2>3 DEF At
<1>4. ASSUME NEW k \in 0..Len(s)-1
      PROVE  At(b, out, f + k) = s[k + 1]
  <2>1. k \in 0..Size-1 /\ f + k < Size /\ k < Len(s)
    BY <1>1
  <2>2. Slot(in, k) = Slot(out, f + k)
    BY <2>1, SlotMoves
  <2>3. b[Slot(in, k)] = s[k + 1]
    BY <2>1, <1>2
  <2>4. QED
    BY <2>2, <2>3 DEF At
<1>5. QED
  BY <1>2, <1>3, <1>4 DEF b

\* Package i of s lies before its end.
LEMMA EndOf ==
  ASSUME NEW s \in Seq(Body), NEW i \in 1..Len(s)
  PROVE  /\ s[i] \in Body /\ Len(Bytes(s[i])) = HeaderLen + Len(s[i])
         /\ Ends(s)[i - 1] \in Nat
         /\ Ends(s)[i] = Ends(s)[i - 1] + HeaderLen + Len(s[i])
         /\ Ends(s)[i] <= Used(s) /\ Used(s) \in Nat /\ Ends(s)[i] \in Nat
<1>1. s[i] \in Body /\ i \in 0..Len(s) /\ i - 1 \in 0..Len(s)
  OBVIOUS
<1>2. QED
  BY <1>1, EndsFacts, BytesIs

\* The bytes of the packages of s are all that they need.
LEMMA WholeKeeps ==
  ASSUME NEW s \in Seq(Body), NEW b, NEW c, NEW o, Whole(b, o, s),
         \A k \in 0..Used(s)-1 : At(c, o, k) = At(b, o, k)
  PROVE  Whole(c, o, s)
<1> SUFFICES ASSUME NEW i \in 1..Len(s), NEW k \in 1..Len(Bytes(s[i]))
             PROVE  At(c, o, Ends(s)[i - 1] + k - 1) = Bytes(s[i])[k]
  BY DEF Whole, Holds
<1> DEFINE e == Ends(s)[i - 1]
           l == Len(s[i])
<1>1. At(b, o, e + k - 1) = Bytes(s[i])[k]
  BY DEF Whole, Holds
<1>2. /\ e \in Nat /\ e + HeaderLen + l <= Used(s) /\ l \in Nat /\ Used(s) \in Nat
      /\ Len(Bytes(s[i])) = HeaderLen + l
  BY EndOf, BodyIs
<1>3. k \in 1..HeaderLen + l
  BY <1>2
<1> HIDE DEF e, l
<1>4. e + k - 1 \in 0..Used(s)-1
  BY <1>2, <1>3 DEF HeaderLen
<1>5. QED
  BY <1>1, <1>4 DEF e

\* A package behind the others joins them.
LEMMA WholeAppend ==
  ASSUME NEW s \in Seq(Body), NEW x \in Body, NEW b, NEW o, Whole(b, o, s),
         Holds(b, o, Bytes(x), Used(s))
  PROVE  Whole(b, o, Append(s, x))
<1> DEFINE t == Append(s, x)
           n == Len(s)
<1>1. /\ Len(t) = n + 1 /\ n \in Nat /\ t[n + 1] = x /\ \A i \in 1..n : t[i] = s[i]
  OBVIOUS
<1>2. /\ \A i \in 0..n : Ends(t)[i] = Ends(s)[i]
      /\ Used(s) = Ends(s)[n]
  BY EndsOfAppend, EndsFacts
<1> HIDE DEF t, n
<1>3. ASSUME NEW i \in 1..n + 1
      PROVE  Holds(b, o, Bytes(t[i]), Ends(t)[i - 1])
  <2>1. CASE i \in 1..n
    <3>1. i - 1 \in 0..n /\ t[i] = s[i]
      BY <1>1, <2>1
    <3>2. Holds(b, o, Bytes(s[i]), Ends(s)[i - 1])
      BY <2>1 DEF Whole, n
    <3>3. QED
      BY <3>1, <3>2, <1>2
  <2>2. CASE i = n + 1
    <3>1. i - 1 = n /\ n \in 0..n
      BY <1>1, <2>2
    <3>2. QED
      BY <3>1, <2>2, <1>1, <1>2
  <2>3. QED
    BY <1>1, <2>1, <2>2
<1>4. QED
  BY <1>1, <1>3 DEF Whole, t

\* Without the oldest package, they lie behind the counter that moved over it.
LEMMA WholeTail ==
  ASSUME NEW s \in Seq(Body), s # <<>>, NEW b, NEW o \in Counters, Whole(b, o, s),
         Used(s) <= Size
  PROVE  Whole(b, Wrap(o + (HeaderLen + Len(Head(s)))), Tail(s))
<1> DEFINE t == Tail(s)
           n == HeaderLen + Len(Head(s))
           m == Len(t)
<1>1. /\ t \in Seq(Body) /\ Len(s) = m + 1 /\ m \in Nat
      /\ \A i \in 1..m : s[i + 1] = t[i]
  BY HeadTailProperties
<1>2. /\ \A i \in 0..m : Ends(s)[i + 1] = Ends(t)[i] + n
      /\ n \in Nat
  <2>1. Head(s) \in Body
    BY EndsOfTail
  <2>2. \A i \in 0..m : Ends(s)[i + 1] = Ends(t)[i] + HeaderLen + Len(Head(s))
    BY <1>1, EndsOfTail
  <2>3. \A i \in 0..m : Ends(t)[i] \in Nat
    BY <1>1, EndsFacts
  <2>4. Len(Head(s)) \in Nat
    BY <2>1, BodyIs
  <2>5. ASSUME NEW i \in 0..m
        PROVE  Ends(s)[i + 1] = Ends(t)[i] + n
    <3> DEFINE e == Ends(t)[i]
               l == Len(Head(s))
    <3>1. Ends(s)[i + 1] = e + HeaderLen + l /\ e \in Nat /\ l \in Nat
      BY <2>2, <2>3, <2>4
    <3> HIDE DEF e, l
    <3>2. Ends(s)[i + 1] = e + (HeaderLen + l)
      BY <3>1 DEF HeaderLen
    <3>3. QED
      BY <3>2 DEF e, l
  <2>6. QED
    BY <2>4, <2>5 DEF HeaderLen
<1> SUFFICES ASSUME NEW i \in 1..m, NEW k \in 1..Len(Bytes(t[i]))
             PROVE  At(b, Wrap(o + n), Ends(t)[i - 1] + k - 1) = Bytes(t[i])[k]
  BY DEF Whole, Holds
<1> HIDE DEF t, m, n
<1> DEFINE e == Ends(t)[i - 1]
           l == Len(t[i])
           j == e + k - 1
<1>3. i + 1 \in 1..Len(s) /\ (i + 1) - 1 = i /\ t[i] = s[i + 1] /\ i - 1 \in 0..m
      /\ (i - 1) + 1 = i
  BY <1>1
<1>4. /\ Holds(b, o, Bytes(s[i + 1]), Ends(s)[(i + 1) - 1])
      /\ Ends(s)[i] = e + n
  BY <1>3, <1>2 DEF Whole
<1>5. /\ e \in Nat /\ l \in Nat /\ Len(Bytes(t[i])) = HeaderLen + l
      /\ e + n + HeaderLen + l <= Used(s) /\ Used(s) \in Nat
  <2>1. e \in Nat /\ Len(Bytes(t[i])) = HeaderLen + l /\ l \in Nat
    <3>1. i \in 1..Len(t)
      BY DEF m
    <3>2. QED
      BY <3>1, <1>1, EndOf, BodyIs
  <2>2. Ends(s)[i + 1] = Ends(s)[(i + 1) - 1] + HeaderLen + Len(s[i + 1]) /\ Ends(s)[i + 1] <= Used(s)
        /\ Used(s) \in Nat
    BY <1>3, EndOf
  <2>3. QED
    BY <2>1, <2>2, <1>3, <1>4
<1>6. k \in 1..HeaderLen + l
  BY <1>5
<1>7. At(b, o, (e + n) + k - 1) = Bytes(t[i])[k]
  BY <1>3, <1>4 DEF Holds
<1>8. n + j \in 0..Size-1 /\ j \in 0..Size-1 /\ (e + n) + k - 1 = n + j /\ n \in 0..Size
  <2> HIDE DEF e, l
  <2>1. QED
    BY <1>2, <1>5, <1>6, Numbers DEF HeaderLen
<1> HIDE DEF j
<1>9. Slot(Wrap(o + n), j) = Slot(o, n + j)
  <2>1. /\ o \in 0..CounterMod-1 /\ n \in 0..Size /\ j \in 0..Size-1
        /\ n + j < Size
    BY <1>8, Numbers DEF Counters
  <2>2. QED
    BY <2>1, SlotMoves
<1>10. At(b, Wrap(o + n), j) = At(b, o, n + j)
  BY <1>9 DEF At
<1>11. QED
  BY <1>7, <1>8, <1>10 DEF j

\* What kfifo_pkg_get copies is the oldest package.
LEMMA HeadRead ==
  ASSUME NEW s \in Seq(Body), s # <<>>, out \in Counters, Whole(buf, out, s),
         Used(s) <= Size
  PROVE  /\ LengthOf(Loaded(out, HeaderLen)) = Len(Head(s))
         /\ Loaded(out + HeaderLen, Len(Head(s))) = Head(s)
         /\ Used(s) = Used(Tail(s)) + HeaderLen + Len(Head(s)) /\ Used(Tail(s)) \in Nat
<1> DEFINE x == Head(s)
           l == Len(x)
<1>1. x \in Body /\ x \in Seq(Nat) /\ l \in Nat
  BY EndsOfTail, BodyIs
<1>2. Used(s) = Used(Tail(s)) + HeaderLen + l /\ Used(Tail(s)) \in Nat
  BY EndsOfTail, EndsFacts
<1>3. HeaderLen + l <= Size /\ HeaderLen \in 0..Size /\ l \in 0..Size
  BY <1>1, <1>2, Numbers DEF HeaderLen
<1>4. \A k \in 1..HeaderLen + l : At(buf, out, k - 1) = Bytes(x)[k]
  <2>1. 1 \in 1..Len(s) /\ 1 - 1 = 0 /\ s[1] = x
    OBVIOUS
  <2>2. Holds(buf, out, Bytes(x), Ends(s)[0])
    BY <2>1 DEF Whole
  <2>3. Ends(s)[0] = 0 /\ Len(Bytes(x)) = HeaderLen + l
    BY <1>1, EndsFacts, BytesIs
  <2> HIDE DEF x, l
  <2>4. ASSUME NEW k \in 1..HeaderLen + l
        PROVE  At(buf, out, k - 1) = Bytes(x)[k]
    <3>1. 0 + k - 1 = k - 1
      OBVIOUS
    <3>2. At(buf, out, 0 + k - 1) = Bytes(x)[k]
      BY <2>2, <2>3 DEF Holds
    <3>3. QED
      BY <3>1, <3>2
  <2>5. QED
    BY <2>4
<1>5. out \in Nat
  BY Numbers DEF Counters
<1> HIDE DEF x, l
<1>6. LengthOf(Loaded(out, HeaderLen)) = l
  <2>1. Loaded(out, HeaderLen) = [i \in 1..HeaderLen |-> At(buf, out, i - 1)]
    BY <1>3, <1>5, LoadedIs
  <2>2. \A i \in 1..HeaderLen : i \in 1..HeaderLen + l
    BY <1>1 DEF HeaderLen
  <2>3. \A i \in 1..HeaderLen : Loaded(out, HeaderLen)[i] = LengthBytes(l)[i]
    BY <1>1, <1>4, <2>1, <2>2, BytesIs DEF l
  <2>4. 1 \in 1..HeaderLen /\ 2 \in 1..HeaderLen /\ 3 \in 1..HeaderLen /\ 4 \in 1..HeaderLen
    BY DEF HeaderLen
  <2>5. LengthOf(Loaded(out, HeaderLen)) = LengthOf(LengthBytes(l))
    BY <2>3, <2>4 DEF LengthOf
  <2>6. QED
    BY <2>5, <1>1, LengthRead
<1>7. Loaded(out + HeaderLen, l) = x
  <2>1. Loaded(out + HeaderLen, l) = [i \in 1..l |-> At(buf, out + HeaderLen, i - 1)]
    <3>1. out + HeaderLen \in Nat
      BY <1>5 DEF HeaderLen
    <3>2. QED
      BY <3>1, <1>3, LoadedIs
  <2>2. ASSUME NEW i \in 1..l
        PROVE  At(buf, out + HeaderLen, i - 1) = x[i]
    <3> DEFINE j == i - 1
    <3>1. /\ j \in 0..Size-1 /\ HeaderLen + j < Size
          /\ HeaderLen + j = (HeaderLen + i) - 1 /\ HeaderLen + i \in 1..HeaderLen + l
      BY <1>1, <1>3, Numbers DEF HeaderLen
    <3> HIDE DEF j
    <3>2. Slot(out + HeaderLen, j) = Slot(out, HeaderLen + j)
      BY <3>1, <1>3, SlotMoves DEF Counters
    <3>3. At(buf, out + HeaderLen, j) = At(buf, out, (HeaderLen + i) - 1)
      BY <3>1, <3>2 DEF At
    <3>4. At(buf, out, (HeaderLen + i) - 1) = Bytes(x)[HeaderLen + i]
      BY <3>1, <1>4
    <3>5. Bytes(x)[HeaderLen + i] = x[i]
      BY <1>1, BytesIs DEF l
    <3>6. QED
      BY <3>3, <3>4, <3>5 DEF j
  <2>3. x = [i \in 1..l |-> x[i]]
    BY <1>1 DEF l
  <2>4. QED
    BY <2>1, <2>2, <2>3
<1>8. QED
  BY <1>2, <1>6, <1>7 DEF x, l

-----------------------------------------------------------------------------
(* The inductive invariant.                                                *)

IsInside(p) == p \in {"check", "copy", "refused"}

\* OneInside, writer by writer.
Exclusive ==
  /\ \A v, w \in Writer : IsInside(pc[v]) /\ IsInside(pc[w]) => v = w
  /\ \A w \in Writer : IsInside(pc[w]) => lock /\ ~Reading
  /\ Reading => lock

\* What the reader knows of the oldest package.
Oldest ==
  /\ rpc \in {"lock", "read"} =>
       rlen <= rbuf /\ (rlen = rbuf \/ (q # <<>> /\ rlen = Len(Head(q))))
  /\ rpc = "unlock" =>
       /\ result.code = "ok" => /\ q # <<>> /\ result.data = Head(q)
                                /\ Len(Head(q)) <= rbuf
       /\ result.code = "empty" => q = <<>>
       /\ result.code = "small" => q # <<>> /\ rlen = Len(Head(q)) /\ rbuf < rlen
  /\ rpc = "grow" => q # <<>> /\ rlen = Len(Head(q))
  /\ result.code = "ok" => rpc = "unlock"

Room == Used(q) <= Size

\* The bytes of the chunks, one after the other.
Rest(cs) ==
  IF Len(cs) = 0 THEN <<>>
  ELSE IF Len(cs) = 1 THEN cs[1]
  ELSE IF Len(cs) = 2 THEN cs[1] \o cs[2]
  ELSE cs[1] \o (cs[2] \o cs[3])

\* The chunks are what package x has from byte c on.
Left(cs, x, c) ==
  /\ Rest(cs) \in Seq(Nat)
  /\ Len(Rest(cs)) + c = HeaderLen + Len(x)
  /\ \A k \in 1..Len(Rest(cs)) : Rest(cs)[k] = Bytes(x)[c + k]

\* The first c bytes of package x lie behind the packages of s.
Begun(b, o, s, x, c) == \A k \in 1..c : At(b, o, Used(s) + k - 1) = Bytes(x)[k]

\* How far a writer has come.
Copying(w) ==
  /\ Used(q) + HeaderLen + Len(body[w]) <= Size
  /\ Whole(buf, out, q)
  /\ \E c \in 0..HeaderLen + Len(body[w]) :
       /\ Left(chunks[w], body[w], c)
       /\ Filled = Used(q) + c
       /\ Begun(buf, out, q, body[w], c)

\* What writer w knows while it puts.
Prepared(w) ==
  /\ pc[w] \in {"lock", "check", "copy", "refused"} => body[w] \in Body
  /\ pc[w] \in {"lock", "check"} => Left(chunks[w], body[w], 0)
  /\ pc[w] = "refused" => Used(q) + HeaderLen + Len(body[w]) > Size
  /\ pc[w] = "copy" => Copying(w)

Putting == \A w \in Writer : Prepared(w)

\* The packages in the ring: one that was copied out has left it.
Stored_q == IF rpc = "unlock" /\ result.code = "ok" THEN Tail(q) ELSE q

\* No package is half written.
Settled == ~lock \/ Reading \/ \E w \in Writer : pc[w] \in {"check", "refused"}

RingHolds == Filled = Used(Stored_q) /\ Whole(buf, out, Stored_q)

Inv ==
  /\ TypeOK /\ Exclusive
  /\ Oldest /\ Room /\ Putting
  /\ Settled => RingHolds

-----------------------------------------------------------------------------
(* Lemmas about its parts.                                                 *)

LEMMA LeftAll ==
  ASSUME NEW b \in Body, NEW cs, Rest(cs) = Bytes(b)
  PROVE  Left(cs, b, 0)
<1> DEFINE y == Bytes(b)
<1>1. y \in Seq(Nat) /\ Len(y) = HeaderLen + Len(b) /\ Len(b) \in Nat
  BY BytesIs, BodyIs
<1> HIDE DEF y
<1>2. Rest(cs) = y
  BY DEF y
<1>3. Len(y) + 0 = HeaderLen + Len(b)
  BY <1>1 DEF HeaderLen
<1>4. \A k \in 1..Len(y) : 0 + k = k
  BY <1>1
<1>5. \A k \in 1..Len(y) : y[k] = Bytes(b)[0 + k]
  BY <1>4 DEF y
<1>6. QED
  BY <1>1, <1>2, <1>3, <1>5 DEF Left

\* A put starts with the whole package to copy, in two chunks or in three.
LEMMA LeftIs ==
  ASSUME NEW b \in Body
  PROVE  /\ Left(<<LengthBytes(Len(b)), b>>, b, 0)
         /\ Len(b) > 1 => Left(<<LengthBytes(Len(b)), <<Head(b)>>, Tail(b)>>, b, 0)
<1> DEFINE h == LengthBytes(Len(b))
           t == Tail(b)
<1>1. b \in Seq(Nat) /\ Len(b) \in Nat \ {0} /\ b # <<>>
  BY BodyIs
<1>2. h \in Seq(Nat)
  BY <1>1, LengthRead
<1>3. Left(<<h, b>>, b, 0)
  <2>1. Rest(<<h, b>>) = h \o b /\ h \o b = Bytes(b)
    BY DEF Rest, Bytes
  <2>2. QED
    BY <2>1, LeftAll
<1>4. <<Head(b)>> \o t = b
  <2>1. t \in Seq(Nat) /\ Len(t) = Len(b) - 1 /\ Head(b) = b[1] /\ Head(b) \in Nat
        /\ \A i \in 1..Len(t) : t[i] = b[i + 1]
    BY <1>1, HeadTailProperties
  <2> DEFINE c == <<Head(b)>>
             d == c \o t
  <2>2. c \in Seq(Nat) /\ Len(c) = 1 /\ c[1] = Head(b)
    BY <2>1
  <2> HIDE DEF c, t
  <2>0. /\ d \in Seq(Nat) /\ Len(d) = Len(c) + Len(t)
        /\ \A i \in 1..Len(c) + Len(t) : d[i] = IF i <= Len(c) THEN c[i] ELSE t[i - Len(c)]
    <3>1. c \in Seq(Nat) /\ t \in Seq(Nat)
      BY <2>1, <2>2
    <3>2. QED
      BY <3>1, Glued
  <2> HIDE DEF d
  <2>3. /\ d \in Seq(Nat) /\ Len(d) = 1 + Len(t)
        /\ \A i \in 1..1 + Len(t) : d[i] = IF i <= 1 THEN c[i] ELSE t[i - 1]
    BY <2>0, <2>2
  <2> HIDE DEF d
  <2>4. Len(d) = Len(b)
    BY <2>1, <2>3, <1>1
  <2>5. ASSUME NEW i \in 1..Len(b)
        PROVE  d[i] = b[i]
    <3>1. CASE i = 1
      BY <3>1, <2>1, <2>2, <2>3, <1>1
    <3>2. CASE i # 1
      <4>1. i - 1 \in 1..Len(t) /\ (i - 1) + 1 = i /\ i \in 1..1 + Len(t) /\ ~ (i <= 1)
        BY <3>2, <2>1, <1>1
      <4>2. d[i] = t[i - 1] /\ t[i - 1] = b[(i - 1) + 1]
        BY <4>1, <2>1, <2>3
      <4>3. QED
        BY <4>1, <4>2
    <3>3. QED
      BY <3>1, <3>2
  <2>6. d = b
    BY <2>3, <2>4, <2>5, <1>1, SeqEqual
  <2>7. QED
    BY <2>6 DEF d, c
<1>5. Left(<<h, <<Head(b)>>, t>>, b, 0)
  <2> DEFINE c == <<Head(b)>>
  <2> HIDE DEF h, t, c
  <2>1. Rest(<<h, c, t>>) = h \o (c \o t)
    BY DEF Rest
  <2>2. c \o t = b
    BY <1>4 DEF c
  <2>3. h \o b = Bytes(b)
    BY DEF Bytes, h
  <2>4. Left(<<h, c, t>>, b, 0)
    BY <2>1, <2>2, <2>3, LeftAll
  <2>5. QED
    BY <2>4 DEF c
<1>6. QED
  BY <1>3, <1>5

\* The next chunk is the next bytes of the package.
LEMMA LeftNext ==
  ASSUME NEW x \in Body, NEW cs \in Seq(Seq(Nat)), Len(cs) <= 3, cs # <<>>,
         NEW c \in Nat, Left(cs, x, c)
  PROVE  /\ Head(cs) \in Seq(Nat)
         /\ c + Len(Head(cs)) <= HeaderLen + Len(x)
         /\ \A k \in 1..Len(Head(cs)) : Head(cs)[k] = Bytes(x)[c + k]
         /\ Left(Tail(cs), x, c + Len(Head(cs)))
<1> DEFINE h == Head(cs)
           r == Rest(Tail(cs))
<1>1. /\ h \in Seq(Nat)
      /\ \/ r \in Seq(Nat) /\ Rest(cs) = h \o r
         \/ r = <<>> /\ Rest(cs) = h
  <2> DEFINE t == Tail(cs)
  <2>1. /\ t \in Seq(Seq(Nat)) /\ Len(t) = Len(cs) - 1 /\ h = cs[1] /\ h \in Seq(Nat)
        /\ \A i \in 1..Len(t) : t[i] = cs[i + 1]
    BY HeadTailProperties
  <2> HIDE DEF h, t
  <2>2. CASE Len(cs) = 1
    <3>1. Len(t) = 0
      BY <2>1, <2>2
    <3>2. QED
      BY <2>1, <2>2, <3>1 DEF Rest, t
  <2>3. CASE Len(cs) = 2
    <3>1. Len(t) = 1 /\ 1 \in 1..Len(t)
      BY <2>1, <2>3
    <3>2. t[1] = cs[2] /\ t[1] \in Seq(Nat)
      BY <3>1, <2>1
    <3>3. Rest(t) = t[1] /\ Rest(cs) = cs[1] \o cs[2]
      BY <3>1, <2>3 DEF Rest
    <3>4. QED
      BY <2>1, <3>2, <3>3 DEF t
  <2>4. CASE Len(cs) = 3
    <3>1. Len(t) = 2 /\ 1 \in 1..Len(t) /\ 2 \in 1..Len(t)
      BY <2>1, <2>4
    <3>2. t[1] = cs[2] /\ t[2] = cs[3] /\ t[1] \in Seq(Nat) /\ t[2] \in Seq(Nat)
      BY <3>1, <2>1
    <3>3. t[1] \o t[2] \in Seq(Nat)
      BY <3>2, ConcatProperties
    <3>4. /\ Rest(t) = t[1] \o t[2]
          /\ Rest(cs) = cs[1] \o (cs[2] \o cs[3])
      BY <3>1, <2>4 DEF Rest
    <3>5. QED
      BY <2>1, <3>2, <3>3, <3>4 DEF t
  <2>5. Len(cs) \in {1, 2, 3}
    <3>1. Len(cs) \in Nat /\ Len(cs) # 0
      BY EmptySeq
    <3> DEFINE n == Len(cs)
    <3>2. n \in Nat /\ n # 0 /\ n <= 3
      BY <3>1
    <3> HIDE DEF n
    <3>3. n \in {1, 2, 3}
      BY <3>2
    <3>4. QED
      BY <3>3 DEF n
  <2>6. QED
    BY <2>2, <2>3, <2>4, <2>5
<1>2. /\ h \in Seq(Nat) /\ r \in Seq(Nat) /\ Len(Rest(cs)) = Len(h) + Len(r)
      /\ \A k \in 1..Len(h) : Rest(cs)[k] = h[k]
      /\ \A k \in 1..Len(r) : Rest(cs)[Len(h) + k] = r[k]
  <2> HIDE DEF h, r
  <2>1. CASE h \in Seq(Nat) /\ r \in Seq(Nat) /\ Rest(cs) = h \o r
    <3>1. /\ Len(h \o r) = Len(h) + Len(r)
          /\ \A k \in 1..Len(h) + Len(r) :
               (h \o r)[k] = IF k <= Len(h) THEN h[k] ELSE r[k - Len(h)]
      BY <2>1, ConcatProperties
    <3>2. Len(h) \in Nat /\ Len(r) \in Nat
      BY <2>1
    <3>3. \A k \in 1..Len(h) : k \in 1..Len(h) + Len(r) /\ k <= Len(h)
      BY <3>2
    <3>4. \A k \in 1..Len(r) : /\ Len(h) + k \in 1..Len(h) + Len(r)
                               /\ ~ (Len(h) + k <= Len(h)) /\ (Len(h) + k) - Len(h) = k
      BY <3>2
    <3>5. QED
      BY <2>1, <3>1, <3>3, <3>4
  <2>2. CASE Rest(cs) = h /\ r = <<>> /\ h \in Seq(Nat)
    BY <2>2
  <2>3. QED
    BY <1>1, <2>1, <2>2
<1> DEFINE m == Len(h)
           l == Len(x)
           n == Len(r)
<1>3. m \in Nat /\ n \in Nat /\ l \in Nat /\ m + n + c = HeaderLen + l
  <2>1. Len(Rest(cs)) + c = HeaderLen + Len(x)
    BY DEF Left
  <2>2. QED
    BY <2>1, <1>2, BodyIs
<1>4. \A k \in 1..m + n : Rest(cs)[k] = Bytes(x)[c + k]
  BY <1>2 DEF Left
<1> HIDE DEF h, r, m, l, n
<1>5. \A k \in 1..m : h[k] = Bytes(x)[c + k]
  <2>1. \A k \in 1..m : k \in 1..m + n
    BY <1>3
  <2>2. QED
    BY <2>1, <1>2, <1>4 DEF m
<1>6. \A k \in 1..n : r[k] = Bytes(x)[(c + m) + k]
  <2>1. \A k \in 1..n : m + k \in 1..m + n /\ c + (m + k) = (c + m) + k
    BY <1>3
  <2>2. QED
    BY <2>1, <1>2, <1>4 DEF m, n
<1>7. c + m <= HeaderLen + l /\ n + (c + m) = HeaderLen + l
  BY <1>3 DEF HeaderLen
<1>8. Left(Tail(cs), x, c + m)
  BY <1>2, <1>6, <1>7 DEF Left, r, n, l
<1>9. QED
  BY <1>2, <1>5, <1>7, <1>8 DEF h, m, l

\* A step that leaves the ring, the packages and a writer alone.
LEMMA PreparedSame ==
  ASSUME NEW v \in Writer, Prepared(v), UNCHANGED <<buf, in, out, q>>,
         pc'[v] = pc[v], body'[v] = body[v], chunks'[v] = chunks[v]
  PROVE  Prepared(v)'
<1>1. Filled' = Filled
  BY DEF Filled
<1>2. Copying(v) => Copying(v)'
  BY <1>1 DEF Copying
<1>3. QED
  BY <1>2 DEF Prepared

\* A writer that is not inside knows nothing of the ring.
LEMMA PreparedOutside ==
  ASSUME NEW v \in Writer, Prepared(v), ~IsInside(pc[v]),
         pc'[v] = pc[v], body'[v] = body[v], chunks'[v] = chunks[v]
  PROVE  Prepared(v)'
  BY DEF Prepared, IsInside

LEMMA RingSame ==
  ASSUME UNCHANGED <<buf, in, out>>, Stored_q' = Stored_q
  PROVE  RingHolds' = RingHolds
<1>1. Filled' = Filled
  BY DEF Filled
<1>2. QED
  BY <1>1 DEF RingHolds

-----------------------------------------------------------------------------
(* The steps of a writer.                                                  *)

LEMMA StartPutStep ==
  ASSUME Inv, NEW w \in Writer, StartPut(w)
  PROVE  Inv'
<1> USE DEF Inv
<1>1. PICK b \in Body, cs \in Seq(Seq(Nat)) :
        /\ Len(cs) <= 3 /\ Left(cs, b, 0)
        /\ body' = [body EXCEPT ![w] = b]
        /\ chunks' = [chunks EXCEPT ![w] = cs]
  <2>1. PICK b \in Body :
          /\ body' = [body EXCEPT ![w] = b]
          /\ \/ chunks' = [chunks EXCEPT ![w] = <<LengthBytes(Len(b)), b>>]
             \/ /\ Len(b) > 1
                /\ chunks' = [chunks EXCEPT ![w] =
                     <<LengthBytes(Len(b)), <<Head(b)>>, Tail(b)>>]
    BY DEF StartPut
  <2> DEFINE h == LengthBytes(Len(b))
  <2>2. b \in Seq(Nat) /\ h \in Seq(Nat) /\ Tail(b) \in Seq(Nat) /\ <<Head(b)>> \in Seq(Nat)
    BY BodyIs, LengthRead
  <2> HIDE DEF h
  <2>3. /\ <<h, b>> \in Seq(Seq(Nat)) /\ Len(<<h, b>>) <= 3
        /\ <<h, <<Head(b)>>, Tail(b)>> \in Seq(Seq(Nat))
        /\ Len(<<h, <<Head(b)>>, Tail(b)>>) <= 3
    BY <2>2
  <2>4. QED
    BY <2>1, <2>3, LeftIs DEF h
<1>2. /\ pc[w] = "idle" /\ pc' = [pc EXCEPT ![w] = "lock"]
      /\ puts < MaxPut /\ puts' = puts + 1
      /\ UNCHANGED <<buf, in, out, lock, rpc, rlen, rbuf, result, q, said, heard>>
  BY DEF StartPut, shared, reader, answers
<1>3. TypeOK'
  <2>1. puts' \in 0..MaxPut
    BY <1>2, KFifoAssumption DEF TypeOK
  <2>2. chunks' \in [Writer -> Seq(Seq(Nat))] /\ \A v \in Writer : Len(chunks'[v]) <= 3
    BY <1>1 DEF TypeOK
  <2>3. QED
    BY <1>1, <1>2, <2>1, <2>2 DEF TypeOK
<1>4. Exclusive'
  BY <1>2 DEF Exclusive, IsInside, Reading, TypeOK
<1>5. Oldest' /\ Room'
  BY <1>2 DEF Oldest, Room
<1>6. Putting'
  <2>1. Prepared(w)'
    BY <1>1, <1>2 DEF Prepared, TypeOK
  <2>2. ASSUME NEW v \in Writer, v # w
        PROVE  Prepared(v)'
    BY <1>1, <1>2, <2>2, PreparedSame DEF Putting, TypeOK
  <2>3. QED
    BY <2>1, <2>2 DEF Putting
<1>7. Settled' => RingHolds'
  <2>1. Settled' => Settled
    BY <1>2 DEF Settled, Reading, TypeOK
  <2>2. RingHolds' = RingHolds
    BY <1>2, RingSame DEF Stored_q
  <2>3. QED
    BY <2>1, <2>2
<1>8. QED
  BY <1>3, <1>4, <1>5, <1>6, <1>7

LEMMA CrashStep ==
  ASSUME Inv, NEW w \in Writer, Crash(w)
  PROVE  Inv'
<1> USE DEF Inv
<1>1. /\ pc' = [pc EXCEPT ![w] = "dead"]
      /\ UNCHANGED <<buf, in, out, lock, body, chunks, puts, rpc, rlen, rbuf, result,
                     q, said, heard>>
  BY DEF Crash, shared, reader, answers
<1>2. TypeOK'
  BY <1>1 DEF TypeOK
<1>3. Exclusive'
  BY <1>1 DEF Exclusive, IsInside, Reading, TypeOK
<1>4. Oldest' /\ Room'
  BY <1>1 DEF Oldest, Room
<1>5. Putting'
  <2>1. Prepared(w)'
    BY <1>1 DEF Prepared, TypeOK
  <2>2. ASSUME NEW v \in Writer, v # w
        PROVE  Prepared(v)'
    BY <1>1, <2>2, PreparedSame DEF Putting, TypeOK
  <2>3. QED
    BY <2>1, <2>2 DEF Putting
<1>6. Settled' => RingHolds'
  <2>1. Settled' => Settled
    BY <1>1 DEF Settled, Reading, TypeOK
  <2>2. RingHolds' = RingHolds
    BY <1>1, RingSame DEF Stored_q
  <2>3. QED
    BY <2>1, <2>2
<1>7. QED
  BY <1>2, <1>3, <1>4, <1>5, <1>6

LEMMA PutLockStep ==
  ASSUME Inv, NEW w \in Writer, PutLock(w)
  PROVE  Inv'
<1> USE DEF Inv
<1>1. /\ pc[w] = "lock" /\ pc' = [pc EXCEPT ![w] = "check"]
      /\ ~lock /\ lock' = TRUE
      /\ UNCHANGED <<buf, in, out, body, chunks, puts, rpc, rlen, rbuf, result,
                     q, said, heard>>
  BY DEF PutLock, reader, answers
<1>2. TypeOK'
  BY <1>1 DEF TypeOK
<1>3. Exclusive'
  <2>1. ~Reading /\ \A v \in Writer : ~IsInside(pc[v])
    BY <1>1 DEF Exclusive
  <2>2. QED
    BY <1>1, <2>1 DEF Exclusive, IsInside, Reading, TypeOK
<1>4. Oldest' /\ Room'
  BY <1>1 DEF Oldest, Room
<1>5. Putting'
  <2>1. Prepared(w)'
    BY <1>1 DEF Putting, Prepared, TypeOK
  <2>2. ASSUME NEW v \in Writer, v # w
        PROVE  Prepared(v)'
    BY <1>1, <2>2, PreparedSame DEF Putting, TypeOK
  <2>3. QED
    BY <2>1, <2>2 DEF Putting
<1>6. RingHolds'
  <2>1. Settled
    BY <1>1 DEF Settled
  <2>2. RingHolds' = RingHolds
    BY <1>1, RingSame DEF Stored_q
  <2>3. QED
    BY <2>1, <2>2
<1>7. QED
  BY <1>2, <1>3, <1>4, <1>5, <1>6

LEMMA PutCheckStep ==
  ASSUME Inv, NEW w \in Writer, PutCheck(w)
  PROVE  Inv'
<1> USE DEF Inv
<1> DEFINE p == IF Free < HeaderLen + Len(body[w]) THEN "refused" ELSE "copy"
<1>1. /\ pc[w] = "check" /\ pc' = [pc EXCEPT ![w] = p]
      /\ UNCHANGED <<buf, in, out, lock, body, chunks, puts, rpc, rlen, rbuf, result,
                     q, said, heard>>
  BY DEF PutCheck, shared, reader, answers
<1>2. p \in {"refused", "copy"}
  OBVIOUS
<1>3. ~Reading
  BY <1>1 DEF Exclusive, IsInside
<1>4. RingHolds /\ Stored_q = q
  <2>1. Settled
    BY <1>1 DEF Settled
  <2>2. QED
    BY <1>3, <2>1 DEF Stored_q, Reading
<1>5. Prepared(w)'
  <2> DEFINE f == Filled
             l == Len(body[w])
  <2>1. body[w] \in Body /\ Left(chunks[w], body[w], 0) /\ l \in Nat
    BY <1>1, BodyIs DEF Putting, Prepared
  <2>2. f = Used(q) /\ Whole(buf, out, q) /\ f <= Size
    BY <1>4 DEF RingHolds, Room
  <2>3. Free = Size - f /\ f \in Nat
    BY <2>2, CountersTell DEF TypeOK
  <2>4. Filled' = Filled
    BY <1>1 DEF Filled
  <2>5. CASE Free < HeaderLen + l
    <3>1. p = "refused"
      BY <2>5
    <3> HIDE DEF p, f, l
    <3>2. f + HeaderLen + l > Size
      BY <2>1, <2>3, <2>5, Numbers DEF HeaderLen
    <3>3. QED
      BY <1>1, <2>1, <2>2, <3>1, <3>2 DEF Prepared, TypeOK, l
  <2>6. CASE ~ (Free < HeaderLen + l)
    <3>1. p = "copy"
      BY <2>6
    <3> HIDE DEF p, f, l
    <3>2. f + HeaderLen + l <= Size
      BY <2>1, <2>3, <2>6, Numbers DEF HeaderLen
    <3>3. Begun(buf, out, q, body[w], 0)
      BY DEF Begun
    <3>4. 0 \in 0..HeaderLen + l /\ f = f + 0
      BY <2>1, <2>3 DEF HeaderLen
    <3>5. Copying(w)
      BY <2>1, <2>2, <3>2, <3>3, <3>4 DEF Copying, f, l
    <3>6. Copying(w)'
      BY <1>1, <2>4, <3>5 DEF Copying
    <3>7. QED
      BY <1>1, <2>1, <3>1, <3>6 DEF Prepared, TypeOK
  <2>7. QED
    BY <2>5, <2>6
<1> HIDE DEF p
<1>6. TypeOK'
  BY <1>1, <1>2 DEF TypeOK
<1>7. Exclusive'
  BY <1>1, <1>2 DEF Exclusive, IsInside, Reading, TypeOK
<1>8. Oldest' /\ Room'
  BY <1>1 DEF Oldest, Room
<1>9. Putting'
  <2>1. ASSUME NEW v \in Writer, v # w
        PROVE  Prepared(v)'
    BY <1>1, <2>1, PreparedSame DEF Putting, TypeOK
  <2>2. QED
    BY <1>5, <2>1 DEF Putting
<1>10. RingHolds'
  BY <1>1, <1>4, RingSame DEF Stored_q
<1>11. QED
  BY <1>6, <1>7, <1>8, <1>9, <1>10

LEMMA PutChunkStep ==
  ASSUME Inv, NEW w \in Writer, PutChunk(w)
  PROVE  Inv'
<1> USE DEF Inv
<1> DEFINE h == Head(chunks[w])
<1>1. /\ pc[w] = "copy" /\ chunks[w] # <<>>
      /\ buf' = Stored(h, in) /\ in' = Wrap(in + Len(h))
      /\ chunks' = [chunks EXCEPT ![w] = Tail(chunks[w])]
      /\ UNCHANGED <<out, lock, pc, body, puts, rpc, rlen, rbuf, result, q, said, heard>>
  BY DEF PutChunk, reader, answers
<1>2. /\ body[w] \in Body /\ Copying(w) /\ Len(chunks[w]) <= 3
      /\ chunks[w] \in Seq(Seq(Nat)) /\ buf \in Rings /\ out \in Counters /\ in \in Counters
      /\ q \in Seq(Body)
  BY <1>1 DEF Putting, Prepared, TypeOK, Rings, Counters
<1> DEFINE x == body[w]
           u == Used(q)
           l == Len(x)
<1>3. /\ u + HeaderLen + l <= Size /\ Whole(buf, out, q)
      /\ \E c \in 0..HeaderLen + l : /\ Left(chunks[w], x, c) /\ Filled = u + c
                                     /\ Begun(buf, out, q, x, c)
  BY <1>2 DEF Copying
<1>4. PICK c \in 0..HeaderLen + l : /\ Left(chunks[w], x, c) /\ Filled = u + c
                                    /\ Begun(buf, out, q, x, c)
  BY <1>3
<1>5. u \in Nat /\ l \in Nat /\ c \in Nat
  BY <1>2, <1>4, EndsFacts, BodyIs DEF HeaderLen
<1>6. /\ h \in Seq(Nat) /\ c + Len(h) <= HeaderLen + l
      /\ \A k \in 1..Len(h) : h[k] = Bytes(x)[c + k]
      /\ Left(Tail(chunks[w]), x, c + Len(h))
  BY <1>1, <1>2, <1>4, <1>5, LeftNext
<1> DEFINE n == Len(h)
<1>7. n \in Nat
  BY <1>6
<1> HIDE DEF h, x, u, l, n
<1>8. u + c \in 0..Size /\ (u + c) + n <= Size /\ (u + c) + n < CounterMod
      /\ c + n \in 0..HeaderLen + l
  <2>1. c + n <= HeaderLen + l /\ u + HeaderLen + l <= Size
    BY <1>3, <1>6 DEF n
  <2>2. QED
    BY <2>1, <1>5, <1>7, Numbers DEF HeaderLen
<1>9. in = Wrap(out + (u + c))
  BY <1>2, <1>4, CountersTell DEF Counters
<1>10. /\ buf' \in Rings
       /\ \A k \in 0..(u + c)-1 : At(buf', out, k) = At(buf, out, k)
       /\ \A k \in 0..n-1 : At(buf', out, (u + c) + k) = h[k + 1]
  BY <1>1, <1>2, <1>6, <1>8, <1>9, StoredBehind DEF n
<1>11. in' = Wrap(out + ((u + c) + n)) /\ in' \in Counters
  <2>1. Wrap(Wrap(out + (u + c)) + n) = Wrap(out + ((u + c) + n))
    BY <1>2, <1>5, <1>7, <1>8, WrapAgain
  <2>2. Wrap(out + ((u + c) + n)) \in Counters
    <3>1. (u + c) + n \in 0..CounterMod-1
      BY <1>5, <1>7, <1>8, Numbers
    <3>2. QED
      BY <3>1, <1>2, Apart DEF Counters
  <2>3. QED
    BY <1>1, <1>9, <2>1, <2>2 DEF n
<1>12. Filled' = u + (c + n)
  <2>1. (u + c) + n \in 0..CounterMod-1 /\ (u + c) + n = u + (c + n)
    BY <1>5, <1>7, <1>8, Numbers
  <2>2. Wrap(Wrap(out + ((u + c) + n)) - out) = (u + c) + n
    BY <2>1, <1>2, Apart DEF Counters
  <2>3. QED
    BY <1>1, <1>11, <2>1, <2>2 DEF Filled
<1>13. Whole(buf', out, q)
  <2>1. \A k \in 0..u-1 : k \in 0..(u + c)-1
    BY <1>5
  <2>2. \A k \in 0..Used(q)-1 : At(buf', out, k) = At(buf, out, k)
    BY <2>1, <1>10 DEF u
  <2>3. QED
    BY <1>2, <1>3, <2>2, WholeKeeps
<1>14. Begun(buf', out, q, x, c + n)
  <2> SUFFICES ASSUME NEW k \in 1..c + n
               PROVE  At(buf', out, u + k - 1) = Bytes(x)[k]
    BY DEF Begun, u
  <2>1. CASE k <= c
    <3>1. k \in 1..c /\ u + k - 1 \in 0..(u + c)-1
      BY <1>5, <1>7, <2>1
    <3>2. At(buf, out, u + k - 1) = Bytes(x)[k]
      BY <3>1, <1>4 DEF Begun, u
    <3>3. QED
      BY <3>1, <3>2, <1>10
  <2>2. CASE k > c
    <3> DEFINE j == k - c
    <3>1. /\ j \in 1..n /\ j - 1 \in 0..n-1 /\ (j - 1) + 1 = j /\ c + j = k
          /\ (u + c) + (j - 1) = u + k - 1
      BY <1>5, <1>7, <2>2
    <3> HIDE DEF j
    <3>2. At(buf', out, (u + c) + (j - 1)) = h[j]
      BY <3>1, <1>10
    <3>3. h[j] = Bytes(x)[c + j]
      BY <3>1, <1>6 DEF n
    <3>4. QED
      BY <3>1, <3>2, <3>3
  <2>3. QED
    BY <1>5, <1>7, <2>1, <2>2
<1>15. Prepared(w)'
  <2>1. /\ pc'[w] = "copy" /\ body'[w] = x /\ chunks'[w] = Tail(chunks[w])
        /\ q' = q /\ out' = out
    BY <1>1, <1>2 DEF TypeOK, x
  <2>2. \E d \in 0..HeaderLen + Len(x) :
           /\ Left(Tail(chunks[w]), x, d) /\ Filled' = Used(q) + d
           /\ Begun(buf', out, q, x, d)
    BY <1>6, <1>8, <1>12, <1>14 DEF u, l, n
  <2>3. Copying(w)'
    BY <2>1, <2>2, <1>3, <1>13 DEF Copying, u, l
  <2>4. QED
    BY <2>1, <2>3, <1>2 DEF Prepared, x
<1>16. TypeOK'
  <2>1. chunks' \in [Writer -> Seq(Seq(Nat))] /\ \A v \in Writer : Len(chunks'[v]) <= 3
    <3>1. Tail(chunks[w]) \in Seq(Seq(Nat)) /\ Len(Tail(chunks[w])) <= 3
      BY <1>1, <1>2
    <3>2. QED
      BY <3>1, <1>1 DEF TypeOK
  <2>2. QED
    BY <2>1, <1>1, <1>10, <1>11 DEF TypeOK, Rings, Counters
<1>17. Exclusive'
  BY <1>1 DEF Exclusive, IsInside, Reading
<1>18. Oldest' /\ Room'
  BY <1>1 DEF Oldest, Room
<1>19. Putting'
  <2>1. ASSUME NEW v \in Writer, v # w
        PROVE  Prepared(v)'
    <3>1. ~IsInside(pc[v])
      BY <2>1, <1>1 DEF Exclusive, IsInside
    <3>2. QED
      BY <1>1, <2>1, <3>1, PreparedOutside DEF Putting, TypeOK
  <2>2. QED
    BY <1>15, <2>1 DEF Putting
<1>20. ~Settled'
  <2>1. lock /\ ~Reading
    BY <1>1 DEF Exclusive, IsInside
  <2>2. \A v \in Writer : pc[v] \notin {"check", "refused"}
    BY <1>1 DEF Exclusive, IsInside
  <2>3. QED
    BY <1>1, <2>1, <2>2 DEF Settled, Reading
<1>21. QED
  BY <1>16, <1>17, <1>18, <1>19, <1>20

LEMMA PutReturnStep ==
  ASSUME Inv, NEW w \in Writer, PutReturn(w)
  PROVE  /\ Inv'
         /\ [Chan!CNext]_<<q, said, heard>>
<1> USE DEF Inv
<1>1. /\ pc[w] \in {"copy", "refused"} /\ lock' = FALSE
      /\ pc' = [pc EXCEPT ![w] = "idle"]
      /\ body' = [body EXCEPT ![w] = <<>>] /\ chunks' = [chunks EXCEPT ![w] = <<>>]
      /\ UNCHANGED <<buf, in, out, puts, rpc, rlen, rbuf, result, heard>>
  BY DEF PutReturn, reader
<1>2. ~Reading /\ \A v \in Writer : v # w => ~IsInside(pc[v])
  BY <1>1 DEF Exclusive, IsInside
<1>3. body[w] \in Body /\ Prepared(w)
  BY <1>1 DEF Putting, Prepared
<1> DEFINE x == body[w]
           u == Used(q)
           l == Len(x)
<1>4. u \in Nat /\ l \in Nat /\ q \in Seq(Body) /\ q' \in Seq(Body)
  <2>1. q \in Seq(Body)
    BY DEF TypeOK
  <2>2. q' = q \/ q' = Append(q, body[w])
    BY DEF PutReturn
  <2>3. q' \in Seq(Body)
    BY <2>1, <2>2, <1>3
  <2>4. u \in Nat /\ l \in Nat
    BY <2>1, <1>3, EndsFacts, BodyIs
  <2>5. QED
    BY <2>1, <2>3, <2>4
<1> DEFINE Kept == /\ Used(q') <= Size /\ Filled = Used(q') /\ Whole(buf, out, q')
                   /\ Chan!CNext
                   /\ q # <<>> => q' # <<>> /\ Head(q') = Head(q)
                   /\ said' \in [Writer -> Answer]
<1>5. ASSUME pc[w] = "copy"
      PROVE  Kept
  <2>1. /\ chunks[w] = <<>> /\ q' = Append(q, x)
        /\ said' = [said EXCEPT ![w] = [answer |-> "ok", of |-> x]]
    BY <1>5 DEF PutReturn
  <2>2. Copying(w)
    BY <1>3, <1>5 DEF Prepared
  <2>3. /\ u + HeaderLen + l <= Size /\ Whole(buf, out, q)
        /\ Filled = u + (HeaderLen + l)
        /\ Begun(buf, out, q, x, HeaderLen + l)
    <3>1. PICK c \in 0..HeaderLen + l : /\ Left(chunks[w], x, c) /\ Filled = u + c
                                        /\ Begun(buf, out, q, x, c)
      BY <2>2 DEF Copying
    <3>2. Rest(chunks[w]) = <<>> /\ Len(Rest(chunks[w])) = 0
      BY <2>1 DEF Rest
    <3>3. c = HeaderLen + l
      BY <3>1, <3>2, <1>4 DEF Left, HeaderLen
    <3>4. QED
      BY <3>1, <3>3, <2>2 DEF Copying
  <2>4. Used(q') = u + HeaderLen + l
    BY <2>1, <1>3, <1>4, EndsOfAppend
  <2>5. Used(q') <= Size /\ Filled = Used(q')
    <3> HIDE DEF u, l
    <3>1. u + HeaderLen + l = u + (HeaderLen + l)
      BY <1>4 DEF HeaderLen
    <3>2. QED
      BY <2>3, <2>4, <3>1
  <2>6. Whole(buf, out, q')
    <3>1. Len(Bytes(x)) = HeaderLen + l
      BY <1>3, BytesIs
    <3>2. Holds(buf, out, Bytes(x), u)
      BY <3>1, <2>3 DEF Begun, Holds
    <3>3. QED
      BY <3>2, <2>1, <2>3, <1>3, <1>4, WholeAppend
  <2>7. Chan!PutOk(w)
    <3>1. Chan!Used(Append(q, x)) <= Size
      BY <2>1, <2>5 DEF Used
    <3>2. QED
      BY <3>1, <2>1, <1>1, <1>3 DEF Chan!PutOk
  <2>8. Used(q') <= Size /\ Filled = Used(q') /\ Whole(buf, out, q') /\ Chan!CNext
    BY <2>5, <2>6, <2>7 DEF Chan!CNext
  <2>9. (q # <<>> => q' # <<>> /\ Head(q') = Head(q)) /\ said' \in [Writer -> Answer]
    <3>1. q # <<>> => q' # <<>> /\ Head(q') = Head(q)
      BY <2>1, <1>3, <1>4, AppendProperties, HeadTailProperties
    <3>2. [answer |-> "ok", of |-> x] \in Answer
      BY <1>3 DEF Answer
    <3>3. QED
      BY <3>1, <3>2, <2>1 DEF TypeOK
  <2>10. QED
    BY <2>8, <2>9
<1>6. ASSUME pc[w] = "refused"
      PROVE  Kept
  <2>1. q' = q /\ said' = [said EXCEPT ![w] = [answer |-> "full", of |-> x]]
    BY <1>6 DEF PutReturn
  <2>2. RingHolds /\ Stored_q = q
    <3>1. Settled
      BY <1>6 DEF Settled
    <3>2. QED
      BY <3>1, <1>2 DEF Stored_q, Reading
  <2>3. Used(Append(q, x)) > Size
    <3>1. u + HeaderLen + l > Size
      BY <1>3, <1>6 DEF Prepared
    <3>2. Used(Append(q, x)) = u + HeaderLen + l
      BY <1>3, <1>4, EndsOfAppend
    <3>3. QED
      BY <3>1, <3>2
  <2>4. Chan!PutFull(w)
    BY <2>1, <2>3, <1>1, <1>3 DEF Chan!PutFull, Used
  <2>5. said' \in [Writer -> Answer]
    <3>1. [answer |-> "full", of |-> x] \in Answer
      BY <1>3 DEF Answer
    <3>2. QED
      BY <2>1, <3>1 DEF TypeOK
  <2>6. QED
    BY <2>1, <2>2, <2>4, <2>5 DEF RingHolds, Room, Chan!CNext
<1>7. Kept
  BY <1>1, <1>5, <1>6
<1>8. TypeOK'
  <2>1. chunks' \in [Writer -> Seq(Seq(Nat))] /\ \A v \in Writer : Len(chunks'[v]) <= 3
    BY <1>1 DEF TypeOK
  <2>2. QED
    BY <2>1, <1>1, <1>4, <1>7 DEF TypeOK
<1>9. Exclusive'
  BY <1>1, <1>2 DEF Exclusive, IsInside, Reading, TypeOK
<1>10. Oldest' /\ Room'
  <2>1. rpc # "unlock"
    BY <1>2 DEF Reading
  <2>2. QED
    BY <1>1, <1>7, <2>1 DEF Oldest, Room
<1>11. Putting'
  <2>1. Prepared(w)'
    BY <1>1 DEF Prepared, TypeOK
  <2>2. ASSUME NEW v \in Writer, v # w
        PROVE  Prepared(v)'
    BY <1>1, <1>2, <2>2, PreparedOutside DEF Putting, TypeOK
  <2>3. QED
    BY <2>1, <2>2 DEF Putting
<1>12. RingHolds'
  <2>1. Filled' = Filled
    BY <1>1 DEF Filled
  <2>2. Stored_q' = q'
    BY <1>1, <1>2 DEF Stored_q, Reading
  <2>3. QED
    BY <1>1, <1>7, <2>1, <2>2 DEF RingHolds
<1>13. QED
  BY <1>7, <1>8, <1>9, <1>10, <1>11, <1>12

-----------------------------------------------------------------------------
(* The steps of the reader.                                                *)

LEMMA GetLockStep ==
  ASSUME Inv, GetLock
  PROVE  Inv'
<1> USE DEF Inv
<1>1. /\ rpc = "lock" /\ ~lock /\ lock' = TRUE /\ rpc' = "read"
      /\ UNCHANGED <<buf, in, out, pc, body, chunks, puts, rlen, rbuf, result,
                     q, said, heard>>
  BY DEF GetLock, writers, answers
<1>2. \A v \in Writer : ~IsInside(pc[v])
  BY <1>1 DEF Exclusive
<1>3. TypeOK' /\ Oldest' /\ Room'
  BY <1>1 DEF TypeOK, Oldest, Room
<1>4. Exclusive'
  BY <1>1, <1>2 DEF Exclusive, IsInside, Reading
<1>5. Putting'
  BY <1>1, PreparedSame DEF Putting
<1>6. RingHolds'
  <2>1. Settled /\ Stored_q' = Stored_q
    BY <1>1 DEF Settled, Stored_q
  <2>2. QED
    BY <1>1, <2>1, RingSame
<1>7. QED
  BY <1>3, <1>4, <1>5, <1>6

LEMMA GetReadStep ==
  ASSUME Inv, GetRead
  PROVE  Inv'
<1> USE DEF Inv
<1>1. /\ rpc = "read" /\ rpc' = "unlock"
      /\ UNCHANGED <<buf, in, lock, pc, body, chunks, puts, rbuf, q, said, heard>>
  BY DEF GetRead, writers, answers
<1>2. lock /\ \A v \in Writer : ~IsInside(pc[v])
  BY <1>1 DEF Exclusive, Reading
<1>3. Stored_q = q /\ Filled = Used(q) /\ Whole(buf, out, q)
  BY <1>1 DEF Settled, Reading, Stored_q, RingHolds
<1>4. /\ q \in Seq(Body) /\ out \in Counters /\ in \in Counters /\ Used(q) <= Size
      /\ Used(q) \in Nat /\ rlen \in Nat /\ rbuf \in Nat /\ result.code # "ok"
  BY <1>1, EndsFacts, Numbers DEF TypeOK, Counters, Room, Oldest
\* What the read did, and what is left in the ring.
<1>5. /\ out' \in Counters /\ rlen' \in Counters
      /\ result' \in [code : {"empty", "small"}] \cup [code : {"ok"}, data : Seq(Nat)]
      /\ result'.code = "ok" => q # <<>> /\ result'.data = Head(q) /\ Len(Head(q)) <= rbuf
      /\ result'.code = "empty" => q = <<>>
      /\ result'.code = "small" => q # <<>> /\ rlen' = Len(Head(q)) /\ rbuf < rlen'
      /\ Filled' = Used(Stored_q') /\ Whole(buf, out', Stored_q')
  <2>1. CASE q = <<>>
    <3>1. Used(q) = 0
      BY <2>1, <1>4, EndsFacts
    <3>2. Filled <= HeaderLen
      BY <3>1, <1>3 DEF HeaderLen
    <3>3. result' = Empty /\ UNCHANGED <<out, rlen>>
      BY <3>2 DEF GetRead
    <3>4. Stored_q' = q /\ Filled' = Filled
      BY <1>1, <3>3 DEF Stored_q, Empty, Filled
    <3>5. result' \in [code : {"empty", "small"}] /\ result'.code = "empty"
      BY <3>3 DEF Empty
    <3>6. QED
      BY <3>3, <3>4, <3>5, <1>3, <1>4, <2>1 DEF TypeOK, Counters
  <2>2. CASE q # <<>>
    <3> DEFINE x == Head(q)
               l == Len(x)
               m == Used(Tail(q))
    <3>1. /\ LengthOf(Loaded(out, HeaderLen)) = l
          /\ Loaded(out + HeaderLen, l) = x
          /\ Used(q) = m + HeaderLen + l /\ m \in Nat
      BY <1>3, <1>4, <2>2, HeadRead
    <3>2. x \in Body /\ x \in Seq(Nat) /\ l \in Nat \ {0} /\ HeaderLen + l < CounterMod
          /\ Tail(q) \in Seq(Body)
      BY <1>4, <2>2, EndsOfTail, BodyIs
    <3>3. rlen <= rbuf /\ (rlen = rbuf \/ rlen = l)
      BY <1>1 DEF Oldest
    <3> HIDE DEF x, l, m
    <3>4. ~ (Filled <= HeaderLen) /\ ~ (Filled < l + HeaderLen) /\ l \in Counters
      BY <3>1, <3>2, <1>3, Numbers DEF HeaderLen, Counters
    <3>5. /\ rlen' = l
          /\ IF rlen < l THEN result' = [code |-> "small"] /\ UNCHANGED out
             ELSE /\ result' = [code |-> "ok", data |-> x]
                  /\ out' = Wrap(out + HeaderLen + l)
      BY <3>1, <3>4 DEF GetRead
    <3>6. CASE rlen < l
      <4>1. result' = [code |-> "small"] /\ out' = out
        BY <3>5, <3>6
      <4>2. result' \in [code : {"empty", "small"}] /\ result'.code = "small"
        BY <4>1
      <4>3. Stored_q' = q /\ Filled' = Filled
        BY <1>1, <4>1, <4>2 DEF Stored_q, Filled
      <4>4. rbuf < l
        BY <3>2, <3>3, <3>6, <1>4
      <4>5. QED
        BY <4>1, <4>2, <4>3, <4>4, <3>4, <3>5, <1>3, <1>4, <2>2 DEF l, x
    <3>7. CASE ~ (rlen < l)
      <4>1. /\ result' = [code |-> "ok", data |-> x]
            /\ out' = Wrap(out + HeaderLen + l)
        BY <3>5, <3>7
      <4>2. /\ result' \in [code : {"ok"}, data : Seq(Nat)]
            /\ result'.code = "ok" /\ result'.data = x
        BY <4>1, <3>2
      <4>3. l <= rbuf
        BY <3>2, <3>3, <3>7, <1>4
      <4>4. Stored_q' = Tail(q)
        BY <1>1, <4>2 DEF Stored_q
      <4> DEFINE n == HeaderLen + l
                 o == Wrap(out + n)
      <4>5. /\ n \in Nat /\ n + m <= Size /\ n + m < CounterMod /\ Used(q) = n + m
            /\ n \in 0..CounterMod-1 /\ m \in 0..CounterMod-1
            /\ out + HeaderLen + l = out + n
        BY <3>1, <3>2, <1>4, Numbers DEF HeaderLen, Counters
      <4>6. out' = o /\ o \in Counters
        <5>1. out' = o
          BY <4>1, <4>5
        <5>2. o \in Counters
          <6> HIDE DEF n
          <6>1. QED
            BY <4>5, <1>4, Apart DEF Counters
        <5>3. QED
          BY <5>1, <5>2
      <4>7. Whole(buf, o, Tail(q))
        BY <1>3, <1>4, <2>2, WholeTail DEF l, x
      <4>8. Filled' = m
        <5> HIDE DEF n
        <5>1. in = Wrap(out + (n + m))
          BY <1>3, <1>4, <4>5, CountersTell DEF Counters
        <5>2. in = Wrap(o + m)
          BY <5>1, <1>4, <3>1, <4>5, WrapAgain
        <5>3. Wrap(Wrap(o + m) - o) = m
          <6> HIDE DEF o
          <6>1. QED
            BY <4>5, <4>6, Apart DEF Counters
        <5>4. QED
          BY <1>1, <4>6, <5>2, <5>3 DEF Filled
      <4>9. QED
        BY <4>2, <4>3, <4>4, <4>6, <4>7, <4>8, <3>4, <3>5, <2>2 DEF l, x, m
    <3>8. QED
      BY <3>6, <3>7
  <2>3. QED
    BY <2>1, <2>2
<1>6. TypeOK'
  BY <1>1, <1>5 DEF TypeOK, Counters
<1>7. Exclusive'
  BY <1>1, <1>2 DEF Exclusive, IsInside, Reading
<1>8. Oldest' /\ Room'
  BY <1>1, <1>5 DEF Oldest, Room
<1>9. Putting'
  BY <1>1, <1>2, PreparedOutside DEF Putting
<1>10. RingHolds'
  BY <1>1, <1>5 DEF RingHolds
<1>11. QED
  BY <1>6, <1>7, <1>8, <1>9, <1>10

\* The buffer is doubled for the oldest package only, so that its size does
\* not wrap.
LEMMA DoubledIs ==
  ASSUME q \in Seq(Body), q # <<>>, Used(q) <= Size, rbuf \in Nat \ {0}, rbuf < Len(Head(q))
  PROVE  Doubled \in 1..CounterMod-1
<1> DEFINE l == Len(Head(q))
           m == Used(Tail(q))
           d == 2 * rbuf
<1>1. l \in Nat /\ Used(q) = m + HeaderLen + l /\ m \in Nat
  BY EndsOfTail, EndsFacts, BodyIs
<1> HIDE DEF l, m
<1>2. d \in 1..CounterMod-1 /\ d \in 0..CounterMod-1 /\ d \in Int
  <2> DEFINE u == Used(q)
             r == rbuf
  <2>1. u = m + HeaderLen + l /\ u <= Size /\ r < l /\ r \in Nat \ {0}
    BY <1>1 DEF l
  <2> HIDE DEF u, r
  <2>2. 2 * r \in 1..CounterMod-1
    BY <2>1, <1>1, TwoSizes, Numbers DEF HeaderLen
  <2>3. QED
    BY <2>2, Numbers DEF r
<1> HIDE DEF d
<1>3. Wrap(d) = d
  BY <1>2, WrapIs
<1>4. QED
  BY <1>2, <1>3 DEF Doubled, d

LEMMA GetReturnStep ==
  ASSUME Inv, GetReturn
  PROVE  /\ Inv'
         /\ [Chan!CNext]_<<q, said, heard>>
<1> USE DEF Inv
<1>1. /\ rpc = "unlock" /\ lock' = FALSE /\ result' = Empty
      /\ UNCHANGED <<buf, in, out, pc, body, chunks, puts, said>>
  BY DEF GetReturn, writers
<1>2. lock /\ \A v \in Writer : ~IsInside(pc[v])
  BY <1>1 DEF Exclusive, Reading
<1>3. RingHolds
  BY <1>1 DEF Settled, Reading
<1>4. /\ q \in Seq(Body) /\ rlen \in Nat /\ rbuf \in Nat \ {0} /\ Used(q) \in Nat /\ Used(q) <= Size
  BY EndsFacts, Numbers DEF TypeOK, Room
\* The packages it leaves, and what it goes on with.
<1>5. /\ q' = Stored_q /\ q' \in Seq(Body) /\ Used(q') <= Size
      /\ heard' \in Body \cup {<<>>}
      /\ rlen' \in Counters /\ rbuf' \in 1..CounterMod-1
      /\ \/ rpc' = "lock" /\ rlen' = rbuf'
         \/ rpc' = "grow" /\ q' # <<>> /\ rlen' = Len(Head(q'))
      /\ [Chan!CNext]_<<q, said, heard>>
  <2>1. CASE result.code = "small"
    <3>1. /\ rpc' = "grow" /\ rbuf' = Doubled /\ UNCHANGED <<rlen, q, heard>>
      BY <2>1 DEF GetReturn
    <3>2. q # <<>> /\ rlen = Len(Head(q)) /\ rbuf < rlen
      BY <1>1, <2>1 DEF Oldest
    <3>3. rbuf' \in 1..CounterMod-1
      BY <3>1, <3>2, <1>4, DoubledIs
    <3>4. q' = Stored_q
      BY <3>1, <2>1 DEF Stored_q
    <3>5. QED
      BY <3>1, <3>2, <3>3, <3>4, <1>1, <1>4 DEF TypeOK, Counters
  <2>2. CASE result.code = "ok"
    <3>1. /\ rpc' = "lock" /\ rlen' = rbuf /\ rbuf' = rbuf
          /\ q' = Tail(q) /\ heard' = result.data
      BY <2>2 DEF GetReturn
    <3>2. q # <<>> /\ result.data = Head(q)
      BY <1>1, <2>2 DEF Oldest
    <3>3. /\ Head(q) \in Body /\ Tail(q) \in Seq(Body)
          /\ Used(q) = Used(Tail(q)) + HeaderLen + Len(Head(q)) /\ Used(Tail(q)) \in Nat
          /\ Len(Head(q)) \in Nat
      BY <1>4, <3>2, EndsOfTail, EndsFacts, BodyIs
    <3>4. Used(Tail(q)) <= Size
      <4> DEFINE u == Used(q)
                 m == Used(Tail(q))
                 l == Len(Head(q))
      <4>1. u = m + HeaderLen + l /\ m \in Nat /\ l \in Nat /\ u <= Size
        BY <3>3, <1>4
      <4> HIDE DEF u, m, l
      <4>2. m <= Size
        BY <4>1, Numbers DEF HeaderLen
      <4>3. QED
        BY <4>2 DEF m
    <3>5. q' = Stored_q
      BY <1>1, <3>1, <2>2 DEF Stored_q
    <3>6. Chan!GetOk
      BY <3>1, <3>2, <1>1 DEF Chan!GetOk
    <3>7. Chan!CNext
      BY <3>6 DEF Chan!CNext
    <3>8. QED
      BY <3>1, <3>2, <3>3, <3>4, <3>5, <3>7 DEF TypeOK, Counters
  <2>3. CASE result.code \notin {"small", "ok"}
    <3>1. /\ rpc' = "lock" /\ rlen' = rbuf /\ rbuf' = rbuf
          /\ q' = q /\ heard' = <<>>
      BY <2>3 DEF GetReturn
    <3>2. q = <<>>
      <4>1. result.code = "empty"
        BY <2>3 DEF TypeOK
      <4>2. QED
        BY <1>1, <4>1 DEF Oldest
    <3>3. Chan!GetNone
      BY <3>1, <3>2, <1>1 DEF Chan!GetNone
    <3>4. Chan!CNext /\ q' = Stored_q
      BY <3>1, <3>3, <2>3 DEF Chan!CNext, Stored_q
    <3>5. QED
      BY <3>1, <3>4, <1>4 DEF TypeOK, Counters
  <2>4. QED
    BY <2>1, <2>2, <2>3
<1>6. TypeOK'
  BY <1>1, <1>5 DEF TypeOK, Empty, Counters
<1>7. Exclusive'
  BY <1>1, <1>2, <1>5 DEF Exclusive, IsInside, Reading
<1>8. Oldest' /\ Room'
  <2>1. rlen' <= rbuf' \/ rpc' = "grow"
    BY <1>5
  <2>2. result'.code # "ok" /\ rpc' # "unlock"
    BY <1>1, <1>5 DEF Empty
  <2>3. QED
    BY <1>5, <2>1, <2>2 DEF Oldest, Room
<1>9. Putting'
  BY <1>1, <1>2, PreparedOutside DEF Putting
<1>10. RingHolds'
  <2>1. Stored_q' = Stored_q
    BY <1>5 DEF Stored_q
  <2>2. QED
    BY <1>1, <1>3, <2>1, RingSame
<1>11. QED
  BY <1>5, <1>6, <1>7, <1>8, <1>9, <1>10

LEMMA GrowStep ==
  ASSUME Inv, Grow
  PROVE  Inv'
<1> USE DEF Inv
<1>1. /\ rpc = "grow" /\ rpc' \in {"grow", "lock"}
      /\ UNCHANGED <<buf, in, out, lock, pc, body, chunks, puts, rlen, result,
                     q, said, heard>>
  BY DEF Grow, shared, writers, answers
<1>2. q # <<>> /\ rlen = Len(Head(q)) /\ result.code # "ok"
  BY <1>1 DEF Oldest
<1>3. rbuf' \in 1..CounterMod-1 /\ (rpc' = "lock" => rlen <= rbuf')
  <2>1. /\ q \in Seq(Body) /\ rlen \in Nat /\ rbuf \in 1..CounterMod-1 /\ Used(q) \in Nat
        /\ Used(q) <= Size
    BY EndsFacts, Numbers DEF TypeOK, Room
  <2>2. CASE rbuf < rlen
    <3>1. rbuf' = Doubled /\ rpc' = "grow"
      BY <1>1, <2>2 DEF Grow
    <3>2. Doubled \in 1..CounterMod-1
      BY <2>1, <2>2, <1>2, DoubledIs
    <3>3. QED
      BY <3>1, <3>2
  <2>3. CASE ~ (rbuf < rlen)
    <3>1. rbuf' = rbuf
      BY <2>3 DEF Grow
    <3>2. QED
      BY <3>1, <2>1, <2>3
  <2>4. QED
    BY <2>2, <2>3
<1>4. TypeOK' /\ Room'
  BY <1>1, <1>3 DEF TypeOK, Room
<1>5. Exclusive'
  BY <1>1 DEF Exclusive, Reading
<1>6. Oldest'
  BY <1>1, <1>2, <1>3 DEF Oldest
<1>7. Putting'
  BY <1>1, PreparedSame DEF Putting
<1>8. Settled' => RingHolds'
  <2>1. Settled' = Settled /\ Stored_q' = Stored_q
    BY <1>1 DEF Settled, Reading, Stored_q
  <2>2. QED
    BY <1>1, <2>1, RingSame
<1>9. QED
  BY <1>4, <1>5, <1>6, <1>7, <1>8

-----------------------------------------------------------------------------
(* What holds of every behaviour.                                          *)

LEMMA InvInit ==
  ASSUME Init
  PROVE  Inv /\ Chan!CInit
<1> USE Numbers DEF Init
<1>1. TypeOK
  <2>1. RecvSize \in 0..CounterMod-1 /\ RecvSize \in 1..CounterMod-1 /\ MaxPut \in Nat
    BY KFifoAssumption
  <2>2. <<>> \in Seq(Body) /\ <<>> \in Seq(Seq(Nat)) /\ Len(<<>>) = 0
    OBVIOUS
  <2>3. buf \in [0..Size-1 -> Nat] /\ in \in 0..CounterMod-1 /\ out \in 0..CounterMod-1
    OBVIOUS
  <2>4. /\ chunks \in [Writer -> Seq(Seq(Nat))]
        /\ \A w \in Writer : Len(chunks[w]) <= 3
    BY <2>2
  <2>5. result \in [code : {"empty", "small"}] \cup [code : {"ok"}, data : Seq(Nat)]
    BY DEF Empty
  <2>6. q \in Seq(Body) /\ puts \in 0..MaxPut
    BY <2>1
  <2>7. said \in [Writer -> Answer]
    BY DEF Answer
  <2>8. QED
    BY <2>1, <2>3, <2>4, <2>5, <2>6, <2>7 DEF TypeOK
<1>2. Exclusive /\ Putting
  BY DEF Exclusive, IsInside, Reading, Putting, Prepared
<1>3. RecvSize \in Nat
  BY KFifoAssumption
<1>4. Oldest
  BY <1>3 DEF Oldest, Empty
<1>5. Used(q) = 0 /\ q \in Seq(Body) /\ Len(q) = 0
  <2>1. q \in Seq(Body) /\ Len(q) = 0
    OBVIOUS
  <2>2. QED
    BY <2>1, EndsFacts
<1>6. Filled = 0
  <2>1. 0 \in 0..CounterMod-1 /\ 0 - 0 = 0
    OBVIOUS
  <2>2. QED
    BY <2>1, WrapIs DEF Filled
<1>7. Room /\ RingHolds
  <2>1. Stored_q = q
    BY DEF Stored_q
  <2>2. \A i \in 1..0 : FALSE
    OBVIOUS
  <2>3. QED
    BY <1>5, <1>6, <2>1, <2>2 DEF Room, RingHolds, Whole
<1>8. Chan!CInit
  BY DEF Chan!CInit
<1>9. QED
  BY <1>1, <1>2, <1>4, <1>7, <1>8 DEF Inv

LEMMA InvStep == Inv /\ [Next]_vars => Inv' /\ [Chan!CNext]_Chan!cvars
<1> SUFFICES ASSUME Inv, [Next]_vars
             PROVE  Inv' /\ [Chan!CNext]_<<q, said, heard>>
  BY DEF Chan!cvars
<1>1. ASSUME NEW w \in Writer, StartPut(w)
      PROVE  Inv' /\ UNCHANGED <<q, said, heard>>
  BY <1>1, StartPutStep DEF StartPut, answers
<1>2. ASSUME NEW w \in Writer, PutLock(w)
      PROVE  Inv' /\ UNCHANGED <<q, said, heard>>
  BY <1>2, PutLockStep DEF PutLock, answers
<1>3. ASSUME NEW w \in Writer, PutCheck(w)
      PROVE  Inv' /\ UNCHANGED <<q, said, heard>>
  BY <1>3, PutCheckStep DEF PutCheck, answers
<1>4. ASSUME NEW w \in Writer, PutChunk(w)
      PROVE  Inv' /\ UNCHANGED <<q, said, heard>>
  BY <1>4, PutChunkStep DEF PutChunk, answers
<1>5. ASSUME NEW w \in Writer, PutReturn(w)
      PROVE  Inv' /\ [Chan!CNext]_<<q, said, heard>>
  BY <1>5, PutReturnStep
<1>6. ASSUME NEW w \in Writer, Crash(w)
      PROVE  Inv' /\ UNCHANGED <<q, said, heard>>
  BY <1>6, CrashStep DEF Crash, answers
<1>7. CASE GetLock
  BY <1>7, GetLockStep DEF GetLock, answers
<1>8. CASE GetRead
  BY <1>8, GetReadStep DEF GetRead, answers
<1>9. CASE GetReturn
  BY <1>9, GetReturnStep
<1>10. CASE Grow
  BY <1>10, GrowStep DEF Grow, answers
<1>11. CASE UNCHANGED vars
  <2>1. UNCHANGED <<buf, in, out, lock, pc, body, chunks, puts, rpc, rlen, rbuf, result,
                    q, said, heard>>
    BY <1>11 DEF vars, shared, writers, reader, answers
  <2>2. TypeOK'
    BY <2>1 DEF Inv, TypeOK
  <2>3. Exclusive' /\ Oldest' /\ Room'
    BY <2>1 DEF Inv, Exclusive, Reading, Oldest, Room
  <2>4. Putting'
    BY <2>1, PreparedSame DEF Inv, Putting
  <2>5. Stored_q' = Stored_q /\ Settled' = Settled
    BY <2>1 DEF Stored_q, Settled, Reading
  <2>6. RingHolds' = RingHolds
    BY <2>1, <2>5, RingSame
  <2>7. QED
    BY <2>1, <2>2, <2>3, <2>4, <2>5, <2>6 DEF Inv
<1>12. QED
  BY <1>1, <1>2, <1>3, <1>4, <1>5, <1>6, <1>7, <1>8, <1>9, <1>10, <1>11
     DEF Next, Put, Get

LEMMA InvHolds == Spec => []Inv
<1>1. Init => Inv
  BY InvInit
<1>2. Inv /\ [Next]_vars => Inv'
  BY InvStep
<1>3. QED
  BY <1>1, <1>2, PTL DEF Spec

\* The counters of the ring stay in the range of an unsigned int, whatever is
\* put, and the size of the receive buffer never wraps to zero, however often
\* it is doubled (jetnet_cns_get_msg).
THEOREM RingTypes == Spec => []TypeOK
<1>1. Inv => TypeOK
  BY DEF Inv
<1>2. QED
  BY <1>1, InvHolds, PTL

\* The cells of a host, and the owner of the ring, are never two at the ring at a
\* time (spinlock_lock of jetnet_kfifo.c), also when some of them die inside.
THEOREM OnlyOneInside == Spec => []OneInside
<1>1. Inv => OneInside
  BY DEF Inv, Exclusive, OneInside, Inside, IsInside
<1>2. QED
  BY <1>1, InvHolds, PTL

\* kfifo_pkg_get never copies a package beyond the end of the receive buffer
\* of jetnet_cns_get_msg, whatever sizes that grew through.
THEOREM FitsReceiveBuffer == Spec => []FitsBuffer
<1>1. Inv => FitsBuffer
  <2>1. ASSUME Inv
        PROVE  FitsBuffer
    <3>1. rlen <= rbuf \/ rpc \in {"unlock", "grow"}
      BY <2>1 DEF Inv, TypeOK, Oldest
    <3>2. result.code = "ok" => Len(result.data) <= rbuf
      BY <2>1 DEF Inv, Oldest
    <3>3. QED
      BY <3>1, <3>2 DEF FitsBuffer
  <2>2. QED
    BY <2>1
<1>2. QED
  BY <1>1, InvHolds, PTL

\* The ring of jetnet_kfifo.c is the bounded FIFO of module Channel, byte for
\* byte, at any fill, across the wrap of the ring and of its counters, for any
\* packages and any number of writers, whoever dies and wherever.
THEOREM ChannelImplemented == Spec => ChannelSpec
<1>1. Init => Inv /\ Chan!CInit
  BY InvInit
<1>2. Inv /\ [Next]_vars => Inv' /\ [Chan!CNext]_Chan!cvars
  BY InvStep
<1>3. QED
  BY <1>1, <1>2, PTL DEF Spec, ChannelSpec, Chan!SafeSpec
=============================================================================
