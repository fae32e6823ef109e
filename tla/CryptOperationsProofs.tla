----------------------- MODULE CryptOperationsProofs -----------------------
(***************************************************************************)
(* Proofs about the operations of a session, for every block, tag, key and *)
(* hash length and for every message: what an operation gives out is what  *)
(* was sent, its key is used once, nothing leaves it without the login it  *)
(* needs, and the length that a query reports suffices.                    *)
(*                                                                         *)
(* The properties are about sequences that grow call by call, so the proof *)
(* begins with an induction principle for the natural numbers and with     *)
(* what Units and Length are for sequences put together.                   *)
(***************************************************************************)
EXTENDS CryptOperations, TLAPS, WellFoundedInduction, SequenceTheorems

(* What the next chunk of a chained transformation is to be chained to.    *)
Left(out) == IF out = <<>> THEN 0 ELSE Seqs!Last(out[Len(out)].units)

(* Every chunk is chained to the one before it.                            *)
Chained(out) ==
    \A i \in DOMAIN out : out[i].iv # Unchained =>
        out[i].iv = IF i = 1 THEN 0 ELSE Seqs!Last(out[i - 1].units)

(* The key has been used if a result is kept, and not before; a result is  *)
(* kept by ciphers and by authenticators, which a login has allowed.       *)
UsesOK(o, p, t) ==
    /\ p.mechanism \in Mechanisms[o]
    /\ o = "digest" => ~p.private
    /\ t.runs = IF p.ready THEN 1 ELSE 0
    /\ p.ready => o \in Ciphers \/ p.mechanism \in FidoMechanisms
    /\ (p.authorized \/ p.ready) /\ p.mechanism \in FidoMechanisms => t.granted > 0

(* What was sent has gone out, is in the kept result, or is in the buffer. *)
CipherOK(p, t) ==
    /\ IF p.ready
       THEN Units(t.out) \o Units(p.result) = t.sent /\ Chained(t.out \o p.result)
       ELSE Units(t.out) \o p.buffer = t.sent /\ Chained(t.out)
    /\ p.mechanism # "ecb" /\ ~p.ready => p.iv = Left(t.out)

(* Nothing goes out before the end; the result of an authenticator is for  *)
(* the data that came first.                                               *)
WholeOK(p, t) ==
    /\ t.out = <<>>
    /\ p.buffer = t.sent
    /\ p.ready => \E data \in Seq(Unit) :
                      /\ p.result = <<Chunk(Unchained, data, HashLength)>>
                      /\ Len(data) = HashLength /\ Len(data) <= Len(p.buffer)
                      /\ SubSeq(p.buffer, 1, Len(data)) = data

ActiveOK(o, p, t) ==
    /\ ~t.done
    /\ UsesOK(o, p, t)
    /\ IF o \in Ciphers THEN CipherOK(p, t) ELSE WholeOK(p, t)

EndedOK(t) ==
    /\ t.runs <= 1
    /\ Seqs!IsPrefix(Units(t.out), t.sent)
    /\ t.done => Units(t.out) = t.sent
    /\ Chained(t.out)

SlotOK(o, p, t) == EndedOK(t) /\ (p # NoOp => ActiveOK(o, p, t))

(* The inductive invariant.                                                *)
CryptInv ==
    /\ CryptTypeOK
    /\ \A o \in Ops : SlotOK(o, op[o], trace[o])

-----------------------------------------------------------------------------
(* Induction, and the sequences that Units and Length fold.                *)

(* A set that has 0 and the successor of each of its numbers has them all. *)
LEMMA SetInduction ==
    ASSUME NEW S, 0 \in S, \A n \in Nat : n \in S => n + 1 \in S
    PROVE  Nat \subseteq S
<1> DEFINE T == Nat \ S
           R == OpToRel(<, Nat)
<1>1. SUFFICES ASSUME T # {} PROVE FALSE
  OBVIOUS
<1>2. PICK x \in T : \A y \in T : ~(<<y, x>> \in R)
  <2> HIDE DEF R
  <2> QED BY <1>1, NatLessThanWellFounded, WFMin, Zenon DEF R
<1>3. \A y \in T : ~(y < x)
  BY <1>2 DEF OpToRel
<1>4. x # 0 /\ x - 1 \in Nat /\ x - 1 < x
  OBVIOUS
<1> QED BY <1>3, <1>4

(* A function on 1..n is a sequence of length n.                           *)
LEMMA FunctionIsSeq ==
    ASSUME NEW S, NEW n \in Nat, NEW f \in [1..n -> S]
    PROVE  f \in Seq(S) /\ Len(f) = n
<1>1. DOMAIN f = 1..n /\ f = [i \in 1..n |-> f[i]]
  OBVIOUS
<1>2. f \in Seq(S)
  BY <1>1
<1> QED BY <1>1, <1>2, LenProperties

(* Concatenation, for the provers to see only where they need it.          *)
Join(s, u) == s \o u

LEMMA JoinFacts ==
    ASSUME NEW s \in Seq(Unit), NEW u \in Seq(Unit), NEW v \in Seq(Unit)
    PROVE  /\ Join(s, u) \in Seq(Unit)
           /\ Join(s, <<>>) = s
           /\ Join(<<>>, s) = s
           /\ Join(s, Join(u, v)) = Join(Join(s, u), v)
BY ConcatProperties, ConcatEmptySeq, ConcatAssociative DEF Join

(* f[i] are the units of the first i chunks, up to k.                      *)
UnitRun(k, f, c) ==
    /\ f \in [0..k -> Seq(Unit)]
    /\ f[0] = <<>>
    /\ \A i \in 1..k : f[i] = Join(f[i - 1], c[i].units)

LEMMA UnitRunExists ==
    ASSUME NEW c \in Seq(Chunks)
    PROVE  \E f : UnitRun(Len(c), f, c)
<1> DEFINE S == {k \in Nat : k <= Len(c) => \E f : UnitRun(k, f, c)}
<1>1. 0 \in S
  <2>1. UnitRun(0, [i \in 0..0 |-> <<>>], c)
    BY DEF UnitRun
  <2> QED BY <2>1
<1>2. ASSUME NEW k \in Nat, k \in S PROVE k + 1 \in S
  <2>1. SUFFICES ASSUME k + 1 <= Len(c) PROVE \E f : UnitRun(k + 1, f, c)
    OBVIOUS
  <2>2. k <= Len(c)
    BY <2>1
  <2>3. PICK f : UnitRun(k, f, c)
    BY <1>2, <2>2
  <2> DEFINE g == [i \in 0..(k + 1) |-> IF i <= k THEN f[i] ELSE Join(f[k], c[k + 1].units)]
  <2>4. c[k + 1].units \in Seq(Unit)
    <3>1. c[k + 1] \in Chunks
      BY <2>1
    <3> QED BY <3>1 DEF Chunks
  <2>5. g \in [0..(k + 1) -> Seq(Unit)] /\ g[0] = <<>>
    <3>1. f[0] = <<>> /\ \A i \in 0..k : f[i] \in Seq(Unit)
      BY <2>3 DEF UnitRun
    <3>2. Join(f[k], c[k + 1].units) \in Seq(Unit)
      BY <3>1, <2>4, JoinFacts
    <3> QED BY <3>1, <3>2
  <2>6. ASSUME NEW i \in 1..(k + 1) PROVE g[i] = Join(g[i - 1], c[i].units)
    <3>1. CASE i <= k
      <4>1. g[i] = f[i] /\ g[i - 1] = f[i - 1] /\ i \in 1..k
        BY <3>1
      <4> QED BY <4>1, <2>3 DEF UnitRun
    <3>2. CASE i = k + 1
      <4>1. g[i] = Join(f[k], c[k + 1].units) /\ g[i - 1] = f[k]
        BY <3>2
      <4> QED BY <4>1, <3>2
    <3> QED BY <3>1, <3>2
  <2> HIDE DEF g
  <2>7. UnitRun(k + 1, g, c)
    BY <2>5, <2>6 DEF UnitRun
  <2> QED BY <2>7
<1>3. Nat \subseteq S
  <2> HIDE DEF S
  <2> QED BY <1>1, <1>2, SetInduction
<1> QED BY <1>3

LEMMA UnitsOfRun ==
    ASSUME NEW c \in Seq(Chunks), NEW f, UnitRun(Len(c), f, c)
    PROVE  Units(c) = f[Len(c)]
<1> DEFINE ss == [i \in DOMAIN c |-> c[i].units]
           Step(g, i) == IF i = 1 THEN ss[i] ELSE Join(g[i - 1], ss[i])
           Eq(g) == g = [i \in 1..Len(ss) |-> Step(g, i)]
           h == CHOOSE g : Eq(g)
           w == [i \in 1..Len(c) |-> f[i]]
           S == {k \in Nat : k \in 1..Len(c) => h[k] = f[k]}
<1>1. Len(c) \in Nat /\ DOMAIN c = 1..Len(c) /\ \A i \in 1..Len(c) : c[i] \in Chunks
  OBVIOUS
<1>2. ss \in [1..Len(c) -> Seq(Unit)] /\ \A i \in 1..Len(c) : ss[i] = c[i].units
  BY <1>1 DEF Chunks
<1>3. Len(ss) = Len(c)
  <2> HIDE DEF ss
  <2> QED BY <1>1, <1>2, FunctionIsSeq
<1>4. f \in [0..Len(c) -> Seq(Unit)] /\ f[0] = <<>>
      /\ \A i \in 1..Len(c) : f[i] = Join(f[i - 1], ss[i])
  BY <1>1, <1>2 DEF UnitRun
<1>5. Units(c) = IF Len(ss) = 0 THEN ss ELSE h[Len(ss)]
  BY DEF Units, Seqs!FlattenSeq, Join
<1> HIDE DEF ss
<1>6. CASE Len(c) = 0
  BY <1>1, <1>2, <1>3, <1>4, <1>5, <1>6
<1>7. CASE Len(c) > 0
  <2>1. f[1] = ss[1]
    <3>1. 1 \in 1..Len(c) /\ 1 - 1 = 0
      BY <1>1, <1>7
    <3>2. f[1] = Join(f[1 - 1], ss[1]) /\ ss[1] \in Seq(Unit)
      BY <3>1, <1>2, <1>4
    <3>3. f[1 - 1] = <<>>
      BY <3>1, <1>4
    <3> QED BY <3>2, <3>3, JoinFacts
  <2>2. ASSUME NEW i \in 1..Len(c) PROVE w[i] = Step(w, i)
    <3>1. CASE i = 1
      BY <3>1, <2>1
    <3>2. CASE i # 1
      <4>1. i - 1 \in 1..Len(c) /\ w[i] = f[i] /\ w[i - 1] = f[i - 1]
        BY <3>2
      <4> QED BY <4>1, <3>2, <1>4
    <3> QED BY <3>1, <3>2
  <2>3. Eq(w)
    <3>1. w = [i \in 1..Len(c) |-> w[i]]
      OBVIOUS
    <3> HIDE DEF Step, w
    <3> QED BY <2>2, <1>3, <3>1
  <2>4. Eq(h)
    <3> HIDE DEF w, Eq
    <3> QED BY <2>3
  <2>5. ASSUME NEW i \in 1..Len(c) PROVE h[i] = Step(h, i)
    <3> HIDE DEF h, Step
    <3> QED BY <2>4, <1>3
  <2> HIDE DEF h
  <2>6. 0 \in S
    OBVIOUS
  <2>7. ASSUME NEW k \in Nat, k \in S PROVE k + 1 \in S
    <3>1. SUFFICES ASSUME k + 1 \in 1..Len(c) PROVE h[k + 1] = f[k + 1]
      OBVIOUS
    <3>2. CASE k = 0
      BY <3>2, <3>1, <2>1, <2>5
    <3>3. CASE k > 0
      <4>1. h[k] = f[k]
        BY <3>1, <3>3, <2>7
      <4> DEFINE i == k + 1
      <4>a. i \in 1..Len(c) /\ i # 1 /\ i - 1 = k
        BY <3>1, <3>3
      <4>2. h[i] = Join(h[i - 1], ss[i])
        BY <4>a, <2>5
      <4>3. f[i] = Join(f[i - 1], ss[i])
        BY <4>a, <1>4
      <4> QED BY <4>1, <4>2, <4>3, <4>a
    <3> QED BY <3>2, <3>3
  <2>8. Nat \subseteq S
    <3> HIDE DEF S
    <3> QED BY <2>6, <2>7, SetInduction
  <2> QED BY <2>8, <1>3, <1>5, <1>7
<1> QED BY <1>1, <1>6, <1>7

LEMMA UnitsType ==
    ASSUME NEW c \in Seq(Chunks)
    PROVE  Units(c) \in Seq(Unit)
<1>1. PICK f : UnitRun(Len(c), f, c)
  BY UnitRunExists
<1>2. Units(c) = f[Len(c)]
  BY <1>1, UnitsOfRun
<1> QED BY <1>1, <1>2 DEF UnitRun

LEMMA UnitsEmpty == Units(<<>>) = <<>>
<1> DEFINE f == [i \in 0..0 |-> <<>>]
<1>1. <<>> \in Seq(Chunks) /\ Len(<<>>) = 0
  OBVIOUS
<1>2. UnitRun(0, f, <<>>)
  BY DEF UnitRun
<1>3. Units(<<>>) = f[0]
  <2> HIDE DEF f
  <2> QED BY <1>1, <1>2, UnitsOfRun
<1> QED BY <1>3

LEMMA UnitsOne ==
    ASSUME NEW x \in Chunks
    PROVE  Units(<<x>>) = x.units
<1> DEFINE f == [i \in 0..1 |-> IF i = 0 THEN <<>> ELSE x.units]
<1>1. x.units \in Seq(Unit)
  BY DEF Chunks
<1>2. <<x>> \in Seq(Chunks) /\ Len(<<x>>) = 1 /\ <<x>>[1] = x
  OBVIOUS
<1>3. UnitRun(1, f, <<x>>)
  <2>1. f \in [0..1 -> Seq(Unit)] /\ f[0] = <<>> /\ f[1] = x.units
    BY <1>1
  <2>2. f[1] = Join(f[0], <<x>>[1].units)
    BY <1>1, <1>2, <2>1, JoinFacts
  <2> HIDE DEF f
  <2> QED BY <2>1, <2>2 DEF UnitRun
<1>4. Units(<<x>>) = f[1]
  <2> HIDE DEF f
  <2> QED BY <1>2, <1>3, UnitsOfRun
<1> QED BY <1>4

LEMMA UnitsConcat ==
    ASSUME NEW c \in Seq(Chunks), NEW d \in Seq(Chunks)
    PROVE  Units(c \o d) = Units(c) \o Units(d)
<1>1. PICK f : UnitRun(Len(c), f, c)
  BY UnitRunExists
<1>2. PICK g : UnitRun(Len(d), g, d)
  BY UnitRunExists
<1> DEFINE n == Len(c)
           m == Len(d)
           e == c \o d
           h == [i \in 0..(n + m) |-> IF i <= n THEN f[i] ELSE Join(f[n], g[i - n])]
<1>3. n \in Nat /\ m \in Nat /\ e \in Seq(Chunks) /\ Len(e) = n + m
  OBVIOUS
<1>4. \A i \in 1..(n + m) : e[i] = IF i <= n THEN c[i] ELSE d[i - n]
  OBVIOUS
<1>5. /\ \A i \in 0..n : f[i] \in Seq(Unit)
      /\ f[0] = <<>>
      /\ \A i \in 1..n : f[i] = Join(f[i - 1], c[i].units)
  BY <1>1 DEF UnitRun
<1>6. /\ \A i \in 0..m : g[i] \in Seq(Unit)
      /\ g[0] = <<>>
      /\ \A i \in 1..m : g[i] = Join(g[i - 1], d[i].units)
  BY <1>2 DEF UnitRun
<1>7. \A i \in 1..m : d[i].units \in Seq(Unit)
  <2>1. \A i \in 1..m : d[i] \in Chunks
    OBVIOUS
  <2> QED BY <2>1 DEF Chunks
<1> HIDE DEF n, m, e
<1>8. UnitRun(n + m, h, e)
  <2>1. ASSUME NEW i \in 0..(n + m) PROVE h[i] \in Seq(Unit)
    <3>1. CASE i <= n
      BY <3>1, <1>3, <1>5
    <3>2. CASE i > n
      <4>1. i - n \in 0..m /\ n \in 0..n
        BY <3>2, <1>3
      <4>2. f[n] \in Seq(Unit) /\ g[i - n] \in Seq(Unit)
        BY <4>1, <1>5, <1>6
      <4>3. h[i] = Join(f[n], g[i - n])
        BY <3>2, <1>3
      <4> QED BY <4>2, <4>3, JoinFacts
    <3> QED BY <3>1, <3>2, <1>3
  <2>2. h[0] = <<>>
    BY <1>3, <1>5
  <2>3. ASSUME NEW i \in 1..(n + m) PROVE h[i] = Join(h[i - 1], e[i].units)
    <3>1. CASE i <= n
      <4>1. i \in 1..n /\ h[i] = f[i] /\ h[i - 1] = f[i - 1] /\ e[i] = c[i]
        BY <3>1, <1>3, <1>4
      <4> QED BY <4>1, <1>5
    <3>2. CASE i > n
      <4> DEFINE j == i - n
                 q == j - 1
                 x == i - 1
      <4>1. /\ j \in 1..m /\ q \in 0..m /\ n \in 0..n /\ x \in 0..(n + m)
            /\ x - n = q /\ (x <= n => x = n /\ q = 0) /\ q = j - 1
        BY <3>2, <1>3
      <4>2. h[i] = Join(f[n], g[j]) /\ e[i] = d[j]
        BY <3>2, <1>3, <1>4
      <4>3. h[x] = IF x <= n THEN f[x] ELSE Join(f[n], g[x - n])
        BY <4>1
      <4> HIDE DEF j, q, x, h
      <4>4. f[n] \in Seq(Unit) /\ g[q] \in Seq(Unit) /\ d[j].units \in Seq(Unit)
        BY <4>1, <1>5, <1>6, <1>7
      <4>5. h[x] = Join(f[n], g[q])
        <5>1. CASE x <= n
          BY <5>1, <4>1, <4>3, <4>4, <1>6, JoinFacts
        <5>2. CASE ~(x <= n)
          BY <5>2, <4>1, <4>3
        <5> QED BY <5>1, <5>2
      <4>6. g[j] = Join(g[q], d[j].units)
        BY <4>1, <1>6
      <4>7. Join(f[n], Join(g[q], d[j].units)) = Join(Join(f[n], g[q]), d[j].units)
        <5>1. \A s, u, v \in Seq(Unit) : Join(s, Join(u, v)) = Join(Join(s, u), v)
          BY JoinFacts
        <5> QED BY <4>4, <5>1, Zenon
      <4>8. h[i] = Join(h[x], e[i].units)
        BY <4>2, <4>5, <4>6, <4>7
      <4> QED BY <4>8 DEF x
    <3> QED BY <3>1, <3>2, <1>3
  <2>4. h \in [0..(n + m) -> Seq(Unit)]
    <3>1. h = [i \in 0..(n + m) |-> h[i]]
      OBVIOUS
    <3> HIDE DEF h
    <3> QED BY <2>1, <3>1
  <2> HIDE DEF h
  <2> QED BY <2>2, <2>3, <2>4 DEF UnitRun
<1>9. Units(e) = h[n + m]
  <2> HIDE DEF h
  <2> QED BY <1>3, <1>8, UnitsOfRun
<1>10. Units(c) = f[n] /\ Units(d) = g[m]
  BY <1>1, <1>2, UnitsOfRun DEF n, m
<1>11. h[n + m] = Join(f[n], g[m])
  <2>1. CASE m = 0
    <3>1. h[n + m] = f[n] /\ f[n] \in Seq(Unit) /\ g[m] = <<>>
      BY <2>1, <1>3, <1>5, <1>6
    <3> QED BY <3>1, JoinFacts
  <2>2. CASE m > 0
    BY <2>2, <1>3
  <2> QED BY <2>1, <2>2, <1>3
<1> QED BY <1>9, <1>10, <1>11 DEF e, Join

(* The sum of the lengths is what every function that adds them up says.   *)
LEMMA LengthOfSums ==
    ASSUME NEW c \in Seq(Chunks), NEW f \in [0..Len(c) -> Int], f[0] = 0,
           \A i \in 1..Len(c) : f[i] = f[i - 1] + c[i].len
    PROVE  Length(c) = f[Len(c)]
<1> DEFINE Step(g, i) == IF i = 0 THEN 0 ELSE g[i - 1] + c[i].len
           Eq(g) == g = [i \in 0..Len(c) |-> Step(g, i)]
           h == CHOOSE g : Eq(g)
           S == {k \in Nat : k \in 0..Len(c) => h[k] = f[k]}
<1>1. Length(c) = h[Len(c)]
  BY DEF Length
<1>2. Eq(f)
  <2>1. f = [i \in 0..Len(c) |-> f[i]]
    OBVIOUS
  <2>2. ASSUME NEW i \in 0..Len(c) PROVE f[i] = Step(f, i)
    OBVIOUS
  <2> HIDE DEF Step
  <2> QED BY <2>1, <2>2
<1>3. Eq(h)
  <2> HIDE DEF Eq
  <2> QED BY <1>2
<1>4. ASSUME NEW i \in 0..Len(c) PROVE h[i] = Step(h, i)
  <2> HIDE DEF h, Step
  <2> QED BY <1>3
<1> HIDE DEF h
<1>5. 0 \in S
  BY <1>4
<1>6. ASSUME NEW k \in Nat, k \in S PROVE k + 1 \in S
  <2>1. SUFFICES ASSUME k + 1 \in 0..Len(c) PROVE h[k + 1] = f[k + 1]
    OBVIOUS
  <2> DEFINE i == k + 1
  <2>2. i \in 0..Len(c) /\ i \in 1..Len(c) /\ i # 0 /\ i - 1 = k /\ k \in 0..Len(c)
    BY <2>1
  <2> HIDE DEF i
  <2>3. h[k] = f[k]
    BY <2>2, <1>6
  <2>4. h[i] = f[i]
    BY <2>2, <2>3, <1>4
  <2> QED BY <2>4 DEF i
<1>7. Nat \subseteq S
  <2> HIDE DEF S
  <2> QED BY <1>5, <1>6, SetInduction
<1> QED BY <1>1, <1>7

LEMMA LengthOfOne ==
    ASSUME NEW x \in Chunks
    PROVE  Length(<<x>>) = x.len
<1> DEFINE f == [i \in 0..1 |-> IF i = 0 THEN 0 ELSE x.len]
<1>1. <<x>> \in Seq(Chunks) /\ Len(<<x>>) = 1 /\ <<x>>[1] = x /\ x.len \in Nat
  BY DEF Chunks
<1>2. f \in [0..1 -> Int] /\ f[0] = 0 /\ f[1] = x.len
  BY <1>1
<1> HIDE DEF f
<1>3. \A i \in 1..1 : f[i] = f[i - 1] + <<x>>[i].len
  BY <1>1, <1>2
<1> QED BY <1>1, <1>2, <1>3, LengthOfSums

-----------------------------------------------------------------------------
(* Blocks.                                                                 *)

(* The units in i blocks.                                                  *)
Times(i) == i * BlockLength

LEMMA TimesFacts ==
    /\ BlockLength \in Nat /\ BlockLength > 0
    /\ Times(0) = 0 /\ Times(1) = BlockLength
BY LengthsAssumption DEF Times

LEMMA TimesNext ==
    ASSUME NEW i \in Nat
    PROVE  Times(i) \in Nat /\ Times(i + 1) = Times(i) + BlockLength
BY LengthsAssumption DEF Times

LEMMA TimesGrow ==
    ASSUME NEW i \in Nat, NEW j \in Nat, i <= j
    PROVE  Times(i) \in Nat /\ Times(i) <= Times(j)
BY LengthsAssumption DEF Times

LEMMA WholeFacts ==
    ASSUME NEW n \in Nat
    PROVE  /\ n \div BlockLength \in Nat
           /\ Times(n \div BlockLength) <= n
           /\ n < Times(n \div BlockLength) + BlockLength
           /\ n % BlockLength = n - Times(n \div BlockLength)
BY LengthsAssumption DEF Times

(* A block of s that begins after i of them.                               *)
BlockOf(p, s, i) ==
    Chunk(IF ~chained(p) THEN Unchained ELSE IF i = 0 THEN p.iv ELSE s[Times(i)],
          SubSeq(s, Times(i) + 1, Times(i + 1)), BlockLength)

LEMMA LenOfBlock ==
    ASSUME NEW p, NEW s, NEW i
    PROVE  BlockOf(p, s, i).len = BlockLength
BY DEF BlockOf, Chunk

LEMMA BlocksFacts ==
    ASSUME NEW p, p.iv \in 0..MaxInput, NEW s \in Seq(Unit)
    PROVE  LET n == Len(s) \div BlockLength
               b == Blocks(p, s)
           IN  /\ b \in Seq(Chunks) /\ Len(b) = n
               /\ \A i \in 1..n : b[i] = BlockOf(p, s, i - 1)
<1> DEFINE n == Len(s) \div BlockLength
           b == Blocks(p, s)
<1>1. n \in Nat /\ Times(n) <= Len(s) /\ Len(s) \in Nat
  BY WholeFacts
<1>2. b = [i \in 1..n |-> BlockOf(p, s, i - 1)]
  <2>1. ASSUME NEW i \in 1..n
        PROVE  BlockOf(p, s, i - 1) =
                 Chunk(CASE ~chained(p) -> Unchained
                         [] chained(p) /\ i = 1 -> p.iv
                         [] OTHER -> s[(i - 1) * BlockLength],
                       SubSeq(s, (i - 1) * BlockLength + 1, i * BlockLength), BlockLength)
    <3>1. (i - 1) + 1 = i /\ (i - 1 = 0 <=> i = 1)
      BY <1>1
    <3> QED BY <3>1 DEF BlockOf, Times
  <2> QED BY <2>1 DEF Blocks
<1>3. ASSUME NEW i \in 1..n PROVE BlockOf(p, s, i - 1) \in Chunks
  <2> DEFINE k == i - 1
             x == Times(k)
             y == Times(k + 1)
  <2>1. k \in Nat /\ k + 1 \in Nat /\ k + 1 <= n
    BY <1>1
  <2> HIDE DEF k, n
  <2>2. x \in Nat /\ y = x + BlockLength /\ y <= Len(s) /\ BlockLength \in Nat \ {0}
    <3>1. x \in Nat /\ y = x + BlockLength
      BY <2>1, TimesNext
    <3>2. y <= Times(n)
      BY <2>1, <1>1, TimesGrow
    <3>3. Times(n) \in Nat /\ BlockLength \in Nat \ {0}
      BY <1>1, TimesNext, TimesFacts
    <3> HIDE DEF x, y
    <3> QED BY <3>1, <3>2, <3>3, <1>1
  <2>3. k # 0 => x >= 1
    <3>1. k # 0 => Times(1) <= x
      BY <2>1, TimesGrow
    <3> QED BY <3>1, <2>2, TimesFacts
  <2> HIDE DEF x, y
  <2>4. SubSeq(s, x + 1, y) \in Seq(Unit)
    <3>1. \A j \in (x + 1)..y : j \in 1..Len(s)
      BY <2>2
    <3>2. \A j \in (x + 1)..y : s[j] \in Unit
      BY <3>1
    <3> QED BY <3>2, <2>2, SubSeqProperties
  <2>5. k # 0 => s[x] \in Unit
    <3>1. k # 0 => x \in 1..Len(s)
      BY <2>2, <2>3
    <3> QED BY <3>1
  <2>6. Unit \subseteq 0..MaxInput
    BY LengthsAssumption DEF Unit
  <2>7. BlockOf(p, s, k) \in Chunks
    BY <2>2, <2>4, <2>5, <2>6 DEF BlockOf, Chunk, Chunks, x, y
  <2> QED BY <2>7 DEF k
<1>4. b \in [1..n -> Chunks]
  BY <1>2, <1>3
<1>5. b \in Seq(Chunks) /\ Len(b) = n
  <2> HIDE DEF b, n
  <2> QED BY <1>1, <1>4, FunctionIsSeq
<1>6. \A i \in 1..n : b[i] = BlockOf(p, s, i - 1)
  <2> HIDE DEF b, n
  <2> QED BY <1>2
<1> QED BY <1>5, <1>6

(* The units of the blocks of s are those of s, but for the last ones.     *)
LEMMA UnitsOfBlocks ==
    ASSUME NEW p, p.iv \in 0..MaxInput, NEW s \in Seq(Unit)
    PROVE  Units(Blocks(p, s)) = SubSeq(s, 1, Times(Len(s) \div BlockLength))
<1> DEFINE n == Len(s) \div BlockLength
           b == Blocks(p, s)
           f == [i \in 0..n |-> SubSeq(s, 1, Times(i))]
<1>1. n \in Nat /\ Times(n) <= Len(s) /\ Len(s) \in Nat
  BY WholeFacts
<1>2. b \in Seq(Chunks) /\ Len(b) = n /\ \A i \in 1..n : b[i] = BlockOf(p, s, i - 1)
  BY BlocksFacts
<1> HIDE DEF n, b
<1>3. ASSUME NEW i \in 0..n
      PROVE  Times(i) \in 0..Len(s) /\ f[i] \in Seq(Unit)
  <2> DEFINE x == Times(i)
  <2>1. x \in 0..Len(s)
    <3>1. x \in Nat /\ x <= Times(n) /\ Times(n) \in Nat
      <4>1. i \in Nat /\ i <= n
        BY <1>1
      <4>2. x \in Nat /\ x <= Times(n)
        BY <4>1, <1>1, TimesGrow
      <4>3. Times(n) \in Nat
        BY <1>1, TimesNext
      <4> QED BY <4>2, <4>3
    <3> HIDE DEF x
    <3> QED BY <3>1, <1>1
  <2>2. f[i] = SubSeq(s, 1, x)
    OBVIOUS
  <2> HIDE DEF x
  <2>3. \A j \in 1..x : s[j] \in Unit
    BY <2>1
  <2> QED BY <2>1, <2>2, <2>3, SubSeqProperties DEF x
<1>4. f[0] = <<>>
  <2>1. 0 \in 0..n /\ Times(0) = 0
    BY <1>1, TimesFacts
  <2>2. f[0] = SubSeq(s, 1, Times(0))
    BY <2>1
  <2> QED BY <2>1, <2>2, SubSeqEmpty
<1>5. ASSUME NEW i \in 1..n PROVE f[i] = Join(f[i - 1], b[i].units)
  <2> DEFINE k == i - 1
             x == Times(k)
             y == Times(i)
  <2>1. k \in 0..n /\ i \in 0..n /\ k \in Nat /\ k + 1 = i
    BY <1>1
  <2>2. x \in 0..Len(s) /\ y \in 0..Len(s) /\ y = x + BlockLength
    BY <2>1, <1>3, TimesNext
  <2>3. f[i] = SubSeq(s, 1, y) /\ f[k] = SubSeq(s, 1, x)
    BY <2>1
  <2>4. b[i].units = SubSeq(s, x + 1, y)
    BY <2>1, <1>2 DEF BlockOf, Chunk
  <2> HIDE DEF x, y, f
  <2>5. SubSeq(s, 1, x) \o SubSeq(s, x + 1, y) = SubSeq(s, 1, y)
    <3>1. 1 \in 1..(Len(s) + 1) /\ x \in (1 - 1)..Len(s) /\ y \in x..Len(s)
      BY <1>1, <2>2, TimesFacts
    <3> QED BY <3>1, ConcatAdjacentSubSeq
  <2>6. f[i] = Join(f[k], b[i].units)
    BY <2>3, <2>4, <2>5 DEF Join
  <2> QED BY <2>6
<1>6. UnitRun(n, f, b)
  <2>1. f \in [0..n -> Seq(Unit)]
    BY <1>3
  <2> HIDE DEF f
  <2> QED BY <2>1, <1>4, <1>5 DEF UnitRun
<1>7. f[n] = SubSeq(s, 1, Times(n))
  <2>1. n \in 0..n
    BY <1>1
  <2> QED BY <2>1
<1> HIDE DEF f
<1>8. Units(b) = f[n]
  <2>1. UnitRun(Len(b), f, b)
    BY <1>2, <1>6
  <2>2. Units(b) = f[Len(b)]
    BY <2>1, <1>2, UnitsOfRun
  <2> QED BY <2>2, <1>2
<1> QED BY <1>7, <1>8 DEF b, n

(* Units looks at nothing but the units.                                   *)
LEMMA SameUnits ==
    ASSUME NEW c \in Seq(Chunks), NEW d \in Seq(Chunks), Len(c) = Len(d),
           \A i \in 1..Len(c) : c[i].units = d[i].units
    PROVE  Units(c) = Units(d)
<1>1. PICK f : UnitRun(Len(c), f, c)
  BY UnitRunExists
<1>2. UnitRun(Len(d), f, d)
  BY <1>1 DEF UnitRun
<1>3. Units(c) = f[Len(c)] /\ Units(d) = f[Len(d)]
  BY <1>1, <1>2, UnitsOfRun
<1> QED BY <1>3

(* The last unit of a block.                                               *)
LEMMA LastOfBlock ==
    ASSUME NEW p, p.iv \in 0..MaxInput, NEW s \in Seq(Unit),
           NEW i \in 1..(Len(s) \div BlockLength)
    PROVE  /\ Seqs!Last(Blocks(p, s)[i].units) = s[Times(i)]
           /\ Times(i) \in 1..Len(s)
<1> DEFINE n == Len(s) \div BlockLength
           k == i - 1
           x == Times(k)
           y == Times(i)
           u == SubSeq(s, x + 1, y)
<1>1. n \in Nat /\ Times(n) <= Len(s) /\ Len(s) \in Nat /\ Times(n) \in Nat
  <2>1. n \in Nat /\ Times(n) <= Len(s) /\ Len(s) \in Nat
    BY WholeFacts
  <2> QED BY <2>1, TimesNext
<1>2. k \in Nat /\ i \in Nat /\ i <= n /\ k + 1 = i
  BY <1>1
<1>3. Blocks(p, s)[i].units = u
  <2>1. Blocks(p, s)[i] = BlockOf(p, s, k)
    BY BlocksFacts
  <2>2. Times(k + 1) = Times(i)
    BY <1>2
  <2> HIDE DEF k
  <2>3. BlockOf(p, s, k).units = SubSeq(s, Times(k) + 1, Times(k + 1))
    BY DEF BlockOf, Chunk
  <2> QED BY <2>1, <2>2, <2>3
<1> HIDE DEF n
<1>4. x \in Nat /\ y = x + BlockLength /\ BlockLength \in Nat \ {0}
  <2>1. Times(k) \in Nat /\ Times(k + 1) = Times(k) + BlockLength
    BY <1>2, TimesNext
  <2>2. Times(k + 1) = Times(i)
    BY <1>2
  <2> HIDE DEF k
  <2> QED BY <2>1, <2>2, TimesFacts
<1>5. y <= Len(s)
  <2>1. y \in Nat /\ y <= Times(n)
    BY <1>1, <1>2, TimesGrow
  <2> HIDE DEF y
  <2> QED BY <2>1, <1>1
<1> HIDE DEF k, x, y
<1>6. Len(u) = BlockLength /\ u[BlockLength] = s[x + 1 + BlockLength - 1]
  <2>1. \A j \in (x + 1)..y : s[j] \in Unit
    BY <1>4, <1>5
  <2>2. /\ Len(u) = IF x + 1 <= y THEN y - (x + 1) + 1 ELSE 0
        /\ \A j \in 1..(y - (x + 1) + 1) : u[j] = s[x + 1 + j - 1]
    <3> DEFINE m == x + 1
    <3>1. m \in Int /\ y \in Int /\ \A j \in m..y : s[j] \in Unit
      BY <2>1, <1>4
    <3> HIDE DEF m
    <3>2. /\ Len(SubSeq(s, m, y)) = IF m <= y THEN y - m + 1 ELSE 0
          /\ \A j \in 1..(y - m + 1) : SubSeq(s, m, y)[j] = s[m + j - 1]
      BY <3>1, SubSeqProperties
    <3> QED BY <3>2 DEF m
  <2>3. BlockLength \in 1..(y - (x + 1) + 1) /\ y - (x + 1) + 1 = BlockLength /\ x + 1 <= y
    BY <1>4
  <2> HIDE DEF u
  <2> QED BY <2>2, <2>3
<1>7. x + 1 + BlockLength - 1 = y /\ y \in 1..Len(s)
  BY <1>4, <1>5
<1> HIDE DEF u
<1> QED BY <1>3, <1>6, <1>7 DEF Seqs!Last, y

(* The chunks of r are chained to each other, the first one to the         *)
(* chaining value of the operation.                                        *)
Continues(p, r) ==
    \A i \in 1..Len(r) : r[i].iv # Unchained =>
        /\ p.mechanism # "ecb"
        /\ r[i].iv = IF i = 1 THEN p.iv ELSE Seqs!Last(r[i - 1].units)

LEMMA BlocksContinue ==
    ASSUME NEW p, p.iv \in 0..MaxInput, NEW s \in Seq(Unit)
    PROVE  Continues(p, Blocks(p, s))
<1> DEFINE n == Len(s) \div BlockLength
           b == Blocks(p, s)
<1>1. n \in Nat
  BY WholeFacts
<1>2. b \in Seq(Chunks) /\ Len(b) = n /\ \A i \in 1..n : b[i] = BlockOf(p, s, i - 1)
  BY BlocksFacts
<1>3. \A i \in 1..n : Seqs!Last(b[i].units) = s[Times(i)]
  BY LastOfBlock
<1> HIDE DEF n, b
<1>4. ASSUME NEW i \in 1..n, b[i].iv # Unchained
      PROVE  /\ p.mechanism # "ecb"
             /\ b[i].iv = IF i = 1 THEN p.iv ELSE Seqs!Last(b[i - 1].units)
  <2>1. b[i].iv = IF ~chained(p) THEN Unchained ELSE IF i - 1 = 0 THEN p.iv ELSE s[Times(i - 1)]
    BY <1>2 DEF BlockOf, Chunk
  <2>2. chained(p) /\ p.mechanism # "ecb"
    BY <2>1, <1>4 DEF chained
  <2>3. CASE i = 1
    BY <2>1, <2>2, <2>3
  <2>4. CASE i # 1
    <3>1. i - 1 \in 1..n /\ i - 1 # 0
      BY <2>4, <1>1
    <3>2. Seqs!Last(b[i - 1].units) = s[Times(i - 1)]
      BY <3>1, <1>3
    <3> QED BY <2>1, <2>2, <2>4, <3>1, <3>2
  <2> QED BY <2>3, <2>4
<1> QED BY <1>2, <1>4 DEF Continues, b

LEMMA ChainContinues ==
    ASSUME NEW p, NEW out \in Seq(Chunks), NEW r \in Seq(Chunks), Chained(out), Continues(p, r),
           p.mechanism # "ecb" => p.iv = Left(out)
    PROVE  Chained(out \o r)
<1> DEFINE e == out \o r
           n == Len(out)
<1>1. /\ n \in Nat /\ Len(r) \in Nat /\ DOMAIN e = 1..(n + Len(r)) /\ DOMAIN out = 1..n
      /\ \A i \in 1..(n + Len(r)) : e[i] = IF i <= n THEN out[i] ELSE r[i - n]
  OBVIOUS
<1>2. n = 0 <=> out = <<>>
  OBVIOUS
<1>3. Left(out) = IF n = 0 THEN 0 ELSE Seqs!Last(out[n].units)
  BY <1>2 DEF Left
<1> HIDE DEF e, n
<1>4. ASSUME NEW i \in 1..(n + Len(r)), e[i].iv # Unchained
      PROVE  e[i].iv = IF i = 1 THEN 0 ELSE Seqs!Last(e[i - 1].units)
  <2>1. CASE i <= n
    <3>1. i \in DOMAIN out /\ e[i] = out[i] /\ (i # 1 => e[i - 1] = out[i - 1])
      BY <2>1, <1>1
    <3> QED BY <3>1, <1>4 DEF Chained
  <2>2. CASE i > n
    <3> DEFINE j == i - n
    <3>1. /\ j \in 1..Len(r) /\ e[i] = r[j]
          /\ (j = 1 => i - 1 = n) /\ (j # 1 => e[i - 1] = r[j - 1] /\ i # 1)
      <4>1. j \in 1..Len(r) /\ e[i] = r[j] /\ (j = 1 => i - 1 = n)
        BY <2>2, <1>1
      <4>2. ASSUME j # 1 PROVE e[i - 1] = r[j - 1] /\ i # 1
        <5>1. i - 1 \in 1..(n + Len(r)) /\ ~(i - 1 <= n) /\ (i - 1) - n = j - 1 /\ i # 1
          BY <4>2, <2>2, <1>1
        <5>2. e[i - 1] = r[(i - 1) - n]
          BY <5>1, <1>1
        <5> HIDE DEF j
        <5> QED BY <5>1, <5>2
      <4> HIDE DEF j
      <4> QED BY <4>1, <4>2
    <3> HIDE DEF j
    <3>2. p.mechanism # "ecb" /\ r[j].iv = IF j = 1 THEN p.iv ELSE Seqs!Last(r[j - 1].units)
      BY <3>1, <1>4 DEF Continues
    <3>3. CASE j # 1
      BY <3>1, <3>2, <3>3
    <3>4. CASE j = 1 /\ n = 0
      BY <3>1, <3>2, <3>4, <1>3
    <3>5. CASE j = 1 /\ n # 0
      <4>1. e[i].iv = Seqs!Last(out[n].units)
        BY <3>1, <3>2, <3>5, <1>3
      <4>2. i - 1 = n /\ i # 1 /\ i - 1 \in 1..(n + Len(r)) /\ i - 1 <= n
        BY <3>1, <3>5, <1>1
      <4>3. e[i - 1] = out[i - 1]
        BY <4>2, <1>1
      <4> QED BY <4>1, <4>2, <4>3
    <3> QED BY <3>3, <3>4, <3>5
  <2> QED BY <2>1, <2>2, <1>1
<1> QED BY <1>1, <1>4 DEF Chained, e

-----------------------------------------------------------------------------
(* Whole transformations.                                                  *)

(* A result for s is computed from all of s, chained to what came before,  *)
(* and is as long as a query has said, or shorter.                         *)
ResultOK(d, p, s, r) ==
    /\ r \in Seq(Chunks)
    /\ Units(r) = s
    /\ Continues(p, r)
    /\ Length(r) <= crypt_output_length(d, p, Len(s))

LEMMA BlockResultsOK ==
    ASSUME NEW d, NEW p, p.iv \in 0..MaxInput, p.mechanism \in {"ecb", "cbc"},
           NEW s \in Seq(Unit), NEW r \in BlockResults(p, s)
    PROVE  ResultOK(d, p, s, r)
<1> DEFINE n == Len(s) \div BlockLength
           f == [i \in 0..n |-> Times(i)]
<1>1. Len(s) % BlockLength = 0 /\ r = Blocks(p, s)
  BY DEF BlockResults, WholeBlocks
<1>2. n \in Nat /\ Times(n) = Len(s) /\ Len(s) \in Nat
  <2>1. /\ n \in Nat /\ Len(s) \in Nat /\ Times(n) <= Len(s)
        /\ Len(s) % BlockLength = Len(s) - Times(n)
    BY WholeFacts
  <2>2. Times(n) \in Nat
    BY <2>1, TimesNext
  <2> HIDE DEF n
  <2> QED BY <1>1, <2>1, <2>2
<1>3. r \in Seq(Chunks) /\ Len(r) = n /\ \A i \in 1..n : r[i].len = BlockLength
  <2>1. r \in Seq(Chunks) /\ Len(r) = n /\ \A i \in 1..n : r[i] = BlockOf(p, s, i - 1)
    BY <1>1, BlocksFacts
  <2> QED BY <2>1, LenOfBlock
<1>4. Units(r) = s
  BY <1>1, <1>2, UnitsOfBlocks, SubSeqFull
<1>5. Continues(p, r)
  BY <1>1, BlocksContinue
<1> HIDE DEF n
<1>6. Length(r) = Times(n)
  <2>1. f \in [0..n -> Int] /\ f[0] = 0 /\ f[n] = Times(n)
    BY <1>2, TimesNext, TimesFacts
  <2>2. ASSUME NEW i \in 1..n PROVE f[i] = f[i - 1] + r[i].len
    <3>1. i - 1 \in Nat /\ (i - 1) + 1 = i /\ i - 1 \in 0..n /\ i \in 0..n
      BY <1>2
    <3>2. Times((i - 1) + 1) = Times(i - 1) + BlockLength
      BY <3>1, TimesNext
    <3>3. Times(i) = Times(i - 1) + BlockLength
      BY <3>1, <3>2
    <3> QED BY <3>1, <3>3, <1>3
  <2> HIDE DEF f
  <2>3. Length(r) = f[Len(r)]
    BY <2>1, <2>2, <1>3, LengthOfSums
  <2> QED BY <2>1, <2>3, <1>3
<1>7. crypt_output_length(d, p, Len(s)) = Len(s)
  BY DEF crypt_output_length
<1> QED BY <1>2, <1>3, <1>4, <1>5, <1>6, <1>7 DEF ResultOK

LEMMA PadEncryptedOK ==
    ASSUME NEW p, p.iv \in 0..MaxInput, p.mechanism = "cbc_pad",
           NEW s \in Seq(Unit), NEW r \in PadEncrypted(p, s)
    PROVE  ResultOK("encrypt", p, s, r)
<1> DEFINE n == Len(s) \div BlockLength
           whole == Times(n)
           b == Blocks(p, s)
           rest == SubSeq(s, whole + 1, Len(s))
           x == Chunk(IF whole = 0 THEN p.iv ELSE s[whole], rest, BlockLength)
           f == [i \in 0..(n + 1) |-> Times(i)]
<1>1. r = b \o <<x>>
  BY DEF PadEncrypted, Times
<1>2. /\ n \in Nat /\ whole \in Nat /\ Len(s) \in Nat /\ whole <= Len(s)
      /\ Len(s) % BlockLength = Len(s) - whole
  <2>1. /\ n \in Nat /\ Len(s) \in Nat /\ Times(n) <= Len(s)
        /\ Len(s) % BlockLength = Len(s) - Times(n)
    BY WholeFacts
  <2>2. Times(n) \in Nat
    BY <2>1, TimesNext
  <2> QED BY <2>1, <2>2
<1>3. b \in Seq(Chunks) /\ Len(b) = n /\ \A i \in 1..n : b[i].len = BlockLength
  <2>1. b \in Seq(Chunks) /\ Len(b) = n /\ \A i \in 1..n : b[i] = BlockOf(p, s, i - 1)
    BY BlocksFacts
  <2> QED BY <2>1, LenOfBlock
<1>4. Units(b) = SubSeq(s, 1, whole)
  BY UnitsOfBlocks
<1>5. Continues(p, b)
  BY BlocksContinue
<1>6. n # 0 => Seqs!Last(b[n].units) = s[whole] /\ whole \in 1..Len(s)
  <2>1. n # 0 => n \in 1..n
    BY <1>2
  <2> QED BY <2>1, LastOfBlock
<1>7. n = 0 => whole = 0
  BY TimesFacts
<1> HIDE DEF n, whole, b
<1>8. rest \in Seq(Unit) /\ SubSeq(s, 1, whole) \o rest = s
  <2>1. \A j \in (whole + 1)..Len(s) : s[j] \in Unit
    BY <1>2
  <2>2. rest \in Seq(Unit)
    BY <2>1, <1>2, SubSeqProperties
  <2>3. 1 \in 1..(Len(s) + 1) /\ whole \in (1 - 1)..Len(s) /\ Len(s) \in whole..Len(s)
    BY <1>2
  <2>4. SubSeq(s, 1, whole) \o rest = SubSeq(s, 1, Len(s))
    BY <2>3, ConcatAdjacentSubSeq
  <2> QED BY <2>2, <2>4, SubSeqFull
<1> HIDE DEF rest
<1>9. x \in Chunks
  <2>1. IF whole = 0 THEN p.iv \in 0..MaxInput ELSE s[whole] \in Unit
    BY <1>6, <1>7
  <2>2. Unit \subseteq 0..MaxInput /\ BlockLength \in Nat
    BY LengthsAssumption DEF Unit
  <2> QED BY <2>1, <2>2, <1>8 DEF Chunk, Chunks
<1>10. x.units = rest /\ x.len = BlockLength /\ x.iv = IF whole = 0 THEN p.iv ELSE s[whole]
  BY DEF Chunk
<1> HIDE DEF x
<1>11. /\ r \in Seq(Chunks) /\ Len(r) = n + 1 /\ r[n + 1] = x
       /\ \A i \in 1..n : r[i] = b[i]
  <2>1. <<x>> \in Seq(Chunks) /\ Len(<<x>>) = 1 /\ <<x>>[1] = x
    BY <1>9
  <2>2. /\ b \o <<x>> \in Seq(Chunks) /\ Len(b \o <<x>>) = n + 1
        /\ \A i \in 1..(n + 1) : (b \o <<x>>)[i] = IF i <= n THEN b[i] ELSE <<x>>[i - n]
    BY <2>1, <1>3, ConcatProperties
  <2>3. (n + 1) - n = 1 /\ n + 1 \in 1..(n + 1) /\ \A i \in 1..n : i \in 1..(n + 1) /\ i <= n
    BY <1>2
  <2> QED BY <1>1, <2>1, <2>2, <2>3, <1>2
<1>12. Units(r) = s
  <2>1. Units(<<x>>) = rest
    BY <1>9, <1>10, UnitsOne
  <2>2. Units(b \o <<x>>) = Units(b) \o Units(<<x>>)
    <3>1. <<x>> \in Seq(Chunks)
      BY <1>9
    <3> QED BY <3>1, <1>3, UnitsConcat
  <2> QED BY <1>1, <2>1, <2>2, <1>4, <1>8
<1>13. Continues(p, r)
  <2>1. ASSUME NEW i \in 1..(n + 1), r[i].iv # Unchained
        PROVE  /\ p.mechanism # "ecb"
               /\ r[i].iv = IF i = 1 THEN p.iv ELSE Seqs!Last(r[i - 1].units)
    <3>1. CASE i <= n
      <4>1. i \in 1..n /\ r[i] = b[i] /\ (i # 1 => r[i - 1] = b[i - 1])
        BY <3>1, <1>2, <1>11
      <4> QED BY <4>1, <2>1, <1>3, <1>5 DEF Continues
    <3>2. CASE i = n + 1 /\ n = 0
      BY <3>2, <1>7, <1>10, <1>11
    <3>3. CASE i = n + 1 /\ n # 0
      <4>1. i # 1 /\ i - 1 = n /\ n \in 1..n
        BY <3>3, <1>2
      <4>2. r[i] = x /\ r[i - 1] = b[n]
        BY <3>3, <4>1, <1>11
      <4>3. x.iv = Seqs!Last(b[n].units)
        BY <3>3, <1>6, <1>10
      <4> QED BY <4>1, <4>2, <4>3
    <3> QED BY <3>1, <3>2, <3>3, <1>2
  <2> QED BY <2>1, <1>11 DEF Continues
<1>14. Length(r) = whole + BlockLength
  <2>1. f \in [0..(n + 1) -> Int] /\ f[0] = 0 /\ f[n + 1] = Times(n + 1)
    <3>1. \A i \in 0..(n + 1) : Times(i) \in Int
      BY <1>2, TimesNext
    <3>2. 0 \in 0..(n + 1) /\ n + 1 \in 0..(n + 1)
      BY <1>2
    <3> QED BY <3>1, <3>2, TimesFacts
  <2>2. ASSUME NEW i \in 1..(n + 1) PROVE f[i] = f[i - 1] + r[i].len
    <3>1. i - 1 \in Nat /\ (i - 1) + 1 = i /\ i - 1 \in 0..(n + 1) /\ i \in 0..(n + 1)
      BY <1>2
    <3>2. Times((i - 1) + 1) = Times(i - 1) + BlockLength
      BY <3>1, TimesNext
    <3>3. Times(i) = Times(i - 1) + BlockLength
      BY <3>1, <3>2
    <3>4. r[i].len = BlockLength
      <4>1. i \in 1..n \/ i = n + 1
        BY <1>2
      <4> QED BY <4>1, <1>3, <1>10, <1>11
    <3> QED BY <3>1, <3>3, <3>4
  <2> HIDE DEF f
  <2>3. Length(r) = f[Len(r)]
    BY <2>1, <2>2, <1>11, LengthOfSums
  <2>4. Times(n + 1) = whole + BlockLength
    BY <1>2, TimesNext DEF whole
  <2> QED BY <2>1, <2>3, <2>4, <1>11
<1>15. crypt_output_length("encrypt", p, Len(s)) = whole + BlockLength
  <2>1. crypt_output_length("encrypt", p, Len(s)) = Len(s) + (BlockLength - (Len(s) % BlockLength))
    BY DEF crypt_output_length
  <2> QED BY <2>1, <1>2, TimesFacts
<1> QED BY <1>2, <1>11, <1>12, <1>13, <1>14, <1>15, TimesFacts DEF ResultOK

LEMMA PadDecryptedOK ==
    ASSUME NEW p, p.iv \in 0..MaxInput, p.mechanism = "cbc_pad",
           NEW s \in Seq(Unit), NEW r \in PadDecrypted(p, s)
    PROVE  ResultOK("decrypt", p, s, r)
<1> DEFINE n == Len(s) \div BlockLength
           b == Blocks(p, s)
<1>1. s # <<>> /\ Len(s) % BlockLength = 0
  BY DEF PadDecrypted, WholeBlocks
<1>2. PICK pad \in 1..BlockLength : r = [b EXCEPT ![n].len = BlockLength - pad]
  BY DEF PadDecrypted, WholeBlocks
<1>3. n \in Nat /\ Times(n) = Len(s) /\ Len(s) \in Nat /\ n # 0
  <2>1. /\ n \in Nat /\ Len(s) \in Nat /\ Times(n) <= Len(s)
        /\ Len(s) % BlockLength = Len(s) - Times(n)
    BY WholeFacts
  <2>2. Times(n) \in Nat
    BY <2>1, TimesNext
  <2>3. Len(s) # 0
    BY <1>1
  <2> HIDE DEF n
  <2> QED BY <1>1, <2>1, <2>2, <2>3, TimesFacts
<1>4. b \in Seq(Chunks) /\ Len(b) = n /\ \A i \in 1..n : b[i].len = BlockLength
  <2>1. b \in Seq(Chunks) /\ Len(b) = n /\ \A i \in 1..n : b[i] = BlockOf(p, s, i - 1)
    BY BlocksFacts
  <2> QED BY <2>1, LenOfBlock
<1>5. Units(b) = s
  BY <1>3, UnitsOfBlocks, SubSeqFull
<1>6. Continues(p, b)
  BY BlocksContinue
<1> HIDE DEF n, b
<1>7. DOMAIN b = 1..n /\ \A i \in 1..n : b[i] \in Chunks
  BY <1>4
<1>8. /\ DOMAIN r = 1..n
      /\ \A i \in 1..n : r[i] = IF i = n THEN [b[n] EXCEPT !.len = BlockLength - pad] ELSE b[i]
  BY <1>2, <1>7
<1>9. \A i \in 1..n : /\ r[i] \in Chunks /\ r[i].iv = b[i].iv /\ r[i].units = b[i].units
                      /\ r[i].len = IF i = n THEN BlockLength - pad ELSE BlockLength
  <2>1. BlockLength - pad \in Nat
    BY TimesFacts
  <2>2. n \in 1..n
    BY <1>3
  <2>3. LET y == [b[n] EXCEPT !.len = BlockLength - pad]
        IN  y \in Chunks /\ y.iv = b[n].iv /\ y.units = b[n].units /\ y.len = BlockLength - pad
    BY <2>1, <2>2, <1>7 DEF Chunks
  <2> QED BY <2>3, <1>4, <1>7, <1>8
<1>10. r \in Seq(Chunks) /\ Len(r) = n
  <2>1. r = [i \in 1..n |-> r[i]]
    BY <1>2, <1>7, <1>8
  <2>2. r \in [1..n -> Chunks]
    BY <2>1, <1>9
  <2> QED BY <2>2, <1>3, FunctionIsSeq
<1>11. Units(r) = s
  BY <1>4, <1>5, <1>9, <1>10, SameUnits
<1>12. Continues(p, r)
  <2>1. ASSUME NEW i \in 1..n, r[i].iv # Unchained
        PROVE  /\ p.mechanism # "ecb"
               /\ r[i].iv = IF i = 1 THEN p.iv ELSE Seqs!Last(r[i - 1].units)
    <3>1. b[i].iv # Unchained /\ r[i].iv = b[i].iv
      BY <2>1, <1>9
    <3>2. i # 1 => i - 1 \in 1..n
      BY <1>3
    <3>3. i # 1 => r[i - 1].units = b[i - 1].units
      BY <3>2, <1>9
    <3> QED BY <3>1, <3>3, <1>4, <1>6 DEF Continues
  <2> QED BY <2>1, <1>10 DEF Continues
<1>13. Length(r) = Len(s) - pad
  <2> DEFINE F(i) == IF i = n THEN Len(s) - pad ELSE Times(i)
             f == [i \in 0..n |-> F(i)]
  <2>1. f \in [0..n -> Int] /\ f[0] = 0 /\ f[n] = Len(s) - pad
    <3>1. \A i \in 0..n : Times(i) \in Int
      BY <1>3, TimesNext
    <3>2. 0 \in 0..n /\ n \in 0..n /\ Len(s) - pad \in Int
      BY <1>3, TimesFacts
    <3> QED BY <3>1, <3>2, <1>3, TimesFacts
  <2>2. ASSUME NEW i \in 1..n PROVE f[i] = f[i - 1] + r[i].len
    <3>1. i - 1 \in Nat /\ (i - 1) + 1 = i /\ i - 1 \in 0..n /\ i \in 0..n /\ i - 1 # n
      BY <1>3
    <3>2. Times((i - 1) + 1) = Times(i - 1) + BlockLength /\ Times(i - 1) \in Nat
      BY <3>1, TimesNext
    <3>3. Times(i) = Times(i - 1) + BlockLength /\ Times(i - 1) \in Nat
      BY <3>1, <3>2
    <3>4. f[i - 1] = Times(i - 1)
      BY <3>1
    <3>5. CASE i = n
      <4>1. f[i] = Len(s) - pad /\ r[i].len = BlockLength - pad /\ Times(i) = Len(s)
        BY <3>1, <3>5, <1>3, <1>9
      <4> HIDE DEF f
      <4> QED BY <4>1, <3>3, <3>4, <1>3, TimesFacts
    <3>6. CASE i # n
      BY <3>1, <3>3, <3>4, <3>6, <1>9
    <3> QED BY <3>5, <3>6
  <2> HIDE DEF f
  <2>3. Length(r) = f[Len(r)]
    BY <2>1, <2>2, <1>10, LengthOfSums
  <2> QED BY <2>1, <2>3, <1>10
<1>14. crypt_output_length("decrypt", p, Len(s)) = Len(s)
  BY <1>1, <1>3, TimesFacts DEF crypt_output_length
<1> QED BY <1>3, <1>10, <1>11, <1>12, <1>13, <1>14, TimesFacts DEF ResultOK

LEMMA SingleChunkOK ==
    ASSUME NEW d, NEW p, NEW s \in Seq(Unit), NEW length \in Nat,
           length <= crypt_output_length(d, p, Len(s))
    PROVE  ResultOK(d, p, s, <<Chunk(Unchained, s, length)>>)
<1> DEFINE x == Chunk(Unchained, s, length)
<1>1. x \in Chunks /\ x.iv = Unchained /\ x.units = s /\ x.len = length
  BY DEF Chunk, Chunks
<1> HIDE DEF x
<1>2. <<x>> \in Seq(Chunks) /\ Len(<<x>>) = 1 /\ <<x>>[1] = x
  BY <1>1
<1>3. Units(<<x>>) = s /\ Length(<<x>>) = length
  BY <1>1, UnitsOne, LengthOfOne
<1>4. Continues(p, <<x>>)
  BY <1>1, <1>2 DEF Continues
<1>5. ResultOK(d, p, s, <<x>>)
  BY <1>2, <1>3, <1>4 DEF ResultOK
<1> QED BY <1>5 DEF x

(* Every transformation of the whole input.                                *)
LEMMA ResultsOK ==
    ASSUME NEW d \in Ciphers, NEW p \in Operation, p.mechanism \in Mechanisms[d],
           NEW s \in Seq(Unit), NEW r \in Results(d, p, s)
    PROVE  ResultOK(d, p, s, r)
<1>1. p.iv \in 0..MaxInput /\ Len(s) \in Nat
  BY DEF Operation
<1>2. p.mechanism \in {"ecb", "cbc", "cbc_pad", "aead", "rsa"} /\ d \in {"encrypt", "decrypt"}
  BY DEF Mechanisms, Ciphers, Ops, BlockMechanisms
<1>3. CASE p.mechanism \in {"ecb", "cbc"}
  <2>1. r \in BlockResults(p, s)
    BY <1>3 DEF Results
  <2> QED BY <2>1, <1>1, <1>3, BlockResultsOK
<1>4. CASE p.mechanism = "cbc_pad" /\ d = "encrypt"
  <2>1. r \in PadEncrypted(p, s)
    BY <1>4 DEF Results
  <2> QED BY <2>1, <1>1, <1>4, PadEncryptedOK
<1>5. CASE p.mechanism = "cbc_pad" /\ d = "decrypt"
  <2>1. r \in PadDecrypted(p, s)
    BY <1>5 DEF Results
  <2> QED BY <2>1, <1>1, <1>5, PadDecryptedOK
<1>6. CASE p.mechanism = "aead"
  <2>1. r \in AeadResults(d, s)
    BY <1>6 DEF Results
  <2>2. \E length \in Nat : /\ r = <<Chunk(Unchained, s, length)>>
                            /\ length <= crypt_output_length(d, p, Len(s))
    BY <2>1, <1>1, <1>2, <1>6, LengthsAssumption DEF AeadResults, crypt_output_length
  <2> QED BY <2>2, SingleChunkOK
<1>7. CASE p.mechanism = "rsa"
  <2>1. r \in RsaResults(d, s)
    BY <1>7 DEF Results
  <2>2. crypt_output_length(d, p, Len(s)) = KeyLength
    BY <1>7 DEF crypt_output_length
  <2>3. \E length \in 0..KeyLength : r = <<Chunk(Unchained, s, length)>>
    BY <2>1, LengthsAssumption DEF RsaResults
  <2>4. \A length \in 0..KeyLength : length \in Nat /\ length <= KeyLength
    BY LengthsAssumption
  <2> QED BY <2>2, <2>3, <2>4, SingleChunkOK
<1> QED BY <1>2, <1>3, <1>4, <1>5, <1>6, <1>7

-----------------------------------------------------------------------------
(* What the steps leave in the slot of an operation.                       *)

LEMMA BlankOK == Blank \in Trace /\ EndedOK(Blank)
<1>1. Blank \in Trace
  BY DEF Blank, Trace
<1>2. Seqs!IsPrefix(<<>>, <<>>)
  BY DEF Seqs!IsPrefix
<1>3. Chained(<<>>)
  BY DEF Chained
<1> QED BY <1>1, <1>2, <1>3, UnitsEmpty DEF Blank, EndedOK

LEMMA PrefixOfJoin ==
    ASSUME NEW u \in Seq(Unit), NEW v \in Seq(Unit)
    PROVE  Seqs!IsPrefix(u, u \o v)
<1>1. Len(u \o v) = Len(u) + Len(v) /\ Len(u) \in Nat /\ Len(v) \in Nat
  OBVIOUS
<1>2. SubSeq(u, 1, Len(u)) = SubSeq(u \o v, 1, Len(u))
  OBVIOUS
<1> QED BY <1>1, <1>2 DEF Seqs!IsPrefix

LEMMA ConcatChunks ==
    ASSUME NEW a \in Seq(Chunks), NEW b \in Seq(Chunks)
    PROVE  /\ DOMAIN a = 1..Len(a) /\ Len(a) \in Nat /\ Len(b) \in Nat
           /\ a \o b \in Seq(Chunks) /\ Len(a \o b) = Len(a) + Len(b)
           /\ DOMAIN (a \o b) = 1..(Len(a) + Len(b))
           /\ \A i \in 1..(Len(a) + Len(b)) : (a \o b)[i] = IF i <= Len(a) THEN a[i] ELSE b[i - Len(a)]
OBVIOUS

LEMMA ConcatUnits ==
    ASSUME NEW u \in Seq(Unit), NEW v \in Seq(Unit)
    PROVE  u \o v \in Seq(Unit) /\ Len(u \o v) = Len(u) + Len(v)
OBVIOUS

LEMMA ConcatHead ==
    ASSUME NEW a \in Seq(Chunks), NEW b \in Seq(Chunks)
    PROVE  /\ DOMAIN a \subseteq DOMAIN (a \o b)
           /\ \A i \in DOMAIN a : (a \o b)[i] = a[i] /\ (i # 1 => i - 1 \in DOMAIN a)
BY ConcatChunks

LEMMA ActiveIsEnded ==
    ASSUME NEW o \in Ops, NEW p \in Operation, NEW t \in Trace, ActiveOK(o, p, t)
    PROVE  SlotOK(o, p, t)
<1>1. /\ t.out \in Seq(Chunks) /\ p.result \in Seq(Chunks) /\ p.buffer \in Seq(Unit)
      /\ t.sent \in Seq(Unit) /\ t.done \in BOOLEAN
  BY DEF Operation, Trace
<1>2. t.runs <= 1 /\ ~t.done
  BY DEF ActiveOK, UsesOK
<1>3. Units(t.out) \in Seq(Unit) /\ Units(p.result) \in Seq(Unit)
  BY <1>1, UnitsType
<1>4. Seqs!IsPrefix(Units(t.out), t.sent)
  <2>1. CASE o \in Ciphers
    <3>1. t.sent = Units(t.out) \o Units(p.result) \/ t.sent = Units(t.out) \o p.buffer
      BY <2>1 DEF ActiveOK, CipherOK
    <3> QED BY <3>1, <1>1, <1>3, PrefixOfJoin
  <2>2. CASE o \notin Ciphers
    <3>1. Units(t.out) = <<>> /\ t.sent = <<>> \o t.sent /\ <<>> \in Seq(Unit)
      BY <2>2, <1>1, UnitsEmpty DEF ActiveOK, WholeOK
    <3>2. Seqs!IsPrefix(<<>>, <<>> \o t.sent)
      BY <3>1, <1>1, PrefixOfJoin
    <3> QED BY <3>1, <3>2
  <2> QED BY <2>1, <2>2
<1>5. Chained(t.out)
  <2>1. CASE o \in Ciphers /\ p.ready
    <3>1. Chained(t.out \o p.result)
      BY <2>1 DEF ActiveOK, CipherOK
    <3> DEFINE e == t.out \o p.result
    <3>2. /\ DOMAIN t.out \subseteq DOMAIN e
          /\ \A i \in DOMAIN t.out : e[i] = t.out[i] /\ (i # 1 => i - 1 \in DOMAIN t.out)
      BY <1>1, ConcatHead
    <3>3. \A i \in DOMAIN t.out : e[i] = t.out[i] /\ (i # 1 => e[i - 1] = t.out[i - 1])
      BY <3>2
    <3> HIDE DEF e
    <3>4. Chained(e)
      BY <3>1 DEF e
    <3> QED BY <3>2, <3>3, <3>4 DEF Chained
  <2>2. CASE o \in Ciphers /\ ~p.ready
    BY <2>2 DEF ActiveOK, CipherOK
  <2>3. CASE o \notin Ciphers
    BY <2>3 DEF ActiveOK, WholeOK, Chained
  <2> QED BY <2>1, <2>2, <2>3
<1> QED BY <1>2, <1>4, <1>5 DEF SlotOK, EndedOK

LEMMA NewOperationOK ==
    ASSUME NEW o \in Ops, NEW m \in Mechanisms[o], NEW private \in BOOLEAN,
           o = "digest" => ~private
    PROVE  NewOperation(m, private) \in Operation /\ SlotOK(o, NewOperation(m, private), Blank)
<1> DEFINE p == NewOperation(m, private)
<1>1. m \in UNION {Mechanisms[x] : x \in Ops}
  OBVIOUS
<1>2. p \in Operation
  BY <1>1, LengthsAssumption DEF NewOperation, Operation
<1>3. /\ p.mechanism = m /\ p.private = private /\ p.ready = FALSE /\ p.authorized = FALSE
      /\ p.buffer = <<>> /\ p.iv = 0
  BY DEF NewOperation
<1>4. Blank.out = <<>> /\ Blank.sent = <<>> /\ Blank.runs = 0 /\ Blank.done = FALSE
  BY DEF Blank
<1> HIDE DEF p
<1>5. UsesOK(o, p, Blank)
  BY <1>3, <1>4 DEF UsesOK
<1>6. CipherOK(p, Blank)
  <2>1. Units(<<>>) \o <<>> = <<>>
    BY UnitsEmpty
  <2>2. Chained(<<>>) /\ Left(<<>>) = 0
    BY DEF Chained, Left
  <2> QED BY <1>3, <1>4, <2>1, <2>2 DEF CipherOK
<1>7. WholeOK(p, Blank)
  BY <1>3, <1>4 DEF WholeOK
<1>8. ActiveOK(o, p, Blank)
  BY <1>4, <1>5, <1>6, <1>7 DEF ActiveOK
<1> QED BY <1>2, <1>8, BlankOK, ActiveIsEnded DEF p

(* A step that changes one slot.                                           *)
LEMMA OneSlot ==
    ASSUME CryptInv, NEW o \in Ops, NEW p \in Operation \cup {NoOp}, NEW t \in Trace,
           SlotOK(o, p, t),
           op' = [op EXCEPT ![o] = p], trace' = [trace EXCEPT ![o] = t],
           slotRole' \in BOOLEAN, backendLogin' \in BOOLEAN
    PROVE  CryptInv'
<1>1. /\ op' \in [Ops -> Operation \cup {NoOp}]
      /\ trace' \in [Ops -> Trace]
      /\ \A x \in Ops : /\ op'[x] = IF x = o THEN p ELSE op[x]
                        /\ trace'[x] = IF x = o THEN t ELSE trace[x]
  BY DEF CryptInv, CryptTypeOK
<1>2. \A x \in Ops : SlotOK(x, op'[x], trace'[x])
  BY <1>1 DEF CryptInv
<1> QED BY <1>1, <1>2 DEF CryptInv, CryptTypeOK, SlotOK, EndedOK, ActiveOK, UsesOK, CipherOK, WholeOK

LEMMA ConcatThree ==
    \A s \in Seq(Unit), u \in Seq(Unit), v \in Seq(Unit) : (s \o u) \o v = s \o (u \o v)
BY ConcatAssociative

LEMMA Open ==
    ASSUME CryptInv, NEW o \in Ops, op[o] # NoOp
    PROVE  /\ op[o] \in Operation /\ trace[o] \in Trace
           /\ ActiveOK(o, op[o], trace[o]) /\ EndedOK(trace[o])
BY DEF CryptInv, CryptTypeOK, SlotOK

LEMMA UnchangedOK ==
    ASSUME CryptInv, UNCHANGED cryptVars
    PROVE  CryptInv'
BY ZenonT(30) DEF CryptInv, cryptVars, CryptTypeOK, SlotOK, EndedOK, ActiveOK, UsesOK, CipherOK, WholeOK

LEMMA TakeOK ==
    ASSUME CryptInv, NEW o \in Ops, take(o)
    PROVE  CryptInv'
<1>1. SlotOK(o, NoOp, Blank)
  BY BlankOK DEF SlotOK
<1>2. slotRole' \in BOOLEAN /\ backendLogin' \in BOOLEAN
  BY DEF take, CryptInv, CryptTypeOK
<1> QED BY <1>1, <1>2, BlankOK, OneSlot DEF take

LEMMA ClearOK ==
    ASSUME slotRole' \in BOOLEAN, backendLogin' \in BOOLEAN,
           op' = [o \in Ops |-> NoOp], trace' = [o \in Ops |-> Blank]
    PROVE  CryptInv'
<1>1. \A o \in Ops : op'[o] = NoOp /\ trace'[o] = Blank
  OBVIOUS
<1>2. CryptTypeOK'
  BY BlankOK DEF CryptTypeOK
<1>3. \A o \in Ops : SlotOK(o, op'[o], trace'[o])
  BY <1>1, BlankOK DEF SlotOK
<1> QED BY <1>2, <1>3 DEF CryptInv, SlotOK, EndedOK, ActiveOK, UsesOK, CipherOK, WholeOK

LEMMA RefuseOK ==
    ASSUME CryptInv, NEW o \in Ops, refuse(o)
    PROVE  CryptInv'
<1>1. CASE slotRole /\ ~backendLogin
  <2>1. clear_login_state /\ UNCHANGED backendLogin
    BY <1>1 DEF refuse
  <2> QED BY <2>1, ClearOK DEF clear_login_state, CryptInv, CryptTypeOK
<1>2. CASE ~(slotRole /\ ~backendLogin)
  BY <1>2, TakeOK DEF refuse
<1> QED BY <1>1, <1>2

LEMMA PartOK ==
    ASSUME CryptInv, NEW o \in Ops, NEW n \in Nat, n = 0 \/ Sendable(o, n)
    PROVE  Part(o, n) \in Seq(Unit) /\ Len(Part(o, n)) = n
<1>1. trace[o].sent \in Seq(Unit)
  BY DEF CryptInv, CryptTypeOK, Trace
<1>2. Len(trace[o].sent) \in Nat /\ (n = 0 \/ Len(trace[o].sent) + n <= MaxInput)
  BY <1>1 DEF Sendable
<1>3. Part(o, n) \in [1..n -> Unit]
  BY <1>2, LengthsAssumption DEF Part, Unit
<1> QED BY <1>3, FunctionIsSeq

LEMMA AbsorbOK ==
    ASSUME CryptInv, NEW o \in Ops, op[o] # NoOp, NEW part \in Seq(Unit),
           o \in Ciphers => ~op[o].ready, absorb(o, part)
    PROVE  CryptInv'
<1> DEFINE p == op[o]
           t == trace[o]
           q == [p EXCEPT !.buffer = @ \o part, !.multipart = TRUE]
           u == [t EXCEPT !.sent = @ \o part]
<1>1. p \in Operation /\ t \in Trace /\ ActiveOK(o, p, t)
  BY Open
<1>2. /\ p.buffer \in Seq(Unit) /\ t.sent \in Seq(Unit) /\ t.out \in Seq(Chunks)
      /\ p.result \in Seq(Chunks) /\ p.ready \in BOOLEAN
  BY <1>1 DEF Operation, Trace
<1>3. p.buffer \o part \in Seq(Unit) /\ t.sent \o part \in Seq(Unit)
  BY <1>2
<1>4. op' = [op EXCEPT ![o] = q] /\ trace' = [trace EXCEPT ![o] = u]
  BY DEF absorb, CryptInv, CryptTypeOK
<1>5. slotRole' \in BOOLEAN /\ backendLogin' \in BOOLEAN
  BY DEF absorb, CryptInv, CryptTypeOK
<1>6. q \in Operation /\ u \in Trace
  BY <1>1, <1>3 DEF Operation, Trace
<1>7. /\ q.buffer = p.buffer \o part /\ q.mechanism = p.mechanism /\ q.private = p.private
      /\ q.iv = p.iv /\ q.ready = p.ready /\ q.authorized = p.authorized /\ q.result = p.result
  BY <1>1 DEF Operation
<1>8. /\ u.sent = t.sent \o part /\ u.out = t.out /\ u.runs = t.runs
      /\ u.granted = t.granted /\ u.done = t.done
  BY <1>1 DEF Trace
<1> HIDE DEF p, t, q, u
<1>9. UsesOK(o, q, u)
  BY <1>1, <1>7, <1>8 DEF ActiveOK, UsesOK
<1>10. ASSUME o \in Ciphers PROVE CipherOK(q, u)
  <2>1. ~p.ready
    BY <1>10 DEF p
  <2>2. Units(t.out) \o p.buffer = t.sent /\ Chained(t.out) /\ (p.mechanism # "ecb" => p.iv = Left(t.out))
    BY <1>1, <1>10, <2>1 DEF ActiveOK, CipherOK
  <2>3. Units(t.out) \o (p.buffer \o part) = t.sent \o part
    <3>1. Units(t.out) \in Seq(Unit)
      BY <1>2, UnitsType
    <3>2. (Units(t.out) \o p.buffer) \o part = Units(t.out) \o (p.buffer \o part)
      BY <3>1, <1>2, ConcatThree, Zenon
    <3> QED BY <2>2, <3>2
  <2> QED BY <2>1, <2>2, <2>3, <1>7, <1>8 DEF CipherOK
<1>11. ASSUME o \notin Ciphers PROVE WholeOK(q, u)
  <2>1. WholeOK(p, t)
    BY <1>1, <1>11 DEF ActiveOK
  <2>2. q.buffer = u.sent /\ u.out = <<>>
    BY <2>1, <1>7, <1>8 DEF WholeOK
  <2>3. ASSUME p.ready, NEW data \in Seq(Unit), Len(data) <= Len(p.buffer),
               SubSeq(p.buffer, 1, Len(data)) = data
        PROVE  Len(data) <= Len(q.buffer) /\ SubSeq(q.buffer, 1, Len(data)) = data
    <3>1. /\ Len(q.buffer) = Len(p.buffer) + Len(part) /\ Len(part) \in Nat /\ Len(p.buffer) \in Nat
          /\ Len(data) \in Nat
      BY <1>2, <1>7
    <3>2. SubSeq(p.buffer \o part, 1, Len(data)) = SubSeq(p.buffer, 1, Len(data))
      BY <1>2, <2>3
    <3> QED BY <3>1, <3>2, <2>3, <1>7
  <2> QED BY <2>1, <2>2, <2>3, <1>7 DEF WholeOK
<1>12. ActiveOK(o, q, u)
  BY <1>1, <1>8, <1>9, <1>10, <1>11 DEF ActiveOK
<1> QED BY <1>4, <1>5, <1>6, <1>12, ActiveIsEnded, OneSlot

LEMMA DeliverOK ==
    ASSUME CryptInv, NEW o \in Ops, op[o] # NoOp, NEW message \in Seq(Unit),
           NEW chunks \in Seq(Chunks), NEW ran \in {0, 1}, op[o].ready => ran = 0,
           Units(trace[o].out \o chunks) = message, Chained(trace[o].out \o chunks),
           deliver(o, message, chunks, ran)
    PROVE  CryptInv'
<1> DEFINE p == op[o]
           t == trace[o]
           u == [t EXCEPT !.sent = message, !.out = @ \o chunks, !.runs = @ + ran, !.done = TRUE]
<1>1. p \in Operation /\ t \in Trace /\ ActiveOK(o, p, t)
  BY Open
<1>2. t.out \in Seq(Chunks) /\ t.runs \in Nat /\ p.ready \in BOOLEAN
  BY <1>1 DEF Trace, Operation
<1>3. t.runs + ran <= 1 /\ t.runs + ran \in Nat
  BY <1>1, <1>2 DEF ActiveOK, UsesOK
<1>4. t.out \o chunks \in Seq(Chunks)
  BY <1>2
<1>5. op' = [op EXCEPT ![o] = NoOp] /\ trace' = [trace EXCEPT ![o] = u]
  BY DEF deliver, CryptInv, CryptTypeOK
<1>6. slotRole' \in BOOLEAN /\ backendLogin' \in BOOLEAN
  BY DEF deliver, CryptInv, CryptTypeOK
<1>7. u \in Trace
  BY <1>1, <1>3, <1>4 DEF Trace
<1>8. u.sent = message /\ u.out = t.out \o chunks /\ u.runs = t.runs + ran /\ u.done = TRUE
  BY <1>1 DEF Trace
<1> HIDE DEF u
<1>9. Seqs!IsPrefix(message, message)
  <2>1. message \o <<>> = message /\ <<>> \in Seq(Unit)
    OBVIOUS
  <2>2. Seqs!IsPrefix(message, message \o <<>>)
    BY <2>1, PrefixOfJoin
  <2> QED BY <2>1, <2>2
<1>10. EndedOK(u)
  BY <1>3, <1>8, <1>9 DEF EndedOK
<1>11. SlotOK(o, NoOp, u)
  BY <1>10 DEF SlotOK
<1> QED BY <1>5, <1>6, <1>7, <1>11, OneSlot

LEMMA KeepCipherOK ==
    ASSUME CryptInv, NEW d \in Ciphers, op[d] # NoOp, ~op[d].ready, NEW message \in Seq(Unit),
           NEW r \in Seq(Chunks), Units(trace[d].out) \o Units(r) = message,
           Chained(trace[d].out \o r), keep(d, message, <<>>, r, 1),
           op[d].mechanism \notin FidoMechanisms
    PROVE  CryptInv'
<1> DEFINE p == op[d]
           t == trace[d]
           q == [p EXCEPT !.buffer = <<>>, !.ready = TRUE, !.result = r, !.authorized = @ /\ 1 = 0]
           u == [t EXCEPT !.sent = message, !.runs = @ + 1]
<1>0. d \in Ops
  BY DEF Ops
<1>1. p \in Operation /\ t \in Trace /\ ActiveOK(d, p, t)
  BY <1>0, Open
<1>2. t.runs = 0 /\ p.authorized \in BOOLEAN
  BY <1>1 DEF ActiveOK, UsesOK, Operation
<1>3. op' = [op EXCEPT ![d] = q] /\ trace' = [trace EXCEPT ![d] = u]
  BY <1>0 DEF keep, CryptInv, CryptTypeOK
<1>4. slotRole' \in BOOLEAN /\ backendLogin' \in BOOLEAN
  BY DEF keep, CryptInv, CryptTypeOK
<1>5. q \in Operation /\ u \in Trace
  <2>1. <<>> \in Seq(Unit) /\ (p.authorized /\ 1 = 0) \in BOOLEAN
    OBVIOUS
  <2>2. q \in Operation
    BY <1>1, <2>1 DEF Operation
  <2>3. t.runs + 1 \in Nat
    BY <1>2
  <2>4. u \in Trace
    BY <1>1, <2>3 DEF Trace
  <2> QED BY <2>2, <2>4
<1>6. /\ q.mechanism = p.mechanism /\ q.private = p.private /\ q.ready = TRUE /\ q.result = r
  BY <1>1 DEF Operation
<1>7. u.sent = message /\ u.out = t.out /\ u.runs = 1 /\ u.done = t.done
  BY <1>1, <1>2 DEF Trace
<1> HIDE DEF q, u
<1>8. UsesOK(d, q, u)
  BY <1>1, <1>6, <1>7 DEF ActiveOK, UsesOK
<1>9. CipherOK(q, u)
  BY <1>6, <1>7 DEF CipherOK
<1>10. ActiveOK(d, q, u)
  BY <1>1, <1>7, <1>8, <1>9 DEF ActiveOK
<1> QED BY <1>0, <1>3, <1>4, <1>5, <1>10, ActiveIsEnded, OneSlot

(* A result for what is buffered and what the call sends continues what    *)
(* has gone out, and completes the message.                                *)
LEMMA WholeResult ==
    ASSUME CryptInv, NEW d \in Ciphers, op[d] # NoOp, ~op[d].ready, NEW part \in Seq(Unit),
           NEW r \in Results(d, op[d], op[d].buffer \o part)
    PROVE  /\ r \in Seq(Chunks)
           /\ trace[d].sent \o part \in Seq(Unit)
           /\ Units(trace[d].out) \o Units(r) = trace[d].sent \o part
           /\ Units(trace[d].out \o r) = trace[d].sent \o part
           /\ Chained(trace[d].out \o r)
<1> DEFINE p == op[d]
           t == trace[d]
<1>0. d \in Ops
  BY DEF Ops
<1>1. p \in Operation /\ t \in Trace /\ ActiveOK(d, p, t)
  BY <1>0, Open
<1>2. /\ p.buffer \in Seq(Unit) /\ t.sent \in Seq(Unit) /\ t.out \in Seq(Chunks)
      /\ Units(t.out) \in Seq(Unit)
  BY <1>1, UnitsType DEF Operation, Trace
<1>3. /\ Units(t.out) \o p.buffer = t.sent /\ Chained(t.out)
      /\ (p.mechanism # "ecb" => p.iv = Left(t.out)) /\ p.mechanism \in Mechanisms[d]
  BY <1>1 DEF ActiveOK, CipherOK, UsesOK
<1>4. p.buffer \o part \in Seq(Unit) /\ t.sent \o part \in Seq(Unit)
  BY <1>2
<1>5. ResultOK(d, p, p.buffer \o part, r)
  BY <1>1, <1>3, <1>4, ResultsOK
<1>6. r \in Seq(Chunks) /\ Units(r) = p.buffer \o part /\ Continues(p, r)
  BY <1>5 DEF ResultOK
<1>7. Units(t.out) \o (p.buffer \o part) = t.sent \o part
  <2>1. (Units(t.out) \o p.buffer) \o part = Units(t.out) \o (p.buffer \o part)
    BY <1>2, ConcatThree, Zenon
  <2> QED BY <2>1, <1>3
<1>8. Units(t.out) \o Units(r) = t.sent \o part
  BY <1>6, <1>7
<1>9. Units(t.out \o r) = Units(t.out) \o Units(r)
  BY <1>2, <1>6, UnitsConcat
<1>10. Chained(t.out \o r)
  BY <1>2, <1>3, <1>6, ChainContinues
<1> QED BY <1>4, <1>6, <1>8, <1>9, <1>10

LEMMA CryptOK ==
    ASSUME CryptInv, NEW d \in Ciphers, NEW n \in Nat, NEW finalizing, NEW capacity,
           crypt(d, n, finalizing, capacity)
    PROVE  CryptInv'
<1> DEFINE p == op[d]
           t == trace[d]
           message == t.sent \o Part(d, n)
           input == p.buffer \o Part(d, n)
<1>0. d \in Ops
  BY DEF Ops
<1>1. op[d] # NoOp /\ Sendable(d, n)
  BY DEF crypt
<1>2. p \in Operation /\ t \in Trace /\ ActiveOK(d, p, t) /\ p.mechanism \notin FidoMechanisms
  <2>1. p \in Operation /\ t \in Trace /\ ActiveOK(d, p, t)
    BY <1>0, <1>1, Open
  <2>2. p.mechanism \in Mechanisms[d]
    BY <2>1 DEF ActiveOK, UsesOK
  <2>3. p.mechanism \in {"ecb", "cbc", "cbc_pad", "aead", "rsa"}
    BY <2>2 DEF Mechanisms, Ciphers, Ops, BlockMechanisms
  <2> QED BY <2>1, <2>3 DEF FidoMechanisms
<1>3. Part(d, n) \in Seq(Unit)
  BY <1>0, <1>1, PartOK
<1>4. \/ take(d) \/ refuse(d) \/ UNCHANGED cryptVars
      \/ p.ready /\ deliver(d, t.sent, p.result, 0)
      \/ /\ ~p.ready
         /\ \E r \in Results(d, p, input) :
                keep(d, message, <<>>, r, 1) \/ deliver(d, message, r, 1)
  BY DEF crypt
<1>5. CASE p.ready /\ deliver(d, t.sent, p.result, 0)
  <2>1. /\ p.result \in Seq(Chunks) /\ t.sent \in Seq(Unit) /\ t.out \in Seq(Chunks)
    BY <1>2 DEF Operation, Trace
  <2>2. Units(t.out) \o Units(p.result) = t.sent /\ Chained(t.out \o p.result)
    BY <1>2, <1>5 DEF ActiveOK, CipherOK
  <2>3. Units(t.out \o p.result) = t.sent
    BY <2>1, <2>2, UnitsConcat
  <2> QED BY <1>0, <1>1, <1>5, <2>1, <2>2, <2>3, DeliverOK
<1>6. ASSUME ~p.ready, NEW r \in Results(d, p, input),
             keep(d, message, <<>>, r, 1) \/ deliver(d, message, r, 1)
      PROVE  CryptInv'
  <2>1. /\ r \in Seq(Chunks) /\ message \in Seq(Unit)
        /\ Units(t.out) \o Units(r) = message
        /\ Units(t.out \o r) = message /\ Chained(t.out \o r)
    BY <1>1, <1>3, <1>6, WholeResult
  <2> HIDE DEF message
  <2>2. CASE keep(d, message, <<>>, r, 1)
    BY <2>1, <2>2, <1>1, <1>2, <1>6, KeepCipherOK
  <2>3. CASE deliver(d, message, r, 1)
    BY <2>1, <2>3, <1>0, <1>1, <1>6, DeliverOK
  <2> QED BY <2>2, <2>3, <1>6 DEF message
<1> QED BY <1>0, <1>4, <1>5, <1>6, TakeOK, RefuseOK, UnchangedOK

(* The units that an update gives out are whole blocks of what there is.   *)
LEMMA ProducedOK ==
    ASSUME NEW d, NEW p \in Operation, NEW n \in Nat
    PROVE  \E k \in Nat : /\ produced(d, p, n) = Times(k)
                          /\ Times(k) \in Nat /\ Times(k) <= Len(p.buffer) + n
<1> DEFINE m == Len(p.buffer) + n
           w == m \div BlockLength
           g == retained(d, p)
<1>1. m \in Nat /\ g \in {0, 1}
  BY DEF Operation, retained
<1>2. w \in Nat /\ Times(w) <= m
  BY <1>1, WholeFacts
<1>3. produced(d, p, n) = IF w <= g THEN 0 ELSE Times(w - g)
  BY DEF produced, Times
<1> HIDE DEF m, w, g
<1>4. CASE w <= g
  BY <1>1, <1>3, <1>4, TimesFacts DEF m
<1>5. CASE w > g
  <2>1. w - g \in Nat /\ w - g <= w
    BY <1>1, <1>2, <1>5
  <2>2. Times(w - g) \in Nat /\ Times(w - g) <= Times(w) /\ Times(w) \in Nat
    BY <2>1, <1>2, TimesGrow
  <2>3. Times(w - g) <= m
    BY <2>2, <1>1, <1>2
  <2>4. produced(d, p, n) = Times(w - g)
    BY <1>1, <1>2, <1>3, <1>5
  <2> QED BY <2>1, <2>2, <2>3, <2>4 DEF m
<1> QED BY <1>1, <1>2, <1>4, <1>5

LEMMA TimesDiv ==
    ASSUME NEW k \in Nat
    PROVE  Times(k) \div BlockLength = k
<1>1. Times(k) \in Nat
  BY TimesNext
<1> DEFINE x == Times(k)
           w == x \div BlockLength
<1>2. w \in Nat /\ Times(w) <= x /\ x < Times(w) + BlockLength
  BY <1>1, WholeFacts
<1>3. Times(w + 1) = Times(w) + BlockLength /\ Times(w) \in Nat
  BY <1>2, TimesNext
<1>4. CASE w < k
  <2>1. w + 1 \in Nat /\ w + 1 <= k
    BY <1>2, <1>4
  <2>2. Times(w + 1) <= Times(k)
    BY <2>1, TimesGrow
  <2> HIDE DEF w
  <2> QED BY <2>2, <1>1, <1>2, <1>3, TimesFacts
<1>5. CASE w > k
  <2>1. k + 1 \in Nat /\ k + 1 <= w
    BY <1>2, <1>5
  <2>2. Times(k + 1) <= Times(w) /\ Times(k + 1) = Times(k) + BlockLength
    BY <2>1, <1>2, TimesGrow, TimesNext
  <2> HIDE DEF w
  <2> QED BY <2>2, <1>1, <1>2, <1>3, TimesFacts
<1> QED BY <1>2, <1>4, <1>5

(* What an update leaves: the blocks and the rest make up the input, and   *)
(* the chaining value is the last unit of what has gone out.               *)
GoneOut(p, out, all, x) ==
    LET blocks == SubSeq(all, 1, x)
        rest == SubSeq(all, x + 1, Len(all))
        iv == IF x = 0 \/ ~chained(p) THEN p.iv ELSE blocks[x]
    IN  /\ Blocks(p, blocks) \in Seq(Chunks) /\ rest \in Seq(Unit)
        /\ Units(Blocks(p, blocks)) \o rest = all
        /\ Chained(out \o Blocks(p, blocks))
        /\ iv \in 0..MaxInput
        /\ p.mechanism # "ecb" => iv = Left(out \o Blocks(p, blocks))

LEMMA BlocksGoOut ==
    ASSUME NEW p, p.iv \in 0..MaxInput, NEW out \in Seq(Chunks), Chained(out),
           p.mechanism # "ecb" => p.iv = Left(out),
           NEW all \in Seq(Unit), NEW k \in Nat, Times(k) <= Len(all)
    PROVE  GoneOut(p, out, all, Times(k))
<1> DEFINE x == Times(k)
           blocks == SubSeq(all, 1, x)
           rest == SubSeq(all, x + 1, Len(all))
           iv == IF x = 0 \/ ~chained(p) THEN p.iv ELSE blocks[x]
           b == Blocks(p, blocks)
<1>1. x \in Nat /\ x <= Len(all) /\ Len(all) \in Nat
  BY TimesNext
<1> HIDE DEF x
<1>2. blocks \in Seq(Unit) /\ Len(blocks) = x /\ rest \in Seq(Unit) /\ blocks \o rest = all
  <2>1. blocks \in Seq(Unit) /\ Len(blocks) = x
    BY <1>1, SubSeqProperties
  <2>2. rest \in Seq(Unit)
    BY <1>1, SubSeqProperties
  <2>3. blocks \o rest = all
    <3>1. 1 \in 1..(Len(all) + 1) /\ x \in (1 - 1)..Len(all) /\ Len(all) \in x..Len(all)
      BY <1>1
    <3>2. blocks \o rest = SubSeq(all, 1, Len(all))
      BY <3>1, ConcatAdjacentSubSeq
    <3> QED BY <3>2, SubSeqFull
  <2> QED BY <2>1, <2>2, <2>3
<1>3. Len(blocks) \div BlockLength = k
  BY <1>2, TimesDiv DEF x
<1> HIDE DEF blocks, rest
<1>4. b \in Seq(Chunks) /\ Len(b) = k
  BY <1>2, <1>3, BlocksFacts
<1>5. Units(b) = blocks
  BY <1>2, <1>3, UnitsOfBlocks, SubSeqFull DEF x
<1>6. Continues(p, b)
  BY <1>2, BlocksContinue
<1>7. \A i \in 1..k : Seqs!Last(b[i].units) = blocks[Times(i)] /\ Times(i) \in 1..Len(blocks)
  BY <1>2, <1>3, LastOfBlock
<1> HIDE DEF b
<1>8. Chained(out \o b)
  BY <1>4, <1>6, ChainContinues
<1>9. ASSUME x # 0 PROVE k \in 1..k /\ Seqs!Last(b[k].units) = blocks[x] /\ blocks[x] \in Unit
  <2>1. k # 0
    BY <1>9, TimesFacts DEF x
  <2>2. k \in 1..k
    BY <2>1
  <2>3. Seqs!Last(b[k].units) = blocks[x] /\ x \in 1..Len(blocks)
    BY <2>2, <1>7 DEF x
  <2> QED BY <2>2, <2>3, <1>2
<1>10. iv \in 0..MaxInput
  <2>1. Unit \subseteq 0..MaxInput
    BY LengthsAssumption DEF Unit
  <2> QED BY <2>1, <1>9
<1>11. ASSUME p.mechanism # "ecb" PROVE iv = Left(out \o b)
  <2>1. CASE x = 0
    <3>1. k = 0
      BY <2>1, TimesFacts DEF x, Times
    <3>2. b = <<>>
      BY <3>1, <1>4
    <3>3. out \o b = out
      BY <3>2
    <3> QED BY <2>1, <3>3, <1>11
  <2>2. CASE x # 0
    <3>1. k \in 1..k /\ Seqs!Last(b[k].units) = blocks[x]
      BY <2>2, <1>9
    <3> DEFINE e == out \o b
    <3>2. Len(e) = Len(out) + k /\ Len(out) \in Nat /\ e[Len(out) + k] = b[k]
      <4>1. /\ Len(out) \in Nat /\ Len(e) = Len(out) + Len(b)
            /\ \A i \in 1..(Len(out) + Len(b)) : e[i] = IF i <= Len(out) THEN out[i] ELSE b[i - Len(out)]
        BY <1>4, ConcatChunks
      <4>2. /\ Len(out) + k \in 1..(Len(out) + k) /\ ~(Len(out) + k <= Len(out))
            /\ (Len(out) + k) - Len(out) = k
        BY <4>1, <3>1
      <4> HIDE DEF e
      <4> QED BY <4>1, <4>2, <1>4
    <3>3. e # <<>>
      BY <3>2, <3>1, <1>4
    <3> HIDE DEF e
    <3>4. Left(e) = blocks[x]
      BY <3>1, <3>2, <3>3 DEF Left
    <3> QED BY <2>2, <3>4, <1>11 DEF chained, e
  <2> QED BY <2>1, <2>2
<1> QED BY <1>2, <1>4, <1>5, <1>8, <1>10, <1>11 DEF b, blocks, rest, x, GoneOut

LEMMA UpdateBlocksOK ==
    ASSUME CryptInv, NEW d \in Ciphers, op[d] # NoOp, ~op[d].ready, NEW n \in Nat, Sendable(d, n),
           crypt_update_blocks(d, n)
    PROVE  CryptInv'
<1> DEFINE p == op[d]
           t == trace[d]
           part == Part(d, n)
           all == p.buffer \o part
<1>0. d \in Ops
  BY DEF Ops
<1>1. p \in Operation /\ t \in Trace /\ ActiveOK(d, p, t)
  BY <1>0, Open
<1>2. /\ p.buffer \in Seq(Unit) /\ t.sent \in Seq(Unit) /\ t.out \in Seq(Chunks)
      /\ Units(t.out) \in Seq(Unit) /\ p.iv \in 0..MaxInput
  BY <1>1, UnitsType DEF Operation, Trace
<1>3. /\ Units(t.out) \o p.buffer = t.sent /\ Chained(t.out)
      /\ (p.mechanism # "ecb" => p.iv = Left(t.out))
  BY <1>1 DEF ActiveOK, CipherOK
<1>4. part \in Seq(Unit) /\ Len(part) = n
  BY <1>0, PartOK
<1>5. all \in Seq(Unit) /\ Len(all) = Len(p.buffer) + n
  <2> HIDE DEF part, p
  <2> QED BY <1>2, <1>4, ConcatUnits
<1>6. PICK k \in Nat : produced(d, p, n) = Times(k) /\ Times(k) \in Nat /\ Times(k) <= Len(all)
  BY <1>1, <1>5, ProducedOK
<1> DEFINE x == Times(k)
           blocks == SubSeq(all, 1, x)
           rest == SubSeq(all, x + 1, Len(all))
           iv == IF x = 0 \/ ~chained(p) THEN p.iv ELSE blocks[x]
           b == Blocks(p, blocks)
           q == [p EXCEPT !.buffer = rest, !.iv = iv, !.multipart = TRUE]
           u == [t EXCEPT !.sent = @ \o part, !.out = @ \o b]
<1>7. op' = [op EXCEPT ![d] = q] /\ trace' = [trace EXCEPT ![d] = u]
  BY <1>0, <1>6 DEF crypt_update_blocks, CryptInv, CryptTypeOK
<1>8. slotRole' \in BOOLEAN /\ backendLogin' \in BOOLEAN
  BY DEF crypt_update_blocks, CryptInv, CryptTypeOK
<1> HIDE DEF part, all
<1>9. /\ b \in Seq(Chunks) /\ rest \in Seq(Unit) /\ Units(b) \o rest = all
      /\ Chained(t.out \o b) /\ iv \in 0..MaxInput
      /\ (p.mechanism # "ecb" => iv = Left(t.out \o b))
  <2>1. GoneOut(p, t.out, all, Times(k))
    BY <1>2, <1>3, <1>5, <1>6, BlocksGoOut
  <2> QED BY <2>1 DEF GoneOut
<1> HIDE DEF x, blocks, rest, iv, b
<1>10. /\ t.out \o b \in Seq(Chunks) /\ t.sent \o part \in Seq(Unit) /\ Units(b) \in Seq(Unit)
       /\ Units(t.out \o b) = Units(t.out) \o Units(b)
  <2>1. t.sent \o part \in Seq(Unit)
    BY <1>2, <1>4, ConcatUnits
  <2> QED BY <2>1, <1>2, <1>9, ConcatChunks, UnitsType, UnitsConcat
<1>11. q \in Operation /\ u \in Trace
  BY <1>1, <1>9, <1>10 DEF Operation, Trace
<1>12. /\ q.buffer = rest /\ q.iv = iv /\ q.mechanism = p.mechanism /\ q.private = p.private
       /\ q.ready = p.ready /\ q.authorized = p.authorized
  BY <1>1 DEF Operation
<1>13. /\ u.sent = t.sent \o part /\ u.out = t.out \o b /\ u.runs = t.runs
       /\ u.granted = t.granted /\ u.done = t.done
  BY <1>1 DEF Trace
<1> HIDE DEF q, u
<1>14. UsesOK(d, q, u)
  BY <1>1, <1>12, <1>13 DEF ActiveOK, UsesOK
<1>15. Units(t.out \o b) \o rest = t.sent \o part
  <2>1. (Units(t.out) \o Units(b)) \o rest = Units(t.out) \o (Units(b) \o rest)
    BY <1>2, <1>9, <1>10, ConcatThree, Zenon
  <2>2. Units(t.out) \o (Units(b) \o rest) = Units(t.out) \o (p.buffer \o part)
    BY <1>9 DEF all
  <2>3. Units(t.out) \o (p.buffer \o part) = (Units(t.out) \o p.buffer) \o part
    BY <1>2, <1>4, ConcatThree, Zenon
  <2> QED BY <2>1, <2>2, <2>3, <1>3, <1>10
<1>16. CipherOK(q, u)
  BY <1>9, <1>12, <1>13, <1>15 DEF CipherOK, p
<1>17. ActiveOK(d, q, u)
  BY <1>1, <1>13, <1>14, <1>16 DEF ActiveOK
<1> QED BY <1>0, <1>7, <1>8, <1>11, <1>17, ActiveIsEnded, OneSlot

LEMMA CryptUpdateOK ==
    ASSUME CryptInv, NEW d \in Ciphers, NEW n \in Nat, NEW capacity, crypt_update(d, n, capacity)
    PROVE  CryptInv'
<1>0. d \in Ops
  BY DEF Ops
<1>1. op[d] # NoOp /\ Sendable(d, n)
  BY DEF crypt_update
<1>2. \/ take(d) \/ refuse(d) \/ UNCHANGED cryptVars
      \/ ~op[d].ready /\ crypt_update_blocks(d, n)
      \/ ~op[d].ready /\ absorb(d, Part(d, n))
  BY DEF crypt_update
<1>3. Part(d, n) \in Seq(Unit)
  BY <1>0, <1>1, PartOK
<1> QED BY <1>0, <1>1, <1>2, <1>3, TakeOK, RefuseOK, UnchangedOK, UpdateBlocksOK, AbsorbOK

-----------------------------------------------------------------------------
(* Digests, signatures and verifications.                                  *)

(* One chunk for the whole message, where nothing has gone out before.     *)
LEMMA DeliverWholeOK ==
    ASSUME CryptInv, NEW o \in Ops, o \notin Ciphers, op[o] # NoOp, ~op[o].ready,
           NEW message \in Seq(Unit), NEW length \in Nat, NEW ran \in {0, 1},
           deliver(o, message, <<Chunk(Unchained, message, length)>>, ran)
    PROVE  CryptInv'
<1> DEFINE x == Chunk(Unchained, message, length)
<1>1. x \in Chunks /\ x.units = message /\ x.iv = Unchained
  BY DEF Chunk, Chunks
<1> HIDE DEF x
<1>2. trace[o].out = <<>>
  <2>1. ActiveOK(o, op[o], trace[o])
    BY Open
  <2> QED BY <2>1 DEF ActiveOK, WholeOK
<1>3. <<x>> \in Seq(Chunks) /\ trace[o].out \o <<x>> = <<x>> /\ DOMAIN <<x>> = {1} /\ <<x>>[1] = x
  BY <1>1, <1>2
<1>4. Units(<<x>>) = message
  BY <1>1, UnitsOne
<1>5. Chained(<<x>>)
  BY <1>1, <1>3 DEF Chained
<1>6. deliver(o, message, <<x>>, ran)
  BY DEF x
<1> QED BY <1>3, <1>4, <1>5, <1>6, DeliverOK

(* The buffer of an operation that gives out nothing before its end is     *)
(* what it was sent.                                                       *)
LEMMA WholeBuffer ==
    ASSUME CryptInv, NEW o \in Ops, o \notin Ciphers, op[o] # NoOp
    PROVE  op[o].buffer = trace[o].sent /\ trace[o].sent \in Seq(Unit)
<1>1. ActiveOK(o, op[o], trace[o]) /\ trace[o] \in Trace
  BY Open
<1> QED BY <1>1 DEF ActiveOK, WholeOK, Trace

LEMMA CopyDigestOK ==
    ASSUME CryptInv, op["digest"] # NoOp, NEW n \in Nat, NEW capacity,
           n = 0 \/ Sendable("digest", n), copy_digest(n, capacity)
    PROVE  CryptInv'
<1>1. "digest" \in Ops /\ "digest" \notin Ciphers
  BY DEF Ops, Ciphers
<1> DEFINE message == trace["digest"].sent \o Part("digest", n)
<1>2. message \in Seq(Unit) /\ op["digest"].buffer \o Part("digest", n) = message
  <2>1. Part("digest", n) \in Seq(Unit)
    BY <1>1, PartOK
  <2>2. op["digest"].buffer = trace["digest"].sent /\ trace["digest"].sent \in Seq(Unit)
    BY <1>1, WholeBuffer
  <2> QED BY <2>1, <2>2
<1>3. ~op["digest"].ready
  <2>1. ActiveOK("digest", op["digest"], trace["digest"])
    BY <1>1, Open
  <2>2. op["digest"].mechanism = "hash"
    BY <2>1, <1>1 DEF ActiveOK, UsesOK, Mechanisms, Ops, Ciphers
  <2> QED BY <2>1, <2>2, <1>1 DEF ActiveOK, UsesOK, FidoMechanisms
<1>4. \/ UNCHANGED cryptVars
      \/ deliver("digest", message, <<Chunk(Unchained, message, HashLength)>>, 0)
  BY <1>2 DEF copy_digest
<1> HIDE DEF message
<1> QED BY <1>1, <1>2, <1>3, <1>4, UnchangedOK, DeliverWholeOK, LengthsAssumption

(* Only an authenticator keeps a signature.                                *)
LEMMA NotReady ==
    ASSUME CryptInv, NEW o \in {"sign", "verify"}, op[o] # NoOp,
           op[o].mechanism \notin FidoMechanisms
    PROVE  o \in Ops /\ o \notin Ciphers /\ ~op[o].ready
<1>1. o \in Ops /\ o \notin Ciphers
  BY DEF Ops, Ciphers
<1>2. ActiveOK(o, op[o], trace[o])
  BY <1>1, Open
<1> QED BY <1>1, <1>2 DEF ActiveOK, UsesOK

LEMMA KeepSignatureOK ==
    ASSUME CryptInv, op["sign"] # NoOp, ~op["sign"].ready, op["sign"].authorized,
           op["sign"].mechanism \in FidoMechanisms,
           NEW data \in Seq(Unit), Len(data) = HashLength,
           keep("sign", data, data, <<Chunk(Unchained, data, HashLength)>>, 1)
    PROVE  CryptInv'
<1> DEFINE p == op["sign"]
           t == trace["sign"]
           x == Chunk(Unchained, data, HashLength)
           q == [p EXCEPT !.buffer = data, !.ready = TRUE, !.result = <<x>>, !.authorized = @ /\ 1 = 0]
           u == [t EXCEPT !.sent = data, !.runs = @ + 1]
<1>0. "sign" \in Ops /\ "sign" \notin Ciphers
  BY DEF Ops, Ciphers
<1>1. p \in Operation /\ t \in Trace /\ ActiveOK("sign", p, t)
  BY <1>0, Open
<1>2. t.runs = 0 /\ t.granted > 0 /\ p.authorized \in BOOLEAN
  BY <1>1 DEF ActiveOK, UsesOK, Operation
<1>3. op' = [op EXCEPT !["sign"] = q] /\ trace' = [trace EXCEPT !["sign"] = u]
  BY <1>0 DEF keep, CryptInv, CryptTypeOK
<1>4. slotRole' \in BOOLEAN /\ backendLogin' \in BOOLEAN
  BY DEF keep, CryptInv, CryptTypeOK
<1>5. x \in Chunks
  BY LengthsAssumption DEF Chunk, Chunks
<1> HIDE DEF x
<1>6. q \in Operation /\ u \in Trace
  <2>1. <<x>> \in Seq(Chunks) /\ (p.authorized /\ 1 = 0) \in BOOLEAN /\ t.runs + 1 \in Nat
    BY <1>2, <1>5
  <2>2. q \in Operation
    BY <1>1, <2>1 DEF Operation
  <2>3. u \in Trace
    BY <1>1, <2>1 DEF Trace
  <2> QED BY <2>2, <2>3
<1>7. /\ q.mechanism = p.mechanism /\ q.private = p.private /\ q.ready = TRUE /\ q.result = <<x>>
      /\ q.buffer = data
  BY <1>1 DEF Operation
<1>8. u.sent = data /\ u.out = t.out /\ u.runs = 1 /\ u.done = t.done /\ u.granted = t.granted
  BY <1>1, <1>2 DEF Trace
<1> HIDE DEF q, u
<1>9. UsesOK("sign", q, u)
  BY <1>1, <1>2, <1>7, <1>8 DEF ActiveOK, UsesOK
<1>10. WholeOK(q, u)
  <2>1. t.out = <<>>
    BY <1>0, <1>1 DEF ActiveOK, WholeOK
  <2>2. Len(data) <= Len(q.buffer) /\ SubSeq(q.buffer, 1, Len(data)) = data
    BY <1>7, SubSeqFull, LengthsAssumption
  <2> QED BY <2>1, <2>2, <1>7, <1>8 DEF WholeOK, x
<1>11. ActiveOK("sign", q, u)
  BY <1>0, <1>1, <1>8, <1>9, <1>10 DEF ActiveOK
<1> QED BY <1>0, <1>3, <1>4, <1>6, <1>11, ActiveIsEnded, OneSlot

(* A signature that is kept is given out for the data it was made for.     *)
LEMMA KeptSignature ==
    ASSUME CryptInv, op["sign"] # NoOp, op["sign"].ready,
           NEW data \in Seq(Unit), Len(data) = HashLength,
           op["sign"].buffer # <<>> => op["sign"].buffer = data
    PROVE  op["sign"].result = <<Chunk(Unchained, data, HashLength)>>
<1> DEFINE p == op["sign"]
<1>0. "sign" \in Ops /\ "sign" \notin Ciphers
  BY DEF Ops, Ciphers
<1>1. p \in Operation /\ ActiveOK("sign", p, trace["sign"])
  BY <1>0, Open
<1>2. PICK first \in Seq(Unit) : /\ p.result = <<Chunk(Unchained, first, HashLength)>>
                                 /\ Len(first) = HashLength /\ Len(first) <= Len(p.buffer)
                                 /\ SubSeq(p.buffer, 1, Len(first)) = first
  BY <1>0, <1>1 DEF ActiveOK, WholeOK
<1>3. CASE p.buffer # <<>>
  <2>1. p.buffer = data
    BY <1>3
  <2>2. SubSeq(data, 1, Len(data)) = data
    BY SubSeqFull
  <2> QED BY <1>2, <2>1, <2>2
<1>4. CASE p.buffer = <<>>
  <2>1. Len(first) = 0 /\ Len(data) = 0
    BY <1>2, <1>4
  <2>2. first = <<>> /\ data = <<>>
    BY <2>1, <1>2
  <2> QED BY <1>2, <2>2
<1> QED BY <1>3, <1>4

LEMMA FidoSignOK ==
    ASSUME CryptInv, op["sign"] # NoOp, op["sign"].mechanism \in FidoMechanisms,
           NEW data \in Seq(Unit), NEW capacity, fido_sign(data, capacity)
    PROVE  CryptInv'
<1> DEFINE p == op["sign"]
           chunks == <<Chunk(Unchained, data, HashLength)>>
           accepted == Len(data) = HashLength /\ (p.buffer # <<>> => p.buffer = data)
<1>0. "sign" \in Ops /\ "sign" \notin Ciphers /\ HashLength \in Nat
  BY LengthsAssumption DEF Ops, Ciphers
<1>1. \/ take("sign") \/ UNCHANGED cryptVars
      \/ accepted /\ p.ready /\ deliver("sign", data, p.result, 0)
      \/ accepted /\ ~p.ready /\ p.authorized /\ keep("sign", data, data, chunks, 1)
      \/ accepted /\ ~p.ready /\ p.authorized /\ deliver("sign", data, chunks, 1)
  BY DEF fido_sign
<1>2. CASE accepted /\ p.ready /\ deliver("sign", data, p.result, 0)
  <2> DEFINE x == Chunk(Unchained, data, HashLength)
  <2>1. p.result = <<x>>
    BY <1>2, KeptSignature
  <2>2. x \in Chunks /\ x.units = data /\ x.iv = Unchained
    BY <1>0 DEF Chunk, Chunks
  <2> HIDE DEF x
  <2>3. trace["sign"].out = <<>>
    <3>1. ActiveOK("sign", p, trace["sign"])
      BY <1>0, Open
    <3> QED BY <3>1, <1>0 DEF ActiveOK, WholeOK
  <2>4. /\ <<x>> \in Seq(Chunks) /\ trace["sign"].out \o <<x>> = <<x>>
        /\ DOMAIN <<x>> = {1} /\ <<x>>[1] = x
    BY <2>2, <2>3
  <2>5. Units(<<x>>) = data /\ Chained(<<x>>)
    BY <2>2, <2>4, UnitsOne DEF Chained
  <2>6. deliver("sign", data, <<x>>, 0)
    BY <1>2, <2>1
  <2> QED BY <1>0, <2>4, <2>5, <2>6, DeliverOK
<1>3. CASE accepted /\ ~p.ready /\ p.authorized /\ keep("sign", data, data, chunks, 1)
  BY <1>3, KeepSignatureOK
<1>4. CASE accepted /\ ~p.ready /\ p.authorized /\ deliver("sign", data, chunks, 1)
  BY <1>0, <1>4, DeliverWholeOK
<1> QED BY <1>0, <1>1, <1>2, <1>3, <1>4, TakeOK, UnchangedOK

LEMMA OathSignOK ==
    ASSUME CryptInv, op["sign"] # NoOp, op["sign"].mechanism = "oath",
           NEW data, NEW capacity, oath_sign(data, capacity)
    PROVE  CryptInv'
<1>1. "sign" \in Ops /\ "sign" \notin Ciphers /\ ~op["sign"].ready
  BY NotReady DEF FidoMechanisms
<1>2. \/ take("sign") \/ UNCHANGED cryptVars
      \/ deliver("sign", <<>>, <<Chunk(Unchained, <<>>, HashLength)>>, 1)
  BY DEF oath_sign
<1>3. <<>> \in Seq(Unit) /\ HashLength \in Nat
  BY LengthsAssumption
<1> QED BY <1>1, <1>2, <1>3, TakeOK, UnchangedOK, DeliverWholeOK

LEMMA KeySignOK ==
    ASSUME CryptInv, op["sign"] # NoOp, op["sign"].mechanism \in {"raw", "hash_ml_dsa"},
           NEW data \in Seq(Unit), NEW capacity, key_sign(data, capacity)
    PROVE  CryptInv'
<1> DEFINE message == trace["sign"].sent \o data
<1>1. "sign" \in Ops /\ "sign" \notin Ciphers /\ ~op["sign"].ready
  BY NotReady DEF FidoMechanisms
<1>2. op["sign"].buffer = trace["sign"].sent /\ trace["sign"].sent \in Seq(Unit)
  BY <1>1, WholeBuffer
<1>3. message \in Seq(Unit) /\ HashLength \in Nat
  BY <1>2, LengthsAssumption
<1>4. \/ take("sign") \/ UNCHANGED cryptVars
      \/ deliver("sign", message, <<Chunk(Unchained, message, HashLength)>>, 1)
  BY <1>2 DEF key_sign
<1> HIDE DEF message
<1> QED BY <1>1, <1>3, <1>4, TakeOK, UnchangedOK, DeliverWholeOK

LEMMA SignOK ==
    ASSUME CryptInv, NEW data \in Seq(Unit), NEW finalizing, NEW capacity,
           sign(data, finalizing, capacity)
    PROVE  CryptInv'
<1>1. "sign" \in Ops
  BY DEF Ops
<1>2. op["sign"] # NoOp
  BY DEF sign
<1>3. \/ take("sign") \/ refuse("sign")
      \/ op["sign"].mechanism = "oath" /\ oath_sign(data, capacity)
      \/ op["sign"].mechanism \in FidoMechanisms /\ fido_sign(data, capacity)
      \/ op["sign"].mechanism \in {"raw", "hash_ml_dsa"} /\ key_sign(data, capacity)
  BY DEF sign
<1> QED BY <1>1, <1>2, <1>3, TakeOK, RefuseOK, OathSignOK, FidoSignOK, KeySignOK

LEMMA VerifyOK ==
    ASSUME CryptInv, NEW n \in Nat, NEW finalizing, verify_with_mode(n, finalizing)
    PROVE  CryptInv'
<1> DEFINE part == Part("verify", n)
           message == trace["verify"].sent \o part
<1>1. "verify" \in Ops /\ "verify" \notin Ciphers
  BY DEF Ops, Ciphers
<1>2. op["verify"] # NoOp /\ Sendable("verify", n)
  BY DEF verify_with_mode
<1>3. op["verify"].buffer = trace["verify"].sent /\ trace["verify"].sent \in Seq(Unit)
  BY <1>1, <1>2, WholeBuffer
<1>4. ~op["verify"].ready
  <2>1. ActiveOK("verify", op["verify"], trace["verify"])
    BY <1>1, <1>2, Open
  <2>2. op["verify"].mechanism \in {"raw", "hash_ml_dsa"}
    BY <2>1, <1>1 DEF ActiveOK, UsesOK, Mechanisms, Ops, Ciphers
  <2> QED BY <2>2, <1>2, NotReady DEF FidoMechanisms
<1>5. message \in Seq(Unit)
  BY <1>1, <1>2, <1>3, PartOK
<1>6. \/ take("verify") \/ refuse("verify")
      \/ deliver("verify", message, <<Chunk(Unchained, message, 0)>>, 1)
  BY <1>3 DEF verify_with_mode
<1> HIDE DEF message
<1> QED BY <1>1, <1>2, <1>4, <1>5, <1>6, TakeOK, RefuseOK, DeliverWholeOK

LEMMA ContextLoginOK ==
    ASSUME CryptInv, login_context_specific
    PROVE  CryptInv'
<1> DEFINE p == op["sign"]
           t == trace["sign"]
           q == [p EXCEPT !.authorized = TRUE]
           u == [t EXCEPT !.granted = @ + 1]
<1>0. "sign" \in Ops /\ "sign" \notin Ciphers
  BY DEF Ops, Ciphers
<1>1. CASE clear_login_state /\ UNCHANGED backendLogin
  BY <1>1, ClearOK DEF clear_login_state, CryptInv, CryptTypeOK
<1>2. CASE /\ p # NoOp
           /\ op' = [op EXCEPT !["sign"].authorized = TRUE]
           /\ trace' = [trace EXCEPT !["sign"].granted = @ + 1]
           /\ UNCHANGED <<slotRole, backendLogin>>
  <2>1. p \in Operation /\ t \in Trace /\ ActiveOK("sign", p, t)
    BY <1>0, <1>2, Open
  <2>2. op' = [op EXCEPT !["sign"] = q] /\ trace' = [trace EXCEPT !["sign"] = u]
    BY <1>0, <1>2 DEF CryptInv, CryptTypeOK
  <2>3. slotRole' \in BOOLEAN /\ backendLogin' \in BOOLEAN
    BY <1>2 DEF CryptInv, CryptTypeOK
  <2>4. t.granted + 1 \in Nat /\ t.granted + 1 > 0
    BY <2>1 DEF Trace
  <2>5. q \in Operation /\ u \in Trace
    BY <2>1, <2>4 DEF Operation, Trace
  <2>6. /\ q.mechanism = p.mechanism /\ q.private = p.private /\ q.ready = p.ready
        /\ q.result = p.result /\ q.buffer = p.buffer
    BY <2>1 DEF Operation
  <2>7. /\ u.sent = t.sent /\ u.out = t.out /\ u.runs = t.runs /\ u.done = t.done
        /\ u.granted = t.granted + 1
    BY <2>1 DEF Trace
  <2> HIDE DEF q, u
  <2>8. UsesOK("sign", q, u)
    BY <2>1, <2>4, <2>6, <2>7 DEF ActiveOK, UsesOK
  <2>9. WholeOK(q, u)
    BY <1>0, <2>1, <2>6, <2>7 DEF ActiveOK, WholeOK
  <2>10. ActiveOK("sign", q, u)
    BY <1>0, <2>1, <2>7, <2>8, <2>9 DEF ActiveOK
  <2> QED BY <1>0, <2>2, <2>3, <2>5, <2>10, ActiveIsEnded, OneSlot
<1> QED BY <1>1, <1>2 DEF login_context_specific

LEMMA StartOK ==
    ASSUME CryptInv, NEW o \in Ops, NEW m \in Mechanisms[o], NEW private \in BOOLEAN,
           o = "digest" => ~private, Start(o, m, private)
    PROVE  CryptInv'
<1> DEFINE p == NewOperation(m, private)
<1>1. p \in Operation /\ SlotOK(o, p, Blank)
  BY NewOperationOK
<1> HIDE DEF p
<1>2. /\ op' = [op EXCEPT ![o] = p]
      /\ trace' = [x \in Ops |-> IF x = o \/ op[x] = NoOp THEN Blank ELSE trace[x]]
      /\ UNCHANGED <<slotRole, backendLogin>>
  BY DEF Start, p
<1>3. /\ op' \in [Ops -> Operation \cup {NoOp}]
      /\ trace' \in [Ops -> Trace]
      /\ \A x \in Ops : /\ op'[x] = IF x = o THEN p ELSE op[x]
                        /\ trace'[x] = IF x = o \/ op[x] = NoOp THEN Blank ELSE trace[x]
  BY <1>1, <1>2, BlankOK DEF CryptInv, CryptTypeOK
<1>4. SlotOK(o, NoOp, Blank) /\ \A x \in Ops : op[x] = NoOp => SlotOK(x, op[x], Blank)
  BY BlankOK DEF SlotOK
<1>5. \A x \in Ops : SlotOK(x, op'[x], trace'[x])
  BY <1>1, <1>3, <1>4 DEF CryptInv
<1> QED BY <1>2, <1>3, <1>5 DEF CryptInv, CryptTypeOK, SlotOK, EndedOK, ActiveOK, UsesOK, CipherOK, WholeOK

-----------------------------------------------------------------------------
(* The theorems.                                                           *)

LEMMA SameOperations ==
    ASSUME CryptInv, UNCHANGED <<op, trace>>, slotRole' \in BOOLEAN, backendLogin' \in BOOLEAN
    PROVE  CryptInv'
BY ZenonT(30) DEF CryptInv, CryptTypeOK, SlotOK, EndedOK, ActiveOK, UsesOK, CipherOK, WholeOK

LEMMA CryptInvInit ==
    ASSUME CryptInit PROVE CryptInv
<1>1. \A o \in Ops : op[o] = NoOp /\ trace[o] = Blank
  BY DEF CryptInit
<1>2. CryptTypeOK
  BY BlankOK DEF CryptInit, CryptTypeOK
<1> QED BY <1>1, <1>2, BlankOK DEF CryptInv, SlotOK

LEMMA CryptInvStep ==
    ASSUME CryptInv, [CryptNext]_cryptVars
    PROVE  CryptInv'
<1>0. /\ Ciphers \subseteq Ops /\ {"sign", "verify", "digest"} \subseteq Ops
      /\ {"sign", "verify"} \cap Ciphers = {} /\ MaxPart \in Nat
      /\ slotRole \in BOOLEAN /\ backendLogin \in BOOLEAN
  BY LengthsAssumption DEF Ops, Ciphers, CryptInv, CryptTypeOK
<1>1. CASE UNCHANGED cryptVars
  BY <1>1, UnchangedOK
<1>2. CASE UserLogin \/ LogoutUser \/ LoginLost
  <2>1. slotRole' \in BOOLEAN /\ backendLogin' \in BOOLEAN
    BY <1>0, <1>2 DEF UserLogin, LogoutUser, LoginLost, clear_login_state
  <2>2. \/ UNCHANGED <<op, trace>>
        \/ op' = [o \in Ops |-> NoOp] /\ trace' = [o \in Ops |-> Blank]
    BY <1>2 DEF UserLogin, LogoutUser, LoginLost, clear_login_state
  <2> QED BY <2>1, <2>2, SameOperations, ClearOK
<1>3. CASE login_context_specific
  BY <1>3, ContextLoginOK
<1>4. CASE digest_init
  <2>1. "hash" \in Mechanisms["digest"]
    BY DEF Mechanisms, Ops, Ciphers
  <2>2. Start("digest", "hash", FALSE)
    BY <1>4 DEF digest_init
  <2> QED BY <1>0, <2>1, <2>2, StartOK
<1>5. ASSUME NEW o \in Ops, cancel_operations(o) PROVE CryptInv'
  BY <1>5, TakeOK DEF cancel_operations
<1>6. ASSUME NEW d \in Ciphers, NEW m \in Mechanisms["encrypt"], NEW private \in BOOLEAN,
             crypt_init(d, m, private)
      PROVE  CryptInv'
  <2>1. Mechanisms[d] = Mechanisms["encrypt"] /\ d # "digest"
    BY DEF Mechanisms, Ops, Ciphers
  <2>2. Start(d, m, private)
    BY <1>6 DEF crypt_init
  <2> QED BY <1>0, <2>1, <2>2, StartOK
<1>7. ASSUME NEW m \in Mechanisms["sign"], NEW private \in BOOLEAN, sign_init(m, private)
      PROVE  CryptInv'
  BY <1>0, <1>7, StartOK DEF sign_init
<1>8. ASSUME NEW m \in Mechanisms["verify"], NEW private \in BOOLEAN, verify_init(m, private)
      PROVE  CryptInv'
  BY <1>0, <1>8, StartOK DEF verify_init
<1>9. ASSUME NEW o \in {"sign", "verify"}, NEW n \in 0..MaxPart, signature_update(o, n)
      PROVE  CryptInv'
  <2>1. op[o] # NoOp /\ Sendable(o, n) /\ o \in Ops /\ o \notin Ciphers /\ n \in Nat
    BY <1>0, <1>9 DEF signature_update
  <2>2. take(o) \/ absorb(o, Part(o, n))
    BY <1>9 DEF signature_update
  <2>3. Part(o, n) \in Seq(Unit)
    BY <2>1, PartOK
  <2> QED BY <2>1, <2>2, <2>3, TakeOK, AbsorbOK
<1>10. ASSUME NEW n \in 0..MaxPart, C_DigestUpdate(n) PROVE CryptInv'
  <2>1. op["digest"] # NoOp /\ Sendable("digest", n) /\ "digest" \notin Ciphers /\ n \in Nat
    BY <1>0, <1>10 DEF C_DigestUpdate, Ciphers
  <2>2. take("digest") \/ absorb("digest", Part("digest", n))
    BY <1>10 DEF C_DigestUpdate
  <2>3. Part("digest", n) \in Seq(Unit)
    BY <1>0, <2>1, PartOK
  <2> QED BY <1>0, <2>1, <2>2, <2>3, TakeOK, AbsorbOK
<1>11. ASSUME NEW n \in 0..MaxPart, verify_with_mode(n, FALSE) PROVE CryptInv'
  <2>1. n \in Nat
    BY <1>0
  <2> QED BY <2>1, <1>11, VerifyOK
<1>12. CASE verify_with_mode(0, TRUE)
  BY <1>12, VerifyOK
<1>13. ASSUME NEW capacity \in Capacities, C_SignFinal(capacity) PROVE CryptInv'
  <2>1. take("sign") \/ sign(<<>>, TRUE, capacity)
    BY <1>13 DEF C_SignFinal
  <2>2. <<>> \in Seq(Unit)
    OBVIOUS
  <2> QED BY <1>0, <2>1, <2>2, TakeOK, SignOK
<1>14. ASSUME NEW capacity \in Capacities, C_DigestFinal(capacity) PROVE CryptInv'
  <2>1. op["digest"] # NoOp /\ (take("digest") \/ copy_digest(0, capacity))
    BY <1>14 DEF C_DigestFinal
  <2> QED BY <1>0, <2>1, TakeOK, CopyDigestOK
<1>15. ASSUME NEW capacity \in Capacities, NEW d \in Ciphers, crypt(d, 0, TRUE, capacity)
       PROVE  CryptInv'
  BY <1>15, CryptOK
<1>16. ASSUME NEW capacity \in Capacities, NEW n \in 0..MaxPart, C_Digest(n, capacity)
       PROVE  CryptInv'
  <2>1. op["digest"] # NoOp /\ Sendable("digest", n) /\ (take("digest") \/ copy_digest(n, capacity))
    BY <1>16 DEF C_Digest
  <2> QED BY <1>0, <2>1, TakeOK, CopyDigestOK
<1>17. ASSUME NEW capacity \in Capacities, NEW n \in 0..MaxPart, C_Sign(n, capacity)
       PROVE  CryptInv'
  <2>1. Sendable("sign", n) /\ n \in Nat
    BY <1>0, <1>17 DEF C_Sign
  <2>2. Part("sign", n) \in Seq(Unit)
    BY <1>0, <2>1, PartOK
  <2>3. [i \in 1..n |-> i] \in Seq(Unit)
    <3>1. trace["sign"].sent \in Seq(Unit)
      BY <1>0 DEF CryptInv, CryptTypeOK, Trace
    <3>2. n <= MaxInput
      BY <3>1, <2>1, LengthsAssumption DEF Sendable
    <3>3. [i \in 1..n |-> i] \in [1..n -> Unit]
      BY <3>2, <2>1, LengthsAssumption DEF Unit
    <3> QED BY <3>3, <2>1, FunctionIsSeq
  <2>4. \E data \in {Part("sign", n), [i \in 1..n |-> i]} : sign(data, FALSE, capacity)
    BY <1>17 DEF C_Sign
  <2> QED BY <2>2, <2>3, <2>4, SignOK
<1>18. ASSUME NEW capacity \in Capacities, NEW n \in 0..MaxPart, NEW d \in Ciphers,
              crypt(d, n, FALSE, capacity) \/ crypt_update(d, n, capacity)
       PROVE  CryptInv'
  <2>1. n \in Nat
    BY <1>0
  <2> QED BY <2>1, <1>18, CryptOK, CryptUpdateOK
<1> QED BY <1>1, <1>2, <1>3, <1>4, <1>5, <1>6, <1>7, <1>8, <1>9, <1>10, <1>11, <1>12, <1>13,
           <1>14, <1>15, <1>16, <1>17, <1>18 DEF CryptNext

(* What every operation of a session keeps, whatever calls come in         *)
(* whatever order: what was sent has gone out, is buffered or is in the    *)
(* result that is kept for a call with a larger buffer.                    *)
THEOREM CryptInvariance == CryptSpec => []CryptInv
<1>1. CryptInit => CryptInv
  BY CryptInvInit
<1>2. CryptInv /\ [CryptNext]_cryptVars => CryptInv'
  BY CryptInvStep
<1> QED BY <1>1, <1>2, PTL DEF CryptSpec

(* What an operation gives out was computed from the units it was sent,    *)
(* each once and in order, every block chained to the one before it        *)
(* (crypt_update, crypt and the digest and signature calls).               *)
THEOREM StreamsAreExact == CryptSpec => []StreamExact
<1>1. CryptInv => StreamExact
  BY DEF CryptInv, SlotOK, EndedOK, Chained, StreamExact
<1> QED BY <1>1, CryptInvariance, PTL

(* A key is used at most once in an operation, and an authenticator only   *)
(* after a context-specific login (fido_sign, keep).                       *)
THEOREM KeysAreUsedOnce == CryptSpec => []KeyUsedOnce
<1>1. ASSUME CryptInv, NEW o \in Ops
      PROVE  /\ trace[o].runs <= 1
             /\ (op[o] # NoOp /\ op[o].mechanism \in FidoMechanisms) =>
                    trace[o].runs <= trace[o].granted
  <2>1. trace[o].runs <= 1 /\ trace[o].granted \in Nat
    BY <1>1 DEF CryptInv, CryptTypeOK, Trace, SlotOK, EndedOK
  <2>2. ASSUME op[o] # NoOp, op[o].mechanism \in FidoMechanisms
        PROVE  trace[o].runs <= trace[o].granted
    <3>1. /\ trace[o].runs = IF op[o].ready THEN 1 ELSE 0
          /\ op[o].ready => trace[o].granted > 0
      BY <1>1, <2>2, Open DEF ActiveOK, UsesOK
    <3> QED BY <3>1, <2>1
  <2> QED BY <2>1, <2>2
<1>2. CryptInv => KeyUsedOnce
  BY <1>1 DEF KeyUsedOnce
<1> QED BY <1>2, CryptInvariance, PTL

(* The length that a query reports for the input of the next call is       *)
(* enough for every result of it (crypt_output_length, crypt).             *)
THEOREM QuotedLengthsSuffice == CryptSpec => []QuotedLengthSuffices
<1>1. ASSUME CryptInv, NEW d \in Ciphers, NEW n \in 0..MaxPart, op[d] # NoOp, Sendable(d, n),
             NEW result \in Results(d, op[d], op[d].buffer \o Part(d, n))
      PROVE  Length(result) <= crypt_output_length(d, op[d], Len(op[d].buffer \o Part(d, n)))
  <2>1. d \in Ops /\ n \in Nat
    BY LengthsAssumption DEF Ops
  <2>2. op[d] \in Operation /\ op[d].mechanism \in Mechanisms[d]
    BY <1>1, <2>1, Open DEF ActiveOK, UsesOK
  <2>3. op[d].buffer \in Seq(Unit) /\ Part(d, n) \in Seq(Unit)
    BY <1>1, <2>1, <2>2, PartOK DEF Operation
  <2>4. op[d].buffer \o Part(d, n) \in Seq(Unit)
    BY <2>3, ConcatUnits
  <2>5. ResultOK(d, op[d], op[d].buffer \o Part(d, n), result)
    BY <2>2, <2>4, ResultsOK
  <2> QED BY <2>5 DEF ResultOK
<1>2. CryptInv => QuotedLengthSuffices
  BY <1>1 DEF QuotedLengthSuffices
<1> QED BY <1>2, CryptInvariance, PTL

-----------------------------------------------------------------------------
(* Nothing leaves an operation without the login it needs.                 *)

(* The operation in slot x gives out nothing and runs nothing.             *)
Quiet(x) ==
    \/ trace'[x] = Blank
    \/ trace'[x].out = trace[x].out /\ trace'[x].runs = trace[x].runs

(* What a step on slot o does in slot x.                                   *)
LEMMA QuietSteps ==
    ASSUME CryptTypeOK, NEW o \in Ops, NEW x \in Ops
    PROVE  /\ take(o) => Quiet(x)
           /\ refuse(o) => Quiet(x)
           /\ clear_login_state => Quiet(x)
           /\ UNCHANGED trace => Quiet(x)
           /\ UNCHANGED cryptVars => Quiet(x)
           /\ \A part : absorb(o, part) => Quiet(x)
           /\ \A m, private : Start(o, m, private) /\ op[x] # NoOp => Quiet(x)
           /\ x # o => /\ \A m, c, r : deliver(o, m, c, r) => Quiet(x)
                       /\ \A m, b, c, r : keep(o, m, b, c, r) => Quiet(x)
                       /\ \A n : crypt_update_blocks(o, n) => Quiet(x)
<1>0. trace \in [Ops -> Trace]
  BY DEF CryptTypeOK
<1>1. take(o) => Quiet(x)
  BY <1>0 DEF take, Quiet
<1>2. clear_login_state => Quiet(x)
  BY DEF clear_login_state, Quiet
<1>3. refuse(o) => Quiet(x)
  BY <1>1, <1>2 DEF refuse
<1>4. UNCHANGED trace => Quiet(x)
  BY DEF Quiet
<1>5. UNCHANGED cryptVars => Quiet(x)
  BY <1>4 DEF cryptVars
<1>6. ASSUME NEW part, absorb(o, part) PROVE Quiet(x)
  <2>1. trace' = [trace EXCEPT ![o] = [trace[o] EXCEPT !.sent = @ \o part]]
    BY <1>6 DEF absorb
  <2>2. /\ [trace[o] EXCEPT !.sent = @ \o part].out = trace[o].out
        /\ [trace[o] EXCEPT !.sent = @ \o part].runs = trace[o].runs
    BY <1>0 DEF Trace
  <2>3. trace'[x] = IF x = o THEN [trace[o] EXCEPT !.sent = @ \o part] ELSE trace[x]
    BY <1>0, <2>1
  <2> QED BY <2>2, <2>3 DEF Quiet
<1>7. ASSUME NEW m, NEW private, Start(o, m, private), op[x] # NoOp PROVE Quiet(x)
  BY <1>7 DEF Start, Quiet
<1>8. ASSUME x # o, NEW m, NEW c, NEW r, deliver(o, m, c, r) PROVE Quiet(x)
  BY <1>0, <1>8 DEF deliver, Quiet
<1>9. ASSUME x # o, NEW m, NEW b, NEW c, NEW r, keep(o, m, b, c, r) PROVE Quiet(x)
  BY <1>0, <1>9 DEF keep, Quiet
<1>10. ASSUME x # o, NEW n, crypt_update_blocks(o, n) PROVE Quiet(x)
  BY <1>0, <1>10 DEF crypt_update_blocks, Quiet
<1> QED BY <1>1, <1>2, <1>3, <1>4, <1>5, <1>6, <1>7, <1>8, <1>9, <1>10

(* A step gives nothing out, or the login of a private key is there.       *)
LEMMA AllowedStep ==
    ASSUME CryptInv, CryptNext, NEW x \in Ops, op[x] # NoOp, op[x].private
    PROVE  Quiet(x) \/ is_slot_user_logged_in
<1>0. /\ CryptTypeOK
      /\ Ciphers \subseteq Ops /\ {"sign", "verify", "digest"} \subseteq Ops
  BY DEF Ops, Ciphers, CryptInv
<1>1. x # "digest"
  <2>1. ActiveOK(x, op[x], trace[x])
    BY Open
  <2> QED BY <2>1 DEF ActiveOK, UsesOK
<1>2. CASE UserLogin \/ LogoutUser \/ LoginLost
  <2>1. clear_login_state \/ UNCHANGED trace \/ trace' = [o \in Ops |-> Blank]
    BY <1>2 DEF UserLogin, LogoutUser, LoginLost
  <2> QED BY <2>1, <1>0, QuietSteps DEF Quiet
<1>3. CASE login_context_specific
  BY <1>0, <1>3, QuietSteps DEF login_context_specific
<1>4. CASE digest_init
  BY <1>0, <1>4, QuietSteps DEF digest_init
<1>5. ASSUME NEW o \in Ops, cancel_operations(o) PROVE Quiet(x)
  BY <1>0, <1>5, QuietSteps DEF cancel_operations
<1>6. ASSUME NEW d \in Ciphers, NEW m, NEW private, crypt_init(d, m, private) PROVE Quiet(x)
  BY <1>0, <1>6, QuietSteps DEF crypt_init
<1>7. ASSUME NEW m, NEW private, sign_init(m, private) \/ verify_init(m, private) PROVE Quiet(x)
  BY <1>0, <1>7, QuietSteps DEF sign_init, verify_init
<1>8. ASSUME NEW o \in {"sign", "verify"}, NEW n, signature_update(o, n) PROVE Quiet(x)
  BY <1>0, <1>8, QuietSteps DEF signature_update
<1>9. ASSUME NEW n, C_DigestUpdate(n) PROVE Quiet(x)
  BY <1>0, <1>9, QuietSteps DEF C_DigestUpdate
<1>10. ASSUME NEW n, NEW capacity, copy_digest(n, capacity) PROVE Quiet(x)
  BY <1>0, <1>1, <1>10, QuietSteps DEF copy_digest
<1>11. ASSUME NEW n, NEW capacity, C_Digest(n, capacity) \/ C_DigestFinal(capacity) PROVE Quiet(x)
  BY <1>0, <1>10, <1>11, QuietSteps DEF C_Digest, C_DigestFinal
<1>12. ASSUME NEW n, NEW finalizing, verify_with_mode(n, finalizing)
       PROVE  Quiet(x) \/ is_slot_user_logged_in
  <2>1. \/ take("verify") \/ refuse("verify")
        \/ ~missing_login("verify") /\ \E m, c : deliver("verify", m, c, 1)
    BY <1>12 DEF verify_with_mode
  <2> QED BY <1>0, <2>1, QuietSteps DEF missing_login
<1>13. ASSUME NEW data, NEW finalizing, NEW capacity, sign(data, finalizing, capacity)
       PROVE  Quiet(x) \/ is_slot_user_logged_in
  <2>1. \/ take("sign") \/ refuse("sign")
        \/ /\ ~missing_login("sign")
           /\ oath_sign(data, capacity) \/ fido_sign(data, capacity) \/ key_sign(data, capacity)
    BY <1>13 DEF sign
  <2>2. oath_sign(data, capacity) \/ fido_sign(data, capacity) \/ key_sign(data, capacity) =>
            \/ take("sign") \/ UNCHANGED cryptVars
            \/ \E m, b, c, r : deliver("sign", m, c, r) \/ keep("sign", m, b, c, r)
    BY DEF oath_sign, fido_sign, key_sign
  <2> QED BY <1>0, <2>1, <2>2, QuietSteps DEF missing_login
<1>14. ASSUME NEW n, NEW capacity, C_Sign(n, capacity) \/ C_SignFinal(capacity)
       PROVE  Quiet(x) \/ is_slot_user_logged_in
  BY <1>0, <1>13, <1>14, QuietSteps DEF C_Sign, C_SignFinal
<1>15. ASSUME NEW d \in Ciphers, NEW n, NEW finalizing, NEW capacity,
              crypt(d, n, finalizing, capacity)
       PROVE  Quiet(x) \/ is_slot_user_logged_in
  <2>1. \/ take(d) \/ refuse(d) \/ UNCHANGED cryptVars
        \/ /\ ~missing_login(d)
           /\ \E m, b, c, r : deliver(d, m, c, r) \/ keep(d, m, b, c, r)
    BY <1>15 DEF crypt
  <2> QED BY <1>0, <2>1, QuietSteps DEF missing_login
<1>16. ASSUME NEW d \in Ciphers, NEW n, NEW capacity, crypt_update(d, n, capacity)
       PROVE  Quiet(x) \/ is_slot_user_logged_in
  <2>1. \/ take(d) \/ refuse(d) \/ UNCHANGED cryptVars
        \/ ~missing_login(d) /\ crypt_update_blocks(d, n)
        \/ absorb(d, Part(d, n))
    BY <1>16 DEF crypt_update
  <2> QED BY <1>0, <2>1, QuietSteps DEF missing_login
<1> QED BY <1>2, <1>3, <1>4, <1>5, <1>6, <1>7, <1>8, <1>9, <1>11, <1>12, <1>14, <1>15, <1>16
        DEF CryptNext

(* Nothing computed with a private key leaves an operation, and the key is *)
(* not used, unless slot and backend have the user's login (missing_login  *)
(* before every result, kept ones included).                               *)
THEOREM NothingLeavesWithoutLogin == CryptSpec => NothingWithoutLogin
<1>1. ASSUME CryptInv, [CryptNext]_cryptVars, ~UNCHANGED cryptVars, NEW o \in Ops,
             op[o] # NoOp, op[o].private, trace'[o] # Blank,
             trace'[o].out # trace[o].out \/ trace'[o].runs # trace[o].runs
      PROVE  slotRole /\ backendLogin
  <2>1. Quiet(o) \/ is_slot_user_logged_in
    BY <1>1, AllowedStep
  <2> QED BY <1>1, <2>1 DEF Quiet, is_slot_user_logged_in
<1>2. CryptInv /\ [CryptNext]_cryptVars =>
        [\A o \in Ops :
            (op[o] # NoOp /\ op[o].private /\ trace'[o] # Blank
                /\ (trace'[o].out # trace[o].out \/ trace'[o].runs # trace[o].runs))
            => slotRole /\ backendLogin]_cryptVars
  BY <1>1
<1> QED BY <1>2, CryptInvariance, PTL DEF CryptSpec, NothingWithoutLogin
=============================================================================
