---------------------------- MODULE ObjectProofs ----------------------------
(***************************************************************************)
(* Proofs about the objects of a slot, for any number of sessions, keys,   *)
(* contents and searches: a search loses and repeats nothing, session      *)
(* objects keep the content they share, and a handle keeps its key.        *)
(*                                                                         *)
(* Searches shrink while handles go, so the proof begins with what Retain  *)
(* leaves of a sequence, by induction on its length.                       *)
(***************************************************************************)
EXTENDS TokenObjects, TLAPS, FiniteSetTheorems, SequenceTheorems, WellFoundedInduction

SessionObject == [content : Contents, creator : Sessions]

(* Token handles and session handles are different, and both were given    *)
(* out before the next one.                                                *)
Tables(table, behind, objects, n) ==
    /\ n \in 1..(MaxHandle + 1)
    /\ table \in [DOMAIN table -> Uids] /\ DOMAIN table \subseteq 1..(n - 1)
    /\ behind \in [DOMAIN behind -> Contents] /\ DOMAIN behind \subseteq Handle
    /\ objects \in [DOMAIN objects -> SessionObject] /\ DOMAIN objects \subseteq 1..(n - 1)
    /\ DOMAIN table \cap DOMAIN objects = {}

(* SharedContentKept, of these tables.                                     *)
Behind(behind, objects, contents) ==
    \A h \in DOMAIN objects :
        /\ h \in DOMAIN behind
        /\ behind[h] = objects[h].content
        /\ objects[h].content \in contents[objects[h].creator]

(* HandleKeepsKey, of these tables.                                        *)
Named(table, names) ==
    /\ DOMAIN names = DOMAIN table
    /\ \A h \in DOMAIN table : names[h] \in Keys =>
        /\ table[h] \in KeyIds /\ table[h][2] = names[h]
        /\ \A x \in DOMAIN table : names[x] \in Keys /\ table[x] = table[h] => x = h

Distinct(s) == \A i, j \in 1..Len(s) : s[i] = s[j] => i = j

(* What a search has returned is what lies before its cursor.              *)
Searching(operation, returned, alive) ==
    operation # NoFind =>
        /\ operation \in [objects : Seq(Handle), next : Nat]
        /\ operation.next \in 0..Len(operation.objects)
        /\ Distinct(operation.objects)
        /\ \A i \in 1..Len(operation.objects) : operation.objects[i] \in alive
        /\ returned = SubSeq(operation.objects, 1, operation.next)

Stored(card, contents, listed, shown, private, failed) ==
    /\ card \in [KeySlots -> Keys \cup {NoKey}]
    /\ contents \subseteq Contents /\ IsFiniteSet(contents)
    /\ listed \subseteq Contents /\ shown \subseteq Contents
    /\ private \in [Sessions -> SUBSET Contents]
    /\ failed \in 0..MaxFailures

(* The inductive invariant.                                                *)
ObjectsInv ==
    /\ Stored(keys, store, references, cache, storage, failures)
    /\ Tables(handles, backed, memory, next)
    /\ Behind(backed, memory, storage)
    /\ Named(handles, given)
    /\ find = [s \in Sessions |-> find[s]] /\ seen = [s \in Sessions |-> seen[s]]
    /\ \A s \in Sessions : Searching(find[s], seen[s], Live)

-----------------------------------------------------------------------------
(* Induction, and what Retain leaves of a sequence.                        *)

(* A set that has 0 and the successor of each of its numbers has them all. *)
LEMMA SetInduction ==
    ASSUME NEW S, 0 \in S, \A n \in Nat : n \in S => n + 1 \in S
    PROVE  Nat \subseteq S
<1> DEFINE T == Nat \ S
           R == OpToRel(<, Nat)
<1>1. SUFFICES ASSUME T # {} PROVE FALSE
  OBVIOUS
<1>2. PICK x \in T : \A y \in T : ~(<<y, x>> \in R)
  <2> HIDE DEF R
  <2> QED BY <1>1, NatLessThanWellFounded, WFMin, Zenon DEF R
<1>3. \A y \in T : ~(y < x)
  BY <1>2 DEF OpToRel
<1>4. x # 0 /\ x - 1 \in Nat /\ x - 1 < x
  OBVIOUS
<1> QED BY <1>3, <1>4

(* r is what is left of i elements, if p is left of one fewer.             *)
Grows(r, p, x, gone) == r = IF x \in gone THEN p ELSE Append(p, x)

(* f[i] is what is left of the first i elements, up to k.                  *)
RetainRun(k, f, s, gone, S) ==
    /\ f \in [0..k -> Seq(S)]
    /\ f[0] = <<>>
    /\ \A i \in 1..k : Grows(f[i], f[i - 1], s[i], gone)

LEMMA RetainRunExists ==
    ASSUME NEW S, NEW s \in Seq(S), NEW gone
    PROVE  \E f : RetainRun(Len(s), f, s, gone, S)
<1> DEFINE T == {k \in Nat : k <= Len(s) => \E f : RetainRun(k, f, s, gone, S)}
<1>1. 0 \in T
  <2>1. RetainRun(0, [i \in 0..0 |-> <<>>], s, gone, S)
    BY DEF RetainRun
  <2> QED BY <2>1
<1>2. ASSUME NEW k \in Nat, k \in T PROVE k + 1 \in T
  <2>1. SUFFICES ASSUME k + 1 <= Len(s) PROVE \E f : RetainRun(k + 1, f, s, gone, S)
    OBVIOUS
  <2>2. k <= Len(s)
    BY <2>1
  <2>3. PICK f : RetainRun(k, f, s, gone, S)
    BY <1>2, <2>2
  <2> DEFINE last == IF s[k + 1] \in gone THEN f[k] ELSE Append(f[k], s[k + 1])
             g == [i \in 0..(k + 1) |-> IF i <= k THEN f[i] ELSE last]
  <2>4. f[0] = <<>> /\ \A i \in 0..k : f[i] \in Seq(S)
    BY <2>3 DEF RetainRun
  <2>5. last \in Seq(S)
    <3>1. f[k] \in Seq(S) /\ s[k + 1] \in S
      BY <2>1, <2>4
    <3> QED BY <3>1, AppendProperties
  <2> HIDE DEF last
  <2>6. g \in [0..(k + 1) -> Seq(S)] /\ g[0] = <<>>
    BY <2>4, <2>5
  <2>7. ASSUME NEW i \in 1..(k + 1) PROVE Grows(g[i], g[i - 1], s[i], gone)
    <3>1. CASE i <= k
      <4>1. g[i] = f[i] /\ g[i - 1] = f[i - 1] /\ i \in 1..k
        BY <3>1
      <4> QED BY <4>1, <2>3 DEF RetainRun
    <3>2. CASE i = k + 1
      <4>1. g[i] = last /\ g[i - 1] = f[k]
        BY <3>2
      <4> QED BY <4>1, <3>2 DEF last, Grows
    <3> QED BY <3>1, <3>2
  <2> HIDE DEF g
  <2>8. RetainRun(k + 1, g, s, gone, S)
    BY <2>6, <2>7 DEF RetainRun
  <2> QED BY <2>8
<1>3. Nat \subseteq T
  <2> HIDE DEF T
  <2> QED BY <1>1, <1>2, SetInduction
<1> QED BY <1>3

LEMMA RetainOfRun ==
    ASSUME NEW S, NEW s \in Seq(S), NEW gone, NEW f, RetainRun(Len(s), f, s, gone, S)
    PROVE  Retain(s, gone) = f[Len(s)]
<1> DEFINE Step(g, i) == IF i = 0 THEN <<>>
                         ELSE IF s[i] \in gone THEN g[i - 1] ELSE Append(g[i - 1], s[i])
           Eq(g) == g = [i \in 0..Len(s) |-> Step(g, i)]
           h == CHOOSE g : Eq(g)
           T == {k \in Nat : k <= Len(s) => h[k] = f[k]}
<1>1. Retain(s, gone) = h[Len(s)]
  BY DEF Retain
<1>2. /\ f[0] = <<>>
      /\ f = [i \in 0..Len(s) |-> f[i]]
      /\ \A i \in 1..Len(s) : Grows(f[i], f[i - 1], s[i], gone)
  BY DEF RetainRun
<1>3. ASSUME NEW i \in 0..Len(s) PROVE f[i] = Step(f, i)
  <2>1. CASE i = 0
    BY <2>1, <1>2
  <2>2. CASE i # 0
    <3>1. i \in 1..Len(s)
      BY <2>2
    <3> QED BY <3>1, <2>2, <1>2 DEF Grows
  <2> QED BY <2>1, <2>2
<1>4. Eq(f)
  <2> HIDE DEF Step
  <2> QED BY <1>2, <1>3
<1>5. Eq(h)
  <2> HIDE DEF Eq
  <2> QED BY <1>4
<1>6. ASSUME NEW i \in 0..Len(s) PROVE h[i] = Step(h, i)
  <2> HIDE DEF h, Step
  <2> QED BY <1>5
<1> HIDE DEF h
<1>7. 0 \in T
  <2>1. 0 \in 0..Len(s) /\ 0 \in Nat
    OBVIOUS
  <2>2. h[0] = <<>>
    BY <2>1, <1>6
  <2> QED BY <2>1, <2>2, <1>2
<1>8. ASSUME NEW k \in Nat, k \in T PROVE k + 1 \in T
  <2>1. SUFFICES ASSUME k + 1 <= Len(s) PROVE h[k + 1] = f[k + 1]
    OBVIOUS
  <2> DEFINE i == k + 1
  <2>2. i \in 0..Len(s) /\ i # 0 /\ i - 1 = k /\ k <= Len(s)
    BY <2>1
  <2>3. h[k] = f[k]
    BY <1>8, <2>2
  <2>4. h[i] = Step(h, i) /\ f[i] = Step(f, i)
    BY <2>2, <1>3, <1>6
  <2> HIDE DEF i
  <2>5. h[i] = f[i]
    BY <2>2, <2>3, <2>4
  <2> QED BY <2>5 DEF i
<1>9. Nat \subseteq T
  <2> HIDE DEF T
  <2> QED BY <1>7, <1>8, SetInduction
<1> QED BY <1>1, <1>9

(* Positions up to k that are gone.                                        *)
Lost(s, k, gone) == {i \in 1..k : s[i] \in gone}

LEMMA LostFinite ==
    ASSUME NEW s, NEW gone, NEW k \in Nat
    PROVE  IsFiniteSet(Lost(s, k, gone)) /\ Cardinality(Lost(s, k, gone)) \in Nat
<1>1. IsFiniteSet(1..k)
  BY FS_Interval
<1>2. IsFiniteSet(Lost(s, k, gone))
  BY <1>1, FS_Subset DEF Lost
<1> QED BY <1>2, FS_CardinalityType

LEMMA LostSteps ==
    ASSUME NEW s, NEW gone, NEW k \in Nat
    PROVE  Cardinality(Lost(s, k + 1, gone)) =
               Cardinality(Lost(s, k, gone)) + (IF s[k + 1] \in gone THEN 1 ELSE 0)
<1>1. IsFiniteSet(Lost(s, k, gone)) /\ Cardinality(Lost(s, k, gone)) \in Nat
  BY LostFinite
<1>2. 1..(k + 1) = 1..k \cup {k + 1} /\ k + 1 \notin 1..k
  OBVIOUS
<1>3. CASE s[k + 1] \in gone
  <2>1. Lost(s, k + 1, gone) = Lost(s, k, gone) \cup {k + 1} /\ k + 1 \notin Lost(s, k, gone)
    BY <1>2, <1>3 DEF Lost
  <2> QED BY <2>1, <1>1, <1>3, FS_AddElement
<1>4. CASE s[k + 1] \notin gone
  <2>1. Lost(s, k + 1, gone) = Lost(s, k, gone)
    BY <1>2, <1>4 DEF Lost
  <2> QED BY <2>1, <1>1, <1>4
<1> QED BY <1>3, <1>4

(* What is left of the first k elements: how many, which, and in order.    *)
LeftOK(r, s, k, gone) ==
    /\ Len(r) = k - Cardinality(Lost(s, k, gone))
    /\ \A i \in 1..Len(r) : r[i] \notin gone /\ \E j \in 1..k : s[j] = r[i]
    /\ Distinct(s) => Distinct(r)

LEMMA RunFacts ==
    ASSUME NEW S, NEW s \in Seq(S), NEW gone, NEW f, RetainRun(Len(s), f, s, gone, S),
           NEW k \in 0..Len(s)
    PROVE  LeftOK(f[k], s, k, gone)
<1> DEFINE T == {n \in Nat : n <= Len(s) => LeftOK(f[n], s, n, gone)}
<1>1. 0 \in T
  <2>1. f[0] = <<>>
    BY DEF RetainRun
  <2>2. Lost(s, 0, gone) = {}
    BY DEF Lost
  <2>3. Cardinality(Lost(s, 0, gone)) = 0
    BY <2>2, FS_EmptySet
  <2>4. LeftOK(<<>>, s, 0, gone)
    BY <2>3 DEF LeftOK, Distinct
  <2> QED BY <2>1, <2>4
<1>2. ASSUME NEW n \in Nat, n \in T PROVE n + 1 \in T
  <2>1. SUFFICES ASSUME n + 1 <= Len(s) PROVE LeftOK(f[n + 1], s, n + 1, gone)
    OBVIOUS
  <2> DEFINE r == f[n + 1]
             p == f[n]
             m == n + 1
             x == s[m]
             c == Cardinality(Lost(s, n, gone))
             d == Cardinality(Lost(s, m, gone))
  <2>2. m \in 1..Len(s) /\ n \in 0..Len(s) /\ m - 1 = n
    BY <2>1
  <2>3. Grows(r, p, x, gone) /\ p \in Seq(S) /\ x \in S
    <3>1. Grows(f[m], f[m - 1], s[m], gone)
      BY <2>2 DEF RetainRun
    <3>2. f[n] \in Seq(S)
      BY <2>2 DEF RetainRun
    <3> QED BY <2>2, <3>1, <3>2
  <2>4. LeftOK(p, s, n, gone)
    BY <1>2, <2>2
  <2>5. c \in Nat /\ d = c + (IF x \in gone THEN 1 ELSE 0)
    BY LostFinite, LostSteps
  <2>6. /\ Len(p) = n - c
        /\ \A i \in 1..Len(p) : p[i] \notin gone /\ \E j \in 1..n : s[j] = p[i]
        /\ Distinct(s) => Distinct(p)
    BY <2>4 DEF LeftOK
  <2>7. \A j \in 1..n : j \in 1..m /\ j # m
    BY <2>2
  <2>8. m \in 1..m
    BY <2>2
  <2>f. SUFFICES /\ Len(r) = m - d
                 /\ \A i \in 1..Len(r) : r[i] \notin gone /\ \E j \in 1..m : s[j] = r[i]
                 /\ Distinct(s) => Distinct(r)
    BY DEF LeftOK
  <2> HIDE DEF r, p, m, x, c, d
  <2>9. CASE x \in gone
    <3>1. r = p /\ d = c + 1
      BY <2>3, <2>5, <2>9 DEF Grows
    <3>2. Len(r) = m - d
      BY <3>1, <2>2, <2>5, <2>6 DEF m
    <3>3. \A i \in 1..Len(r) : r[i] \notin gone /\ \E j \in 1..m : s[j] = r[i]
      BY <3>1, <2>6, <2>7
    <3> QED BY <3>1, <3>2, <3>3, <2>6
  <2>10. CASE x \notin gone
    <3>1. r = Append(p, x) /\ d = c
      BY <2>3, <2>5, <2>10 DEF Grows
    <3>2. /\ Len(r) = Len(p) + 1
          /\ Len(p) \in Nat
          /\ \A i \in 1..Len(p) : r[i] = p[i]
          /\ r[Len(p) + 1] = x
      BY <3>1, <2>3, AppendProperties
    <3>3. x = s[m]
      BY DEF x
    <3>4. Len(r) = m - d
      BY <3>1, <3>2, <2>2, <2>5, <2>6
    <3>5. \A i \in 1..Len(r) : i \in 1..Len(p) \/ i = Len(p) + 1
      BY <3>2
    <3>6. \A i \in 1..Len(r) : r[i] \notin gone /\ \E j \in 1..m : s[j] = r[i]
      BY <3>2, <3>3, <3>5, <2>6, <2>7, <2>8, <2>10
    <3>7. ASSUME Distinct(s) PROVE Distinct(r)
      <4>1. ASSUME NEW i \in 1..Len(p) PROVE p[i] # x
        <5>1. PICK j \in 1..n : s[j] = p[i]
          BY <2>6
        <5>2. j \in 1..Len(s) /\ m \in 1..Len(s) /\ j # m
          BY <2>2, <2>7
        <5>3. s[j] # s[m]
          BY <5>2, <3>7 DEF Distinct
        <5> QED BY <5>1, <5>3, <3>3
      <4>2. Distinct(p)
        BY <3>7, <2>6
      <4>3. ASSUME NEW i \in 1..Len(r), NEW j \in 1..Len(r), r[i] = r[j] PROVE i = j
        BY <4>1, <4>2, <4>3, <3>2, <3>5 DEF Distinct
      <4> QED BY <4>3 DEF Distinct
    <3> QED BY <3>4, <3>6, <3>7
  <2> QED BY <2>9, <2>10
<1>3. Nat \subseteq T
  <2> HIDE DEF T
  <2> QED BY <1>1, <1>2, SetInduction
<1> QED BY <1>3

(* What is left of a prefix is a prefix of what is left.                   *)
LEMMA RunPrefix ==
    ASSUME NEW S, NEW s \in Seq(S), NEW gone, NEW f, RetainRun(Len(s), f, s, gone, S),
           NEW k \in 0..Len(s)
    PROVE  Len(f[k]) <= Len(f[Len(s)]) /\ f[k] = SubSeq(f[Len(s)], 1, Len(f[k]))
<1> DEFINE Before(r) == Len(f[k]) <= Len(r) /\ \A i \in 1..Len(f[k]) : f[k][i] = r[i]
           T == {n \in Nat : k + n <= Len(s) => Before(f[k + n])}
<1>0. \A i \in 0..Len(s) : f[i] \in Seq(S)
  BY DEF RetainRun
<1>1. 0 \in T
  <2>1. k + 0 = k /\ f[k] \in Seq(S)
    BY <1>0
  <2> QED BY <2>1
<1>2. ASSUME NEW n \in Nat, n \in T PROVE n + 1 \in T
  <2>1. SUFFICES ASSUME k + (n + 1) <= Len(s) PROVE Before(f[k + (n + 1)])
    OBVIOUS
  <2> DEFINE m == k + (n + 1)
             p == f[k + n]
             r == f[m]
  <2>2. m \in 1..Len(s) /\ k + n \in 0..Len(s) /\ m - 1 = k + n /\ k + n <= Len(s)
    BY <2>1
  <2>3. Grows(r, p, s[m], gone)
    <3>1. Grows(f[m], f[m - 1], s[m], gone)
      BY <2>2 DEF RetainRun
    <3> QED BY <3>1, <2>2
  <2>4. p \in Seq(S) /\ s[m] \in S /\ f[k] \in Seq(S) /\ Len(f[k]) \in Nat
    BY <2>2, <1>0
  <2>5. Before(p)
    BY <1>2, <2>2
  <2> HIDE DEF p, r, m
  <2>6. r = p \/ r = Append(p, s[m])
    BY <2>3 DEF Grows
  <2>7. Len(r) >= Len(p) /\ \A i \in 1..Len(p) : r[i] = p[i]
    BY <2>4, <2>6, AppendProperties
  <2>8. Before(r)
    BY <2>4, <2>5, <2>7
  <2> QED BY <2>8 DEF r, m
<1>3. Nat \subseteq T
  <2> HIDE DEF T
  <2> QED BY <1>1, <1>2, SetInduction
<1>4. Before(f[Len(s)])
  <2>1. Len(s) - k \in Nat /\ k + (Len(s) - k) = Len(s)
    OBVIOUS
  <2>2. Len(s) - k \in T
    BY <2>1, <1>3
  <2> QED BY <2>1, <2>2
<1>5. f[k] \in Seq(S) /\ f[Len(s)] \in Seq(S)
  BY <1>0
<1> DEFINE a == f[k]
           b == f[Len(s)]
<1>6. a \in Seq(S) /\ b \in Seq(S) /\ Len(a) <= Len(b) /\ \A i \in 1..Len(a) : a[i] = b[i]
  BY <1>4, <1>5
<1> HIDE DEF a, b
<1>7. a = SubSeq(b, 1, Len(a))
  <2>1. 1 \in 1..(Len(b) + 1) /\ Len(a) \in (1 - 1)..Len(b)
    BY <1>6
  <2>2. /\ SubSeq(b, 1, Len(a)) \in Seq(S)
        /\ Len(SubSeq(b, 1, Len(a))) = Len(a)
        /\ \A i \in 1..Len(a) : SubSeq(b, 1, Len(a))[i] = b[i]
    BY <1>6, <2>1
  <2> QED BY <1>6, <2>2, SeqEqual
<1> QED BY <1>6, <1>7 DEF a, b

LEMMA RetainFacts ==
    ASSUME NEW S, NEW s \in Seq(S), NEW gone, NEW k \in 0..Len(s)
    PROVE  /\ Retain(s, gone) \in Seq(S)
           /\ k - Cardinality(Lost(s, k, gone)) \in 0..Len(Retain(s, gone))
           /\ Retain(SubSeq(s, 1, k), gone) =
                  SubSeq(Retain(s, gone), 1, k - Cardinality(Lost(s, k, gone)))
           /\ \A i \in 1..Len(Retain(s, gone)) :
                  /\ Retain(s, gone)[i] \notin gone
                  /\ \E j \in 1..Len(s) : s[j] = Retain(s, gone)[i]
           /\ Distinct(s) => Distinct(Retain(s, gone))
<1>1. PICK f : RetainRun(Len(s), f, s, gone, S)
  BY RetainRunExists
<1>2. Retain(s, gone) = f[Len(s)]
  BY <1>1, RetainOfRun
<1>3. Len(s) \in 0..Len(s) /\ Len(s) \in Nat
  OBVIOUS
<1>4. f[k] \in Seq(S) /\ f[Len(s)] \in Seq(S)
  BY <1>1, <1>3 DEF RetainRun
<1>5. LeftOK(f[k], s, k, gone) /\ LeftOK(f[Len(s)], s, Len(s), gone)
  BY <1>1, <1>3, RunFacts
<1>6. Len(f[k]) = k - Cardinality(Lost(s, k, gone)) /\ Len(f[k]) \in Nat
  BY <1>4, <1>5 DEF LeftOK
<1>7. Len(f[k]) <= Len(f[Len(s)]) /\ f[k] = SubSeq(f[Len(s)], 1, Len(f[k]))
  BY <1>1, RunPrefix
<1>8. Retain(SubSeq(s, 1, k), gone) = f[k]
  <2> DEFINE p == SubSeq(s, 1, k)
             g == [i \in 0..k |-> f[i]]
  <2>1. p \in Seq(S) /\ Len(p) = k /\ \A i \in 1..k : p[i] = s[i]
    OBVIOUS
  <2> HIDE DEF p
  <2>2. g \in [0..k -> Seq(S)] /\ g[0] = <<>>
    BY <1>1 DEF RetainRun
  <2>3. ASSUME NEW i \in 1..k PROVE Grows(g[i], g[i - 1], p[i], gone)
    <3>1. g[i] = f[i] /\ g[i - 1] = f[i - 1] /\ p[i] = s[i] /\ i \in 1..Len(s)
      BY <2>1
    <3> QED BY <3>1, <1>1 DEF RetainRun
  <2>4. g[k] = f[k]
    OBVIOUS
  <2> HIDE DEF g
  <2>5. RetainRun(Len(p), g, p, gone, S)
    BY <2>1, <2>2, <2>3 DEF RetainRun
  <2>6. Retain(p, gone) = g[Len(p)]
    BY <2>1, <2>5, RetainOfRun
  <2> QED BY <2>1, <2>4, <2>6 DEF p
<1>9. /\ \A i \in 1..Len(f[Len(s)]) :
            f[Len(s)][i] \notin gone /\ \E j \in 1..Len(s) : s[j] = f[Len(s)][i]
      /\ Distinct(s) => Distinct(f[Len(s)])
  BY <1>5 DEF LeftOK
<1>10. k - Cardinality(Lost(s, k, gone)) \in 0..Len(f[Len(s)])
  BY <1>4, <1>6, <1>7
<1> QED BY <1>2, <1>4, <1>6, <1>7, <1>8, <1>9, <1>10

(* A search goes on when handles go: nothing is lost or returned again.    *)
LEMMA SearchGoesOn ==
    ASSUME NEW operation, NEW returned, NEW alive, NEW now, NEW gone,
           Searching(operation, returned, alive), alive \ gone \subseteq now
    PROVE  Searching(remove_object_handle(operation, gone), Retain(returned, gone), now)
<1>1. CASE operation = NoFind
  BY <1>1 DEF Searching, remove_object_handle
<1>2. CASE operation # NoFind
  <2> DEFINE s == operation.objects
             k == operation.next
             o == remove_object_handle(operation, gone)
             r == Retain(s, gone)
             n == k - Cardinality(Lost(s, k, gone))
  <2>1. /\ s \in Seq(Handle) /\ k \in 0..Len(s) /\ Distinct(s)
        /\ \A i \in 1..Len(s) : s[i] \in alive
        /\ returned = SubSeq(s, 1, k)
    BY <1>2 DEF Searching
  <2>2. o = [objects |-> r, next |-> n]
    BY <1>2 DEF remove_object_handle, Lost
  <2> HIDE DEF s, k, o, r, n
  <2>3. /\ r \in Seq(Handle)
        /\ n \in 0..Len(r)
        /\ Retain(SubSeq(s, 1, k), gone) = SubSeq(r, 1, n)
        /\ \A i \in 1..Len(r) : r[i] \notin gone /\ \E j \in 1..Len(s) : s[j] = r[i]
        /\ Distinct(r)
    <3>1. /\ Retain(s, gone) \in Seq(Handle)
          /\ k - Cardinality(Lost(s, k, gone)) \in 0..Len(Retain(s, gone))
          /\ Retain(SubSeq(s, 1, k), gone) =
                 SubSeq(Retain(s, gone), 1, k - Cardinality(Lost(s, k, gone)))
          /\ \A i \in 1..Len(Retain(s, gone)) :
                 /\ Retain(s, gone)[i] \notin gone
                 /\ \E j \in 1..Len(s) : s[j] = Retain(s, gone)[i]
          /\ Distinct(s) => Distinct(Retain(s, gone))
      BY <2>1, RetainFacts, Zenon
    <3> QED BY <2>1, <3>1, Zenon DEF r, n
  <2>4. \A i \in 1..Len(r) : r[i] \in now
    BY <2>1, <2>3
  <2>5. n \in Nat
    BY <2>3
  <2>6. o.objects = r /\ o.next = n /\ o \in [objects : Seq(Handle), next : Nat]
    BY <2>2, <2>3, <2>5
  <2>7. Searching(o, Retain(returned, gone), now)
    BY <2>1, <2>3, <2>4, <2>6 DEF Searching
  <2> QED BY <2>7 DEF o
<1> QED BY <1>1, <1>2

(* A search that begins has the handles that match.                        *)
LEMMA AscendingFacts ==
    ASSUME NEW S, S \subseteq Handle
    PROVE  /\ Ascending(S) \in Seq(Handle)
           /\ Distinct(Ascending(S))
           /\ \A i \in 1..Len(Ascending(S)) : Ascending(S)[i] \in S
<1> DEFINE all == [h \in Handle |-> h]
<1>1. MaxHandle \in Nat
  BY ObjectsAssumption
<1>2. all \in Seq(Handle) /\ Len(all) = MaxHandle
  <2>1. all \in [1..MaxHandle -> Handle]
    BY DEF Handle
  <2> QED BY <1>1, <2>1, IsASeq DEF Handle
<1>3. \A i \in 1..MaxHandle : all[i] = i
  BY DEF Handle
<1>4. Ascending(S) = Retain(all, Handle \ S)
  BY DEF Ascending
<1> HIDE DEF all
<1>5. Distinct(all)
  BY <1>2, <1>3 DEF Distinct
<1>6. 0 \in 0..Len(all)
  BY <1>1, <1>2
<1> DEFINE r == Retain(all, Handle \ S)
<1>7. /\ r \in Seq(Handle)
      /\ \A i \in 1..Len(r) : r[i] \notin Handle \ S
      /\ Distinct(r)
  BY <1>2, <1>5, <1>6, RetainFacts
<1> HIDE DEF r
<1>8. \A i \in 1..Len(r) : r[i] \in S
  BY <1>7
<1> QED BY <1>4, <1>7, <1>8 DEF r

(* A search that returns more.                                             *)
LEMMA SearchAdvances ==
    ASSUME NEW operation, NEW returned, NEW alive, NEW count \in Nat,
           operation # NoFind, Searching(operation, returned, alive),
           count <= Len(operation.objects) - operation.next
    PROVE  LET s == operation.objects
               k == operation.next
           IN  /\ k + count \in 0..Len(s)
               /\ returned \o SubSeq(s, k + 1, k + count) = SubSeq(s, 1, k + count)
<1> DEFINE s == operation.objects
           k == operation.next
<1>1. s \in Seq(Handle) /\ k \in 0..Len(s) /\ returned = SubSeq(s, 1, k) /\ count <= Len(s) - k
  BY DEF Searching
<1> HIDE DEF s, k
<1>2. /\ k + count \in k..Len(s) /\ k + count \in 0..Len(s)
      /\ 1 \in 1..(Len(s) + 1) /\ k \in (1 - 1)..Len(s)
  BY <1>1
<1> DEFINE n == k + count
<1>3. SubSeq(s, 1, k) \o SubSeq(s, k + 1, n) = SubSeq(s, 1, n)
  <2>1. n \in k..Len(s)
    BY <1>2
  <2> HIDE DEF n
  <2> QED BY <1>1, <1>2, <2>1, ConcatAdjacentSubSeq
<1> QED BY <1>1, <1>2, <1>3 DEF s, k

-----------------------------------------------------------------------------
(* The tables of handles.                                                  *)

LEMMA SetInOrder ==
    ASSUME NEW S, IsFiniteSet(S)
    PROVE  SetToSeq(S) \in Seq(S) /\ Distinct(SetToSeq(S))
<1> DEFINE k == Cardinality(S)
           f == SetToSeq(S)
<1>1. k \in Nat /\ ExistsBijection(1..k, S)
  BY FS_CardinalityType
<1>2. \E g \in [1..k -> S] : IsInjective(g)
  BY <1>1 DEF ExistsBijection, Bijection, Injection, IsInjective
<1>3. f \in [1..k -> S] /\ IsInjective(f)
  BY <1>2 DEF SetToSeq
<1> HIDE DEF f, k
<1>4. f \in Seq(S) /\ Len(f) = k /\ DOMAIN f = 1..k
  BY <1>1, <1>3, LenProperties
<1>5. Distinct(f)
  BY <1>3, <1>4 DEF IsInjective, Distinct
<1> QED BY <1>4, <1>5 DEF f

(* Every new object comes once in the order of the card.                   *)
LEMMA InCardOrderFacts ==
    ASSUME NEW new, new \subseteq Uids, IsFiniteSet(new)
    PROVE  InCardOrder(new) \in Seq(new) /\ Distinct(InCardOrder(new))
<1> DEFINE S == {id[1] : id \in new \cap KeyIds}
           slots == SetToSeq(S)
           T == new \cap Contents
           stored == SetToSeq(T)
           onCard == [i \in DOMAIN slots |-> CHOOSE id \in new \cap KeyIds : id[1] = slots[i]]
           n == Len(onCard)
           m == Len(stored)
           all == onCard \o stored
<1>1. IsFiniteSet(S) /\ IsFiniteSet(T)
  <2>1. S \subseteq KeySlots
    BY DEF KeyIds
  <2>2. T \subseteq new
    OBVIOUS
  <2> QED BY <2>1, <2>2, ObjectsAssumption, FS_Subset
<1>2. slots \in Seq(S) /\ Distinct(slots) /\ stored \in Seq(T) /\ Distinct(stored)
  BY <1>1, SetInOrder
<1> HIDE DEF slots, stored
<1>3. DOMAIN slots = 1..Len(slots) /\ Len(slots) \in Nat /\ m \in Nat
  BY <1>2
<1>4. ASSUME NEW i \in 1..Len(slots)
      PROVE  onCard[i] \in new \cap KeyIds /\ onCard[i][1] = slots[i]
  <2>1. slots[i] \in S
    BY <1>2
  <2>2. \E id \in new \cap KeyIds : id[1] = slots[i]
    BY <2>1
  <2>3. onCard[i] = CHOOSE id \in new \cap KeyIds : id[1] = slots[i]
    BY <1>3
  <2> QED BY <2>2, <2>3
<1>5. onCard \in [1..Len(slots) -> new]
  <2>1. onCard = [i \in 1..Len(slots) |-> onCard[i]]
    BY <1>3
  <2> HIDE DEF onCard
  <2> QED BY <1>4, <2>1
<1> HIDE DEF onCard, S
<1>6. onCard \in Seq(new) /\ n = Len(slots)
  BY <1>3, <1>5, IsASeq, LenProperties
<1>7. \A i \in 1..m : stored[i] \in new /\ stored[i] \in Contents
  BY <1>2
<1>8. stored \in Seq(new)
  BY <1>2, SeqMonotonic
<1> HIDE DEF n, m
<1>9. /\ all \in Seq(new) /\ Len(all) = n + m
      /\ \A i \in 1..(n + m) : all[i] = IF i <= n THEN onCard[i] ELSE stored[i - n]
  BY <1>6, <1>8, ConcatProperties DEF n, m
<1>10. InCardOrder(new) = all
  BY DEF InCardOrder, onCard, stored, slots, S
<1> HIDE DEF all
<1>11. n \in Nat
  BY <1>3, <1>6
<1>12. \A i, j \in 1..n : onCard[i] = onCard[j] => i = j
  BY <1>2, <1>4, <1>6 DEF Distinct
<1>13. \A i, j \in 1..m : stored[i] = stored[j] => i = j
  BY <1>2 DEF Distinct, m
<1>14. \A i \in 1..n, j \in 1..m : onCard[i] # stored[j]
  <2>1. KeyIds \cap Contents = {}
    BY ObjectsAssumption DEF KeyIds
  <2> QED BY <2>1, <1>4, <1>6, <1>7
<1>15. ASSUME NEW i \in 1..(n + m), NEW j \in 1..(n + m), all[i] = all[j]
       PROVE  i = j
  <2>1. \A x \in 1..(n + m) : x <= n => x \in 1..n /\ all[x] = onCard[x]
    BY <1>3, <1>9, <1>11
  <2>2. \A x \in 1..(n + m) : ~(x <= n) => x - n \in 1..m /\ all[x] = stored[x - n]
    BY <1>3, <1>9, <1>11
  <2>3. CASE i <= n /\ j <= n
    BY <2>1, <2>3, <1>12, <1>15
  <2>4. CASE i <= n /\ ~(j <= n)
    BY <2>1, <2>2, <2>4, <1>14, <1>15
  <2>5. CASE ~(i <= n) /\ j <= n
    BY <2>1, <2>2, <2>5, <1>14, <1>15
  <2>6. CASE ~(i <= n) /\ ~(j <= n)
    <3>1. i - n = j - n
      BY <2>2, <2>6, <1>13, <1>15
    <3> QED BY <3>1, <1>3, <1>11
  <2> QED BY <2>3, <2>4, <2>5, <2>6
<1> QED BY <1>9, <1>10, <1>15 DEF Distinct

(* What the handles of a table are given out for.                          *)
Names(table) ==
    [h \in DOMAIN table |-> IF h \in DOMAIN given THEN given[h] ELSE Identity(table[h])]

(* The tables that a call publishes are in order, and so are the searches. *)
LEMMA PublishKeeps ==
    ASSUME ObjectsInv, NEW t, NEW b, NEW m, Publish(t, b, m),
           Tables(t, b, m, next'), Behind(b, m, storage'), Named(t, Names(t)),
           Stored(keys', store', references', cache', storage', failures')
    PROVE  ObjectsInv'
<1> DEFINE gone == Live \ (DOMAIN t \cup DOMAIN m)
<1>1. /\ handles' = t /\ backed' = Without(b, gone) /\ memory' = m
      /\ find' = [s \in Sessions |-> remove_object_handle(find[s], gone)]
      /\ given' = Names(t)
      /\ seen' = [s \in Sessions |-> Retain(seen[s], gone)]
  BY DEF Publish, Names
<1>2. Live' = DOMAIN t \cup DOMAIN m
  BY <1>1 DEF Live
<1>3. Live \ gone \subseteq Live' /\ gone \cap DOMAIN m = {}
  BY <1>2
<1> HIDE DEF gone
<1>4. Tables(handles', backed', memory', next')
  <2>1. /\ Without(b, gone) \in [DOMAIN Without(b, gone) -> Contents]
        /\ DOMAIN Without(b, gone) \subseteq Handle
    BY DEF Without, Tables
  <2> QED BY <1>1, <2>1 DEF Tables
<1>5. Behind(backed', memory', storage')
  BY <1>1, <1>3 DEF Behind, Without
<1>6. Named(handles', given')
  BY <1>1
<1>7. ASSUME NEW s \in Sessions PROVE Searching(find'[s], seen'[s], Live')
  <2>1. Searching(find[s], seen[s], Live)
    BY DEF ObjectsInv
  <2>2. Searching(remove_object_handle(find[s], gone), Retain(seen[s], gone), Live')
    BY <2>1, <1>3, SearchGoesOn
  <2> QED BY <2>2, <1>1
<1>8. find' = [s \in Sessions |-> find'[s]] /\ seen' = [s \in Sessions |-> seen'[s]]
  BY <1>1
<1> QED BY <1>4, <1>5, <1>6, <1>7, <1>8, Zenon DEF ObjectsInv

(* t is a part of the token handles.                                       *)
Part(t) ==
    /\ t = [h \in DOMAIN t |-> t[h]]
    /\ DOMAIN t \subseteq DOMAIN handles
    /\ \A h \in DOMAIN t : t[h] = handles[h]

(* The handle of a key is bound to the key again, and no other one is.     *)
Rebinds(t, rebindings) ==
    /\ DOMAIN rebindings \subseteq DOMAIN t
    /\ rebindings \in [DOMAIN rebindings -> Uids]
    /\ \A h \in DOMAIN rebindings : given[h] \in Keys =>
        /\ rebindings[h] \in KeyIds /\ rebindings[h][2] = given[h]
        /\ \A x \in DOMAIN rebindings : given[x] \in Keys => x = h

LEMMA KeptFacts ==
    ASSUME ObjectsInv, NEW t, NEW rebindings, NEW listed,
           Part(t), Rebinds(t, rebindings)
    PROVE  LET kept == Kept(t, rebindings, listed)
           IN  /\ kept \in [DOMAIN kept -> Uids]
               /\ DOMAIN kept \subseteq DOMAIN t
               /\ Named(kept, Names(kept))
<1> DEFINE lost == Conflicts(t, rebindings)
           bound == With(Without(t, lost), rebindings)
           kept == Kept(t, rebindings, listed)
<1>1. /\ DOMAIN kept \subseteq DOMAIN bound
      /\ kept = [h \in DOMAIN kept |-> kept[h]]
      /\ \A h \in DOMAIN kept : kept[h] = bound[h]
  BY DEF Kept
<1>2. /\ DOMAIN bound \subseteq DOMAIN t
      /\ \A h \in DOMAIN bound :
            \/ h \in DOMAIN rebindings /\ bound[h] = rebindings[h]
            \/ h \notin DOMAIN rebindings /\ h \notin lost /\ bound[h] = handles[h]
  BY DEF With, Without, Part, Rebinds
<1>3. \A h \in DOMAIN t : h \notin DOMAIN rebindings /\ h \notin lost =>
          \A x \in DOMAIN rebindings : rebindings[x] # handles[h]
  BY DEF Conflicts, Range, Part
<1> HIDE DEF bound, lost, kept
<1>4. DOMAIN given = DOMAIN handles /\ handles \in [DOMAIN handles -> Uids]
  BY DEF ObjectsInv, Named, Tables
<1>5. DOMAIN kept \subseteq DOMAIN t /\ DOMAIN t \subseteq DOMAIN handles
  BY <1>1, <1>2 DEF Part
<1>6. ASSUME NEW h \in DOMAIN kept PROVE kept[h] \in Uids
  BY <1>1, <1>2, <1>4, <1>5 DEF Rebinds
<1>7. DOMAIN Names(kept) = DOMAIN kept /\ \A h \in DOMAIN kept : Names(kept)[h] = given[h]
  BY <1>4, <1>5 DEF Names
<1>8. ASSUME NEW h \in DOMAIN kept, given[h] \in Keys
      PROVE  kept[h] \in KeyIds /\ kept[h][2] = given[h]
  <2>1. CASE h \in DOMAIN rebindings
    BY <2>1, <1>1, <1>2, <1>8 DEF Rebinds
  <2>2. CASE h \notin DOMAIN rebindings
    <3>1. kept[h] = handles[h] /\ h \in DOMAIN handles
      BY <2>2, <1>1, <1>2, <1>5
    <3> QED BY <3>1, <1>8 DEF ObjectsInv, Named
  <2> QED BY <2>1, <2>2
<1>9. ASSUME NEW h \in DOMAIN kept, NEW x \in DOMAIN kept,
             given[h] \in Keys, given[x] \in Keys, kept[x] = kept[h]
      PROVE  x = h
  <2>0. h \in DOMAIN handles /\ x \in DOMAIN handles /\ h \in DOMAIN t /\ x \in DOMAIN t
    BY <1>5
  <2>1. CASE h \in DOMAIN rebindings /\ x \in DOMAIN rebindings
    BY <2>1, <1>9 DEF Rebinds
  <2>2. CASE h \in DOMAIN rebindings /\ x \notin DOMAIN rebindings
    BY <2>0, <2>2, <1>1, <1>2, <1>3, <1>9
  <2>3. CASE h \notin DOMAIN rebindings /\ x \in DOMAIN rebindings
    BY <2>0, <2>3, <1>1, <1>2, <1>3, <1>9
  <2>4. CASE h \notin DOMAIN rebindings /\ x \notin DOMAIN rebindings
    <3>1. kept[h] = handles[h] /\ kept[x] = handles[x]
      BY <2>4, <1>1, <1>2
    <3> QED BY <2>0, <3>1, <1>9 DEF ObjectsInv, Named
  <2> QED BY <2>1, <2>2, <2>3, <2>4
<1>10. kept \in [DOMAIN kept -> Uids]
  BY <1>1, <1>6
<1>11. Named(kept, Names(kept))
  BY <1>7, <1>8, <1>9 DEF Named
<1> QED BY <1>5, <1>10, <1>11 DEF kept

(* The handles that a listing allocates are new, one for every new object. *)
LEMMA AllocatedFacts ==
    ASSUME NEW new, next \in 1..(MaxHandle + 1), NEW s \in Seq(new), Distinct(s), Spend(s)
    PROVE  LET fresh == Allocated(s)
           IN  /\ next' \in 1..(MaxHandle + 1) /\ next <= next'
               /\ fresh \in [DOMAIN fresh -> new]
               /\ DOMAIN fresh \subseteq 1..(next' - 1)
               /\ \A h \in DOMAIN fresh : h >= next
               /\ \A h, x \in DOMAIN fresh : fresh[h] = fresh[x] => h = x
<1> DEFINE n == Len(s)
           fresh == Allocated(s)
<1>1. n \in Nat /\ next' = next + n /\ next + n <= MaxHandle + 1 /\ MaxHandle \in Nat
  BY ObjectsAssumption DEF Spend
<1>2. fresh = [h \in next..(next + n - 1) |-> s[h - next + 1]]
  BY DEF Allocated
<1>3. \A h \in next..(next + n - 1) : h - next + 1 \in 1..n
  BY <1>1
<1>4. \A i \in 1..n : s[i] \in new
  OBVIOUS
<1> HIDE DEF n, fresh
<1>5. DOMAIN fresh = next..(next + n - 1) /\ \A h \in DOMAIN fresh : fresh[h] \in new
  BY <1>2, <1>3, <1>4
<1>6. ASSUME NEW h \in DOMAIN fresh, NEW x \in DOMAIN fresh, fresh[h] = fresh[x]
      PROVE  h = x
  <2>1. h \in next..(next + n - 1) /\ x \in next..(next + n - 1)
    BY <1>5
  <2>2. s[h - next + 1] = s[x - next + 1]
    BY <2>1, <1>2, <1>6
  <2>3. h - next + 1 = x - next + 1
    BY <2>1, <2>2, <1>3 DEF Distinct, n
  <2> QED BY <2>1, <2>3, <1>1
<1>7. fresh \in [DOMAIN fresh -> new]
  BY <1>2, <1>5
<1>8. next' \in 1..(MaxHandle + 1) /\ next <= next'
  BY <1>1
<1>9. DOMAIN fresh \subseteq 1..(next' - 1) /\ \A h \in DOMAIN fresh : h >= next
  BY <1>1, <1>5
<1> QED BY <1>6, <1>7, <1>8, <1>9 DEF fresh

LEMMA RecordedFacts ==
    ASSUME NEW t, NEW b, NEW m, NEW c, c \subseteq Contents,
           b \in [DOMAIN b -> Contents], DOMAIN b \subseteq Handle,
           DOMAIN t \subseteq Handle, DOMAIN t \cap DOMAIN m = {}
    PROVE  LET r == Recorded(t, b, c)
           IN  /\ r \in [DOMAIN r -> Contents]
               /\ DOMAIN r \subseteq Handle
               /\ DOMAIN b \subseteq DOMAIN r
               /\ \A h \in DOMAIN m : h \in DOMAIN b => r[h] = b[h]
<1> DEFINE g == [h \in {x \in DOMAIN t : t[x] \in c} |-> t[h]]
           r == Recorded(t, b, c)
<1>1. r = With(b, g)
  BY DEF Recorded
<1>2. DOMAIN g \subseteq DOMAIN t /\ \A h \in DOMAIN g : g[h] \in c
  OBVIOUS
<1> HIDE DEF g
<1>3. r = [x \in DOMAIN b \cup DOMAIN g |-> IF x \in DOMAIN g THEN g[x] ELSE b[x]]
  BY <1>1 DEF With
<1> HIDE DEF r
<1> QED BY <1>2, <1>3 DEF r

(* A call that ends with a listing.                                        *)
LEMMA ReconcileKeeps ==
    ASSUME ObjectsInv, NEW t, NEW b, NEW m, NEW rebindings, NEW listed, NEW put,
           Reconcile(t, b, m, rebindings, listed, put),
           Part(t), Tables(t, b, m, next), Behind(b, m, storage'), Rebinds(t, rebindings),
           listed \subseteq Uids, IsFiniteSet(listed), put \subseteq Contents,
           Stored(keys', store', references', cache', storage', failures')
    PROVE  ObjectsInv'
<1> DEFINE kept == Kept(t, rebindings, listed)
           new == listed \ Range(kept)
           s == InCardOrder(new)
           fresh == Allocated(s)
           all == With(kept, fresh)
           behind == Recorded(all, b, put)
<1>1. Spend(s) /\ Publish(all, behind, m)
  BY DEF Reconcile
<1>2. kept \in [DOMAIN kept -> Uids] /\ DOMAIN kept \subseteq DOMAIN t /\ Named(kept, Names(kept))
  BY KeptFacts
<1> HIDE DEF kept
<1>3. s \in Seq(new) /\ Distinct(s)
  <2>1. new \subseteq Uids /\ IsFiniteSet(new)
    BY FS_Difference
  <2> QED BY <2>1, InCardOrderFacts
<1>4. next \in 1..(MaxHandle + 1)
  BY DEF Tables
<1> HIDE DEF s
<1>5. /\ next' \in 1..(MaxHandle + 1) /\ next <= next'
      /\ fresh \in [DOMAIN fresh -> new]
      /\ DOMAIN fresh \subseteq 1..(next' - 1)
      /\ \A h \in DOMAIN fresh : h >= next
      /\ \A h, x \in DOMAIN fresh : fresh[h] = fresh[x] => h = x
  BY <1>1, <1>3, <1>4, AllocatedFacts
<1> HIDE DEF fresh
<1>6. \A h \in DOMAIN fresh :
          h \notin DOMAIN t /\ h \notin DOMAIN m /\ h \notin DOMAIN handles
  <2>1. DOMAIN t \cup DOMAIN m \cup DOMAIN handles \subseteq 1..(next - 1)
    BY DEF ObjectsInv, Tables
  <2> QED BY <2>1, <1>4, <1>5
<1>7. /\ DOMAIN all = DOMAIN kept \cup DOMAIN fresh
      /\ all = [h \in DOMAIN all |-> all[h]]
      /\ \A h \in DOMAIN kept : all[h] = kept[h]
      /\ \A h \in DOMAIN fresh : all[h] = fresh[h]
  BY <1>2, <1>6 DEF With
<1> HIDE DEF all
<1>8. \A h \in DOMAIN fresh : fresh[h] \in Uids /\ \A x \in DOMAIN kept : fresh[h] # kept[x]
  BY <1>5 DEF Range
<1>9. /\ all \in [DOMAIN all -> Uids]
      /\ DOMAIN all \subseteq 1..(next' - 1) /\ DOMAIN all \subseteq Handle
      /\ DOMAIN all \cap DOMAIN m = {}
      /\ DOMAIN m \subseteq 1..(next' - 1)
  <2>1. \A h \in DOMAIN all : all[h] \in Uids
    BY <1>2, <1>7, <1>8
  <2>2. DOMAIN t \subseteq 1..(next - 1) /\ DOMAIN m \subseteq 1..(next - 1)
        /\ DOMAIN t \cap DOMAIN m = {}
    BY DEF Tables
  <2>3. MaxHandle \in Nat
    BY ObjectsAssumption
  <2>4. 1..(next - 1) \subseteq 1..(next' - 1) /\ 1..(next' - 1) \subseteq 1..MaxHandle
    BY <2>3, <1>4, <1>5
  <2>5. DOMAIN all \subseteq 1..(next' - 1) /\ DOMAIN all \cap DOMAIN m = {}
    BY <2>2, <2>4, <1>2, <1>5, <1>6, <1>7
  <2> QED BY <2>1, <2>2, <2>4, <2>5, <1>7 DEF Handle
<1>10. /\ behind \in [DOMAIN behind -> Contents] /\ DOMAIN behind \subseteq Handle
       /\ DOMAIN b \subseteq DOMAIN behind
       /\ \A h \in DOMAIN m : h \in DOMAIN b => behind[h] = b[h]
  <2>1. b \in [DOMAIN b -> Contents] /\ DOMAIN b \subseteq Handle
    BY DEF Tables
  <2> QED BY <2>1, <1>9, RecordedFacts
<1> HIDE DEF behind
<1>11. Tables(all, behind, m, next')
  BY <1>5, <1>9, <1>10 DEF Tables
<1>12. Behind(behind, m, storage')
  BY <1>10 DEF Behind
<1>13. Named(all, Names(all))
  <2>1. DOMAIN given = DOMAIN handles
    BY DEF ObjectsInv, Named
  <2>2. /\ DOMAIN Names(all) = DOMAIN all
        /\ DOMAIN Names(kept) = DOMAIN kept
        /\ \A h \in DOMAIN kept : Names(all)[h] = Names(kept)[h]
        /\ \A h \in DOMAIN fresh : Names(all)[h] = Identity(fresh[h])
    BY <2>1, <1>6, <1>7 DEF Names
  <2>3. ASSUME NEW h \in DOMAIN fresh, Identity(fresh[h]) \in Keys
        PROVE  fresh[h] \in KeyIds /\ fresh[h][2] = Identity(fresh[h])
    BY <2>3, <1>8, ObjectsAssumption DEF Identity, Uids
  <2>4. ASSUME NEW h \in DOMAIN all, Names(all)[h] \in Keys
        PROVE  all[h] \in KeyIds /\ all[h][2] = Names(all)[h]
    <3>1. CASE h \in DOMAIN kept
      BY <3>1, <2>2, <2>4, <1>2, <1>7 DEF Named
    <3>2. CASE h \in DOMAIN fresh
      BY <3>2, <2>2, <2>3, <2>4, <1>7
    <3> QED BY <3>1, <3>2, <1>7
  <2>5. ASSUME NEW h \in DOMAIN all, NEW x \in DOMAIN all, all[x] = all[h],
               Names(all)[h] \in Keys, Names(all)[x] \in Keys
        PROVE  x = h
    <3>1. CASE h \in DOMAIN kept /\ x \in DOMAIN kept
      BY <3>1, <2>2, <2>5, <1>2, <1>7 DEF Named
    <3>2. CASE h \in DOMAIN fresh /\ x \in DOMAIN fresh
      BY <3>2, <2>5, <1>5, <1>7
    <3>3. CASE h \in DOMAIN kept /\ x \in DOMAIN fresh
      BY <3>3, <2>5, <1>7, <1>8
    <3>4. CASE h \in DOMAIN fresh /\ x \in DOMAIN kept
      BY <3>4, <2>5, <1>7, <1>8
    <3> QED BY <3>1, <3>2, <3>3, <3>4, <1>7
  <2> QED BY <2>2, <2>4, <2>5 DEF Named
<1> QED BY <1>1, <1>11, <1>12, <1>13, PublishKeeps

LEMMA KeyObjectsFacts ==
    ASSUME NEW card \in [KeySlots -> Keys \cup {NoKey}]
    PROVE  KeyObjects(card) \subseteq KeyIds /\ IsFiniteSet(KeyObjects(card))
<1> DEFINE K == {x \in KeySlots : card[x] # NoKey}
           f == [k \in K |-> <<k, card[k]>>]
<1>1. IsFiniteSet(K)
  BY ObjectsAssumption, FS_Subset
<1>2. f \in Surjection(K, KeyObjects(card))
  BY DEF Surjection, KeyObjects
<1>3. IsFiniteSet(KeyObjects(card))
  BY <1>1, <1>2, FS_Surjection DEF ExistsSurjection
<1>4. \A k \in K : card[k] \in Keys
  OBVIOUS
<1>5. KeyObjects(card) \subseteq KeyIds
  BY <1>4 DEF KeyObjects, KeyIds
<1> QED BY <1>3, <1>5

LEMMA RefreshKeeps ==
    ASSUME ObjectsInv, NEW card, NEW contents, NEW t, NEW b, NEW m, NEW rebindings, NEW put,
           RefreshSlot(card, contents, t, b, m, rebindings, put),
           card \in [KeySlots -> Keys \cup {NoKey}], keys' = card,
           contents \subseteq Contents, IsFiniteSet(contents), store' = contents,
           storage' \in [Sessions -> SUBSET Contents],
           Part(t), Tables(t, b, m, next), Behind(b, m, storage'), Rebinds(t, rebindings),
           put \subseteq Contents
    PROVE  ObjectsInv'
<1> DEFINE listed == KeyObjects(card) \cup contents
           r == Recorded(t, b, contents)
<1>1. /\ references' = contents /\ cache' = contents /\ failures' = failures
      /\ Reconcile(t, r, m, rebindings, listed, put)
  BY DEF RefreshSlot
<1>2. listed \subseteq Uids /\ IsFiniteSet(listed)
  BY KeyObjectsFacts, FS_Union DEF Uids
<1>3. Stored(keys', store', references', cache', storage', failures')
  <2>1. failures \in 0..MaxFailures
    BY DEF ObjectsInv, Stored
  <2> QED BY <1>1, <2>1 DEF Stored
<1>4. /\ next \in 1..(MaxHandle + 1) /\ MaxHandle \in Nat
      /\ DOMAIN t \subseteq 1..(next - 1) /\ DOMAIN t \cap DOMAIN m = {}
      /\ b \in [DOMAIN b -> Contents] /\ DOMAIN b \subseteq Handle
  BY ObjectsAssumption DEF Tables
<1>5. DOMAIN t \subseteq Handle
  BY <1>4 DEF Handle
<1>6. /\ r \in [DOMAIN r -> Contents] /\ DOMAIN r \subseteq Handle
      /\ DOMAIN b \subseteq DOMAIN r
      /\ \A h \in DOMAIN m : h \in DOMAIN b => r[h] = b[h]
  BY <1>4, <1>5, RecordedFacts
<1> HIDE DEF r, listed
<1>7. Tables(t, r, m, next)
  BY <1>6 DEF Tables
<1>8. Behind(r, m, storage')
  BY <1>6 DEF Behind
<1> QED BY <1>1, <1>2, <1>3, <1>7, <1>8, ReconcileKeeps

LEMMA PartNamed ==
    ASSUME ObjectsInv, NEW t, Part(t)
    PROVE  Named(t, Names(t))
<1>1. DOMAIN given = DOMAIN handles
  BY DEF ObjectsInv, Named
<1>2. DOMAIN Names(t) = DOMAIN t
      /\ \A h \in DOMAIN t : Names(t)[h] = given[h] /\ t[h] = handles[h] /\ h \in DOMAIN handles
  BY <1>1 DEF Names, Part
<1> QED BY <1>2 DEF Named, ObjectsInv

LEMMA ListingFailsKeeps ==
    ASSUME ObjectsInv, NEW listed, NEW t, NEW b, NEW m,
           ListingFails(listed, t, b, m), listed \subseteq Contents,
           keys' \in [KeySlots -> Keys \cup {NoKey}],
           store' \subseteq Contents, IsFiniteSet(store'),
           storage' \in [Sessions -> SUBSET Contents],
           Part(t), Tables(t, b, m, next), Behind(b, m, storage')
    PROVE  ObjectsInv'
<1>1. /\ failures < MaxFailures /\ failures' = failures + 1
      /\ references' = listed /\ cache' = cache /\ next' = next
      /\ Publish(t, b, m)
  BY DEF ListingFails
<1>2. Stored(keys', store', references', cache', storage', failures')
  <2>1. failures \in 0..MaxFailures /\ cache \subseteq Contents
    BY DEF ObjectsInv, Stored
  <2>2. failures' \in 0..MaxFailures
    BY <2>1, <1>1, ObjectsAssumption
  <2> QED BY <1>1, <2>1, <2>2 DEF Stored
<1>3. Tables(t, b, m, next')
  BY <1>1
<1> QED BY <1>1, <1>2, <1>3, PartNamed, PublishKeeps

(* m is a part of the session objects.                                     *)
PartOfMemory(m) ==
    /\ m = [h \in DOMAIN m |-> m[h]]
    /\ DOMAIN m \subseteq DOMAIN memory
    /\ \A h \in DOMAIN m : m[h] = memory[h]

LEMMA Parts ==
    ASSUME ObjectsInv, NEW S
    PROVE  /\ Part(handles) /\ Part(Without(handles, S))
           /\ PartOfMemory(memory) /\ PartOfMemory(Without(memory, S))
           /\ DOMAIN Without(memory, S) = DOMAIN memory \ S
<1>1. handles \in [DOMAIN handles -> Uids] /\ memory \in [DOMAIN memory -> SessionObject]
  BY DEF ObjectsInv, Tables
<1> QED BY <1>1 DEF Part, PartOfMemory, Without

(* Handles and session objects may go, with what is behind the handles.    *)
LEMMA PartsInOrder ==
    ASSUME ObjectsInv, NEW t, NEW m, NEW S, Part(t), PartOfMemory(m), S \cap DOMAIN m = {}
    PROVE  /\ Tables(t, Without(backed, S), m, next)
           /\ Behind(Without(backed, S), m, storage)
           /\ Tables(t, backed, m, next)
           /\ Behind(backed, m, storage)
<1>1. Tables(handles, backed, memory, next) /\ Behind(backed, memory, storage)
  BY DEF ObjectsInv
<1>2. /\ t \in [DOMAIN t -> Uids] /\ DOMAIN t \subseteq DOMAIN handles
      /\ m \in [DOMAIN m -> SessionObject] /\ DOMAIN m \subseteq DOMAIN memory
  <2>1. handles \in [DOMAIN handles -> Uids] /\ memory \in [DOMAIN memory -> SessionObject]
    BY <1>1 DEF Tables
  <2> QED BY <2>1 DEF Part, PartOfMemory
<1>3. /\ Without(backed, S) \in [DOMAIN Without(backed, S) -> Contents]
      /\ DOMAIN Without(backed, S) \subseteq Handle
  BY <1>1 DEF Tables, Without
<1>4. Tables(t, Without(backed, S), m, next) /\ Tables(t, backed, m, next)
  BY <1>1, <1>2, <1>3 DEF Tables
<1>5. Behind(Without(backed, S), m, storage) /\ Behind(backed, m, storage)
  BY <1>1 DEF Behind, Without, PartOfMemory
<1> QED BY <1>4, <1>5

LEMMA AsItIs ==
    ASSUME ObjectsInv
    PROVE  /\ Part(handles)
           /\ Tables(handles, backed, memory, next)
           /\ Behind(backed, memory, storage)
           /\ keys \in [KeySlots -> Keys \cup {NoKey}]
           /\ store \subseteq Contents /\ IsFiniteSet(store)
           /\ references \subseteq Contents /\ cache \subseteq Contents
           /\ storage \in [Sessions -> SUBSET Contents]
           /\ DOMAIN handles \cap DOMAIN memory = {}
           /\ DOMAIN handles \subseteq Handle /\ DOMAIN memory \subseteq Handle
           /\ Rebinds(handles, <<>>)
<1>1. Tables(handles, backed, memory, next) /\ Behind(backed, memory, storage)
      /\ Stored(keys, store, references, cache, storage, failures)
  BY DEF ObjectsInv
<1>2. Part(handles)
  BY <1>1 DEF Part, Tables
<1>3. 1..(next - 1) \subseteq Handle
  BY <1>1, ObjectsAssumption DEF Tables, Handle
<1>4. DOMAIN <<>> = {} /\ <<>> \in [{} -> Uids]
  OBVIOUS
<1>5. Rebinds(handles, <<>>)
  BY <1>4 DEF Rebinds
<1> QED BY <1>1, <1>2, <1>3, <1>5 DEF Tables, Stored

-----------------------------------------------------------------------------
(* The steps.                                                              *)

(* Token handles and searches stay.                                        *)
LEMMA QuietKeeps ==
    ASSUME ObjectsInv, UNCHANGED <<handles, find, given, seen>>,
           DOMAIN memory \subseteq DOMAIN memory',
           Stored(keys', store', references', cache', storage', failures'),
           Tables(handles', backed', memory', next'), Behind(backed', memory', storage')
    PROVE  ObjectsInv'
<1>1. Live \ {} \subseteq Live'
  BY DEF Live
<1>2. ASSUME NEW s \in Sessions PROVE Searching(find'[s], seen'[s], Live')
  <2>1. Searching(find[s], seen[s], Live)
    BY DEF ObjectsInv
  <2>2. Searching(find[s], seen[s], Live')
    BY <2>1, <1>1 DEF Searching
  <2> QED BY <2>2
<1>3. Named(handles', given')
  BY DEF ObjectsInv
<1>4. find' = [s \in Sessions |-> find'[s]] /\ seen' = [s \in Sessions |-> seen'[s]]
  BY DEF ObjectsInv
<1> QED BY <1>2, <1>3, <1>4, Zenon DEF ObjectsInv

LEMMA InitKeeps ==
    ASSUME Init PROVE ObjectsInv
<1>1. DOMAIN <<>> = {} /\ \A S : <<>> \in [{} -> S]
  OBVIOUS
<1>2. Tables(handles, backed, memory, next)
  BY <1>1, ObjectsAssumption DEF Init, Tables
<1>3. Stored(keys, store, references, cache, storage, failures)
  BY FS_EmptySet, ObjectsAssumption DEF Init, Stored
<1>4. Behind(backed, memory, storage) /\ Named(handles, given)
  BY <1>1 DEF Init, Behind, Named
<1>5. find = [s \in Sessions |-> find[s]] /\ seen = [s \in Sessions |-> seen[s]]
  BY DEF Init
<1>6. \A s \in Sessions : Searching(find[s], seen[s], Live)
  BY DEF Init, Searching
<1> QED BY <1>2, <1>3, <1>4, <1>5, <1>6 DEF ObjectsInv

LEMMA RefreshStep ==
    ASSUME ObjectsInv, refresh_token_objects PROVE ObjectsInv'
<1>1. RefreshSlot(keys, store, handles, backed, memory, <<>>, {})
      /\ UNCHANGED <<keys, store, storage>>
  BY DEF refresh_token_objects
<1>2. {} \subseteq Contents
  OBVIOUS
<1> QED BY <1>1, <1>2, AsItIs, RefreshKeeps

LEMMA StoreTokenObjectStep ==
    ASSUME ObjectsInv, NEW c \in Contents, StoreTokenObject(c) PROVE ObjectsInv'
<1>1. store' = store \cup {c} /\ UNCHANGED <<keys, storage>>
  BY DEF StoreTokenObject
<1>2. store' \subseteq Contents /\ IsFiniteSet(store')
  BY <1>1, AsItIs, FS_AddElement
<1>3. CASE RefreshSlot(keys, store', handles, backed, memory, <<>>, {c})
  <2>1. {c} \subseteq Contents
    OBVIOUS
  <2> QED BY <1>1, <1>2, <1>3, <2>1, AsItIs, RefreshKeeps
<1>4. CASE ListingFails(references \cup {c}, handles, backed, memory)
  <2>1. references \cup {c} \subseteq Contents
    BY AsItIs
  <2> QED BY <1>1, <1>2, <1>4, <2>1, AsItIs, ListingFailsKeeps
<1> QED BY <1>3, <1>4 DEF StoreTokenObject

LEMMA OtherProcessDeletesStep ==
    ASSUME ObjectsInv, NEW c \in Contents, OtherProcessDeletes(c) PROVE ObjectsInv'
<1>1. /\ failures < MaxFailures /\ failures' = failures + 1 /\ store' = store \ {c}
      /\ UNCHANGED <<keys, handles, backed, references, cache, memory, storage, find, next,
                     given, seen>>
  BY DEF OtherProcessDeletes
<1>2. store' \subseteq Contents /\ IsFiniteSet(store')
  BY <1>1, AsItIs, FS_RemoveElement
<1>3. failures' \in 0..MaxFailures
  BY <1>1, ObjectsAssumption DEF ObjectsInv, Stored
<1>4. Stored(keys', store', references', cache', storage', failures')
  BY <1>1, <1>2, <1>3, AsItIs DEF Stored
<1>5. Tables(handles', backed', memory', next') /\ Behind(backed', memory', storage')
  BY <1>1, AsItIs
<1> QED BY <1>1, <1>4, <1>5, QuietKeeps

LEMMA StoreSessionObjectStep ==
    ASSUME ObjectsInv, NEW c \in Contents, NEW s \in Sessions, StoreSessionObject(s, c)
    PROVE  ObjectsInv'
<1> DEFINE new == [content |-> c, creator |-> s]
<1>1. /\ storage' = [storage EXCEPT ![s] = @ \cup {c}]
      /\ next <= MaxHandle /\ next' = next + 1
      /\ memory' = With(memory, One(next, new))
      /\ backed' = With(backed, One(next, c))
      /\ UNCHANGED <<keys, store, handles, references, cache, find, failures, given, seen>>
  BY DEF StoreSessionObject
<1>2. /\ next \in 1..(MaxHandle + 1) /\ MaxHandle \in Nat
      /\ DOMAIN handles \subseteq 1..(next - 1) /\ DOMAIN memory \subseteq 1..(next - 1)
      /\ DOMAIN handles \cap DOMAIN memory = {}
      /\ handles \in [DOMAIN handles -> Uids]
      /\ backed \in [DOMAIN backed -> Contents] /\ DOMAIN backed \subseteq Handle
      /\ memory \in [DOMAIN memory -> SessionObject]
  BY ObjectsAssumption DEF ObjectsInv, Tables
<1>3. new \in SessionObject /\ new.content = c /\ new.creator = s
  BY DEF SessionObject
<1> HIDE DEF new
<1>4. /\ DOMAIN memory' = DOMAIN memory \cup {next}
      /\ memory' = [h \in DOMAIN memory \cup {next} |-> IF h = next THEN new ELSE memory[h]]
      /\ DOMAIN backed' = DOMAIN backed \cup {next}
      /\ backed' = [h \in DOMAIN backed \cup {next} |-> IF h = next THEN c ELSE backed[h]]
  BY <1>1 DEF With, One
<1>5. /\ next \in Handle /\ next \in 1..(next' - 1) /\ next \notin 1..(next - 1)
      /\ 1..(next - 1) \subseteq 1..(next' - 1) /\ next' \in 1..(MaxHandle + 1)
  BY <1>1, <1>2 DEF Handle
<1>6. Tables(handles', backed', memory', next')
  <2>1. memory' \in [DOMAIN memory' -> SessionObject] /\ DOMAIN memory' \subseteq 1..(next' - 1)
    BY <1>2, <1>3, <1>4, <1>5
  <2>2. backed' \in [DOMAIN backed' -> Contents] /\ DOMAIN backed' \subseteq Handle
    BY <1>2, <1>4, <1>5
  <2>3. DOMAIN handles \subseteq 1..(next' - 1) /\ DOMAIN handles \cap DOMAIN memory' = {}
    BY <1>2, <1>4, <1>5
  <2> QED BY <1>1, <1>2, <1>5, <2>1, <2>2, <2>3 DEF Tables
<1>7. storage' \in [Sessions -> SUBSET Contents] /\ c \in storage'[s]
      /\ \A x \in Sessions : storage[x] \subseteq storage'[x]
  BY <1>1, AsItIs
<1>8. ASSUME NEW h \in DOMAIN memory'
      PROVE  /\ h \in DOMAIN backed' /\ backed'[h] = memory'[h].content
             /\ memory'[h].content \in storage'[memory'[h].creator]
  <2>1. CASE h = next
    BY <2>1, <1>3, <1>4, <1>7
  <2>2. CASE h # next
    <3>1. h \in DOMAIN memory /\ memory'[h] = memory[h] /\ memory[h] \in SessionObject
      BY <2>2, <1>2, <1>4
    <3>2. /\ h \in DOMAIN backed /\ backed[h] = memory[h].content
          /\ memory[h].content \in storage[memory[h].creator]
      BY <3>1, AsItIs DEF Behind
    <3>3. memory[h].creator \in Sessions
      BY <3>1 DEF SessionObject
    <3> QED BY <2>2, <3>1, <3>2, <3>3, <1>4, <1>7
  <2> QED BY <2>1, <2>2
<1>9. Behind(backed', memory', storage')
  BY <1>8 DEF Behind
<1>10. Stored(keys', store', references', cache', storage', failures')
  BY <1>1, <1>7 DEF ObjectsInv, Stored
<1> QED BY <1>1, <1>4, <1>6, <1>9, <1>10, QuietKeeps

(* Two objects of a session with the same content: neither is alone.       *)
LEMMA Shared ==
    ASSUME ObjectsInv, NEW h \in DOMAIN memory, NEW x \in DOMAIN memory, x # h,
           memory[x].creator = memory[h].creator, memory[x].content = backed[h]
    PROVE  backed_reference_is_shared(h, backed[h])
<1>1. x \in DOMAIN backed /\ backed[x] = memory[x].content
  BY DEF ObjectsInv, Behind
<1> QED BY <1>1 DEF backed_reference_is_shared

LEMMA DestroySessionObjectStep ==
    ASSUME ObjectsInv, NEW h, DestroySessionObject(h) PROVE ObjectsInv'
<1> DEFINE own == memory[h].creator
           rest == Without(memory, {h})
<1>1. /\ h \in DOMAIN memory
      /\ storage' = [storage EXCEPT ![own] =
                        IF backed_reference_is_shared(h, backed[h]) THEN @ ELSE @ \ {backed[h]}]
      /\ Publish(handles, backed, rest)
      /\ UNCHANGED <<keys, store, references, cache, next, failures>>
  BY DEF DestroySessionObject
<1>2. /\ memory \in [DOMAIN memory -> SessionObject]
      /\ storage \in [Sessions -> SUBSET Contents]
      /\ Tables(handles, backed, memory, next) /\ Behind(backed, memory, storage)
  BY AsItIs DEF Tables
<1>3. /\ storage' \in [Sessions -> SUBSET Contents]
      /\ \A s \in Sessions : s # own => storage'[s] = storage[s]
      /\ \A d \in storage[own] :
            own \in Sessions /\ (d # backed[h] \/ backed_reference_is_shared(h, backed[h])) =>
                d \in storage'[own]
  BY <1>1, <1>2
<1>4. /\ DOMAIN rest = DOMAIN memory \ {h} /\ rest \in [DOMAIN rest -> SessionObject]
      /\ \A x \in DOMAIN rest : rest[x] = memory[x]
  BY <1>2 DEF Without
<1> HIDE DEF rest
<1>5. Tables(handles, backed, rest, next')
  BY <1>1, <1>2, <1>4 DEF Tables
<1>6. ASSUME NEW x \in DOMAIN rest
      PROVE  /\ x \in DOMAIN backed /\ backed[x] = rest[x].content
             /\ rest[x].content \in storage'[rest[x].creator]
  <2>1. x \in DOMAIN memory /\ x # h /\ rest[x] = memory[x] /\ memory[x] \in SessionObject
    BY <1>2, <1>4
  <2>2. /\ x \in DOMAIN backed /\ backed[x] = memory[x].content
        /\ memory[x].content \in storage[memory[x].creator]
    BY <2>1, <1>2 DEF Behind
  <2>3. memory[x].creator \in Sessions
    BY <2>1 DEF SessionObject
  <2>4. CASE memory[x].creator # own
    BY <2>1, <2>2, <2>3, <2>4, <1>3
  <2>5. CASE memory[x].creator = own
    <3>1. memory[x].content # backed[h] \/ backed_reference_is_shared(h, backed[h])
      BY <2>1, <2>5, <1>1, Shared
    <3> QED BY <2>1, <2>2, <2>3, <2>5, <3>1, <1>3
  <2> QED BY <2>4, <2>5
<1>7. Behind(backed, rest, storage')
  BY <1>6 DEF Behind
<1>8. Stored(keys', store', references', cache', storage', failures')
  BY <1>1, <1>3 DEF ObjectsInv, Stored
<1>9. Part(handles)
  BY AsItIs
<1> QED BY <1>1, <1>5, <1>7, <1>8, <1>9, PartNamed, PublishKeeps

LEMMA ReplaceSessionObjectStep ==
    ASSUME ObjectsInv, NEW c \in Contents, NEW h, ReplaceSessionObject(h, c) PROVE ObjectsInv'
<1> DEFINE own == memory[h].creator
           alone == ~(c = backed[h] \/ backed_reference_is_shared(h, backed[h]))
<1>1. /\ h \in DOMAIN memory
      /\ storage' = [storage EXCEPT ![own] =
                        IF c = backed[h] \/ backed_reference_is_shared(h, backed[h]) THEN @ \cup {c}
                        ELSE (@ \ {backed[h]}) \cup {c}]
      /\ backed' = [backed EXCEPT ![h] = c]
      /\ memory' = [memory EXCEPT ![h].content = c]
      /\ UNCHANGED <<keys, store, handles, references, cache, find, next, failures, given, seen>>
  BY DEF ReplaceSessionObject
<1>2. /\ memory \in [DOMAIN memory -> SessionObject]
      /\ backed \in [DOMAIN backed -> Contents] /\ h \in DOMAIN backed
      /\ storage \in [Sessions -> SUBSET Contents]
      /\ Tables(handles, backed, memory, next) /\ Behind(backed, memory, storage)
  BY <1>1, AsItIs DEF Tables, Behind
<1>3. memory[h] \in SessionObject /\ own \in Sessions
  BY <1>1, <1>2 DEF SessionObject
<1>4. /\ storage' \in [Sessions -> SUBSET Contents]
      /\ \A s \in Sessions : s # own => storage'[s] = storage[s]
      /\ c \in storage'[own]
      /\ \A d \in storage[own] :
            d # backed[h] \/ backed_reference_is_shared(h, backed[h]) => d \in storage'[own]
  BY <1>1, <1>2, <1>3
<1> DEFINE new == [memory[h] EXCEPT !.content = c]
<1>5. new \in SessionObject /\ new.content = c /\ new.creator = own
  BY <1>3 DEF SessionObject
<1>6. /\ memory' = [memory EXCEPT ![h] = new]
      /\ DOMAIN memory' = DOMAIN memory
  BY <1>1, <1>2
<1> HIDE DEF new, own
<1>7. /\ memory' \in [DOMAIN memory -> SessionObject]
      /\ memory'[h] = new
      /\ \A x \in DOMAIN memory : x # h => memory'[x] = memory[x]
      /\ backed' \in [DOMAIN backed -> Contents] /\ DOMAIN backed' = DOMAIN backed
      /\ backed'[h] = c
      /\ \A x \in DOMAIN backed : x # h => backed'[x] = backed[x]
  BY <1>1, <1>2, <1>5, <1>6
<1>8. Tables(handles', backed', memory', next')
  <2>1. handles' = handles /\ next' = next
    BY <1>1
  <2> QED BY <2>1, <1>2, <1>6, <1>7 DEF Tables
<1>9. ASSUME NEW x \in DOMAIN memory'
      PROVE  /\ x \in DOMAIN backed' /\ backed'[x] = memory'[x].content
             /\ memory'[x].content \in storage'[memory'[x].creator]
  <2>1. CASE x = h
    BY <2>1, <1>2, <1>4, <1>5, <1>7
  <2>2. CASE x # h
    <3>1. x \in DOMAIN memory /\ memory'[x] = memory[x] /\ memory[x] \in SessionObject
      BY <2>2, <1>2, <1>6, <1>7
    <3>2. /\ x \in DOMAIN backed /\ backed[x] = memory[x].content /\ backed'[x] = backed[x]
          /\ memory[x].content \in storage[memory[x].creator]
      BY <2>2, <3>1, <1>2, <1>7 DEF Behind
    <3>3. memory[x].creator \in Sessions
      BY <3>1 DEF SessionObject
    <3>4. CASE memory[x].creator # own
      BY <3>1, <3>2, <3>3, <3>4, <1>4, <1>7
    <3>5. CASE memory[x].creator = own
      <4>1. memory[x].content # backed[h] \/ backed_reference_is_shared(h, backed[h])
        BY <2>2, <3>1, <3>5, <1>1, Shared DEF own
      <4> QED BY <3>1, <3>2, <3>5, <4>1, <1>4, <1>7
    <3> QED BY <3>4, <3>5
  <2> QED BY <2>1, <2>2
<1>10. Behind(backed', memory', storage')
  BY <1>9 DEF Behind
<1>11. Stored(keys', store', references', cache', storage', failures')
  <2>1. UNCHANGED <<keys, store, references, cache, failures>>
    BY <1>1
  <2> QED BY <2>1, <1>4 DEF ObjectsInv, Stored
<1>12. UNCHANGED <<handles, find, given, seen>>
  BY <1>1
<1> QED BY <1>6, <1>8, <1>10, <1>11, <1>12, QuietKeeps

(* A stored object was not given out for a key.                            *)
LEMMA StoredIsNoKey ==
    ASSUME ObjectsInv, NEW h \in DOMAIN handles, handles[h] \in cache
    PROVE  given[h] \notin Keys
<1>1. cache \subseteq Contents
  BY AsItIs
<1>2. KeyIds \cap Contents = {}
  BY ObjectsAssumption DEF KeyIds
<1> QED BY <1>1, <1>2 DEF ObjectsInv, Named

LEMMA DestroyTokenObjectStep ==
    ASSUME ObjectsInv, NEW h, DestroyTokenObject(h) PROVE ObjectsInv'
<1>1. h \in DOMAIN handles /\ UNCHANGED <<keys, storage>>
  BY DEF DestroyTokenObject
<1>2. {h} \cap DOMAIN memory = {}
  BY <1>1, AsItIs
<1>3. CASE Reference(h) = {}
  <2>1. /\ Publish(Without(handles, {h}), backed, memory)
        /\ UNCHANGED <<store, references, cache, next, failures>>
    BY <1>3 DEF DestroyTokenObject
  <2>2. Stored(keys', store', references', cache', storage', failures')
    BY <1>1, <2>1 DEF ObjectsInv, Stored
  <2> DEFINE t == Without(handles, {h})
  <2>3. Part(t) /\ PartOfMemory(memory)
    BY Parts
  <2> HIDE DEF t
  <2>4. Tables(t, backed, memory, next') /\ Behind(backed, memory, storage')
    BY <2>1, <2>3, <1>1, <1>2, PartsInOrder
  <2>5. Named(t, Names(t))
    BY <2>3, PartNamed
  <2>6. Publish(t, backed, memory)
    BY <2>1 DEF t
  <2> QED BY <2>2, <2>4, <2>5, <2>6, PublishKeeps
<1>4. CASE Reference(h) # {}
  <2>1. PICK dropped :
          \/ /\ store' = store \ dropped
             /\ \/ RefreshSlot(keys, store', handles, Without(backed, {h}), memory, <<>>, {})
                \/ ListingFails(references \ {handles[h]}, handles, Without(backed, {h}), memory)
          \/ /\ failures < MaxFailures
             /\ failures' = failures + 1
             /\ UNCHANGED <<store, handles, backed, references, cache, memory, find, next,
                            given, seen>>
    BY <1>4 DEF DestroyTokenObject
  <2> DEFINE b == Without(backed, {h})
  <2>2. Tables(handles, b, memory, next) /\ Behind(b, memory, storage) /\ Part(handles)
    BY <1>2, Parts, PartsInOrder
  <2> HIDE DEF b
  <2>3. CASE store' = store \ dropped
             /\ RefreshSlot(keys, store', handles, Without(backed, {h}), memory, <<>>, {})
    <3>1. RefreshSlot(keys, store', handles, b, memory, <<>>, {})
      BY <2>3 DEF b
    <3>2. store' \subseteq Contents /\ IsFiniteSet(store') /\ {} \subseteq Contents
      BY <2>3, AsItIs, FS_Difference
    <3>3. keys' = keys /\ storage' \in [Sessions -> SUBSET Contents] /\ Behind(b, memory, storage')
      BY <1>1, <2>2, AsItIs
    <3> QED BY <3>1, <3>2, <3>3, <2>2, AsItIs, RefreshKeeps
  <2>4. CASE store' = store \ dropped
             /\ ListingFails(references \ {handles[h]}, handles, Without(backed, {h}), memory)
    <3>1. ListingFails(references \ {handles[h]}, handles, b, memory)
      BY <2>4 DEF b
    <3>2. store' \subseteq Contents /\ IsFiniteSet(store')
          /\ references \ {handles[h]} \subseteq Contents
      BY <2>4, AsItIs, FS_Difference
    <3>3. /\ keys' \in [KeySlots -> Keys \cup {NoKey}]
          /\ storage' \in [Sessions -> SUBSET Contents] /\ Behind(b, memory, storage')
      BY <1>1, <2>2, AsItIs
    <3> QED BY <3>1, <3>2, <3>3, <2>2, ListingFailsKeeps
  <2>5. CASE /\ failures < MaxFailures
             /\ failures' = failures + 1
             /\ UNCHANGED <<store, handles, backed, references, cache, memory, find, next,
                            given, seen>>
    <3>1. failures' \in 0..MaxFailures
      BY <2>5, ObjectsAssumption DEF ObjectsInv, Stored
    <3>2. Stored(keys', store', references', cache', storage', failures')
      BY <1>1, <2>5, <3>1, AsItIs DEF Stored
    <3>3. Tables(handles', backed', memory', next') /\ Behind(backed', memory', storage')
      BY <1>1, <2>5, AsItIs
    <3> QED BY <2>5, <3>2, <3>3, QuietKeeps
  <2> QED BY <2>1, <2>3, <2>4, <2>5
<1> QED BY <1>3, <1>4

LEMMA ReplaceTokenObjectStep ==
    ASSUME ObjectsInv, NEW c \in Contents, NEW h, ReplaceTokenObject(h, c) PROVE ObjectsInv'
<1> DEFINE now == With(backed, One(h, c))
           Dropped(old) == IF c = old \/ backed_reference_is_shared(h, old) THEN {} ELSE {old}
<1>1. h \in DOMAIN handles /\ handles[h] \in cache /\ UNCHANGED <<keys, storage>>
  BY DEF ReplaceTokenObject
<1>2. PICK old \in Reference(h) :
        \/ /\ Dropped(old) \subseteq store
           /\ store' = (store \ Dropped(old)) \cup {c}
           /\ \/ RefreshSlot(keys, store', handles, now, memory, One(h, c), {})
              \/ ListingFails((references \ {handles[h]}) \cup {c}, handles, now, memory)
        \/ /\ Dropped(old) # {}
           /\ store' = store \cup {c}
           /\ IF Dropped(old) \subseteq store
              THEN failures < MaxFailures /\ failures' = failures + 1
              ELSE UNCHANGED failures
           /\ UNCHANGED <<handles, backed, references, cache, memory, find, next, given, seen>>
  BY DEF ReplaceTokenObject
<1> DEFINE d == Dropped(old)
<1> HIDE DEF d, Dropped
<1>3. /\ keys' = keys /\ keys' \in [KeySlots -> Keys \cup {NoKey}]
      /\ storage' = storage /\ storage' \in [Sessions -> SUBSET Contents]
      /\ store \subseteq Contents /\ IsFiniteSet(store) /\ Part(handles)
  BY <1>1, AsItIs
<1>4. /\ (store \ d) \cup {c} \subseteq Contents /\ IsFiniteSet((store \ d) \cup {c})
      /\ store \cup {c} \subseteq Contents /\ IsFiniteSet(store \cup {c})
  BY <1>3, FS_Difference, FS_AddElement
<1>5. /\ DOMAIN now = DOMAIN backed \cup {h}
      /\ now = [x \in DOMAIN backed \cup {h} |-> IF x = h THEN c ELSE backed[x]]
  BY DEF With, One
<1> HIDE DEF now
<1>6. Tables(handles, now, memory, next) /\ Behind(now, memory, storage')
  <2>1. /\ backed \in [DOMAIN backed -> Contents] /\ DOMAIN backed \subseteq Handle
        /\ h \in Handle /\ h \notin DOMAIN memory
    BY <1>1, AsItIs DEF Tables
  <2>2. now \in [DOMAIN now -> Contents] /\ DOMAIN now \subseteq Handle
    BY <2>1, <1>5
  <2>3. Tables(handles, now, memory, next)
    BY <2>2, AsItIs DEF Tables
  <2>4. \A x \in DOMAIN memory : x \in DOMAIN backed => x \in DOMAIN now /\ now[x] = backed[x]
    BY <2>1, <1>5
  <2>5. Behind(now, memory, storage')
    BY <2>4, <1>3, AsItIs DEF Behind
  <2> QED BY <2>3, <2>5
<1>7. Rebinds(handles, One(h, c))
  <2>1. DOMAIN One(h, c) = {h} /\ One(h, c) \in [{h} -> Uids]
    BY DEF One, Uids
  <2>2. given[h] \notin Keys
    BY <1>1, StoredIsNoKey
  <2> QED BY <1>1, <2>1, <2>2 DEF Rebinds
<1>8. CASE /\ store' = (store \ d) \cup {c}
           /\ RefreshSlot(keys, store', handles, now, memory, One(h, c), {})
  <2>1. {} \subseteq Contents /\ store' \subseteq Contents /\ IsFiniteSet(store')
    BY <1>4, <1>8
  <2> QED BY <1>3, <1>6, <1>7, <1>8, <2>1, RefreshKeeps
<1>9. CASE /\ store' = (store \ d) \cup {c}
           /\ ListingFails((references \ {handles[h]}) \cup {c}, handles, now, memory)
  <2>1. (references \ {handles[h]}) \cup {c} \subseteq Contents
    BY AsItIs
  <2>2. store' \subseteq Contents /\ IsFiniteSet(store')
    BY <1>4, <1>9
  <2> QED BY <1>3, <1>6, <1>9, <2>1, <2>2, ListingFailsKeeps
<1>10. CASE /\ store' = store \cup {c}
            /\ IF d \subseteq store
               THEN failures < MaxFailures /\ failures' = failures + 1
               ELSE UNCHANGED failures
            /\ UNCHANGED <<handles, backed, references, cache, memory, find, next, given, seen>>
  <2>1. failures' \in 0..MaxFailures
    BY <1>10, ObjectsAssumption DEF ObjectsInv, Stored
  <2>2. Stored(keys', store', references', cache', storage', failures')
    BY <1>3, <1>4, <1>10, <2>1, AsItIs DEF Stored
  <2>3. Tables(handles', backed', memory', next') /\ Behind(backed', memory', storage')
    BY <1>3, <1>10, AsItIs
  <2> QED BY <1>10, <2>2, <2>3, QuietKeeps
<1> QED BY <1>2, <1>8, <1>9, <1>10 DEF d

LEMMA NoRebindings ==
    ASSUME NEW t PROVE Rebinds(t, <<>>)
<1>1. DOMAIN <<>> = {} /\ <<>> \in [{} -> Uids]
  OBVIOUS
<1> QED BY <1>1 DEF Rebinds

LEMMA GenerateStep ==
    ASSUME ObjectsInv, NEW k \in KeySlots, NEW x \in Keys, generate_piv_token_pair(k, x)
    PROVE  ObjectsInv'
<1> DEFINE replaced == piv_key_object_handles(k)
           t == Without(handles, replaced)
           b == Without(backed, replaced)
           m == Without(memory, replaced)
<1>1. /\ keys' = [keys EXCEPT ![k] = x] /\ UNCHANGED <<store, storage>>
      /\ \/ RefreshSlot(keys', store, t, b, m, <<>>, {})
         \/ ListingFails(references, t, b, m)
  BY DEF generate_piv_token_pair
<1>2. Part(t) /\ PartOfMemory(m) /\ replaced \cap DOMAIN m = {}
  <2> HIDE DEF replaced
  <2> QED BY Parts
<1>3. Tables(t, b, m, next) /\ Behind(b, m, storage)
  <2> HIDE DEF replaced, t, m
  <2> QED BY <1>2, PartsInOrder
<1> HIDE DEF t, b, m
<1>4. keys' \in [KeySlots -> Keys \cup {NoKey}]
  BY <1>1, AsItIs
<1>5. /\ store' = store /\ store \subseteq Contents /\ IsFiniteSet(store)
      /\ storage' \in [Sessions -> SUBSET Contents] /\ Behind(b, m, storage')
      /\ references \subseteq Contents /\ {} \subseteq Contents /\ IsFiniteSet(store')
      /\ store' \subseteq Contents
  BY <1>1, <1>3, AsItIs
<1>6. CASE RefreshSlot(keys', store, t, b, m, <<>>, {})
  <2> DEFINE card == keys'
  <2>1. RefreshSlot(card, store, t, b, m, <<>>, {}) /\ keys' = card
        /\ card \in [KeySlots -> Keys \cup {NoKey}]
    BY <1>4, <1>6
  <2> HIDE DEF card
  <2> QED BY <1>2, <1>3, <1>5, <2>1, NoRebindings, RefreshKeeps
<1>7. CASE ListingFails(references, t, b, m)
  BY <1>2, <1>3, <1>4, <1>5, <1>7, ListingFailsKeeps
<1> QED BY <1>1, <1>6, <1>7

LEMMA DeleteKeyStep ==
    ASSUME ObjectsInv, NEW h, piv_delete_key(h) PROVE ObjectsInv'
<1>1. PICK k \in KeySlots :
        /\ keys' = [keys EXCEPT ![k] = NoKey]
        /\ \/ RefreshSlot(keys', store, handles, backed, memory, <<>>, {})
           \/ ListingFails(references, handles, backed, memory)
        /\ UNCHANGED <<store, storage>>
  BY DEF piv_delete_key
<1>2. keys' \in [KeySlots -> Keys \cup {NoKey}]
  BY <1>1, AsItIs
<1>3. CASE RefreshSlot(keys', store, handles, backed, memory, <<>>, {})
  <2> DEFINE card == keys'
  <2>1. RefreshSlot(card, store, handles, backed, memory, <<>>, {}) /\ keys' = card
        /\ card \in [KeySlots -> Keys \cup {NoKey}] /\ {} \subseteq Contents
    BY <1>2, <1>3
  <2> HIDE DEF card
  <2> QED BY <1>1, <2>1, AsItIs, RefreshKeeps
<1>4. CASE ListingFails(references, handles, backed, memory)
  <2>1. store' \subseteq Contents /\ IsFiniteSet(store')
        /\ storage' \in [Sessions -> SUBSET Contents] /\ Behind(backed, memory, storage')
    BY <1>1, AsItIs
  <2> QED BY <1>2, <1>4, <2>1, AsItIs, ListingFailsKeeps
<1> QED BY <1>1, <1>3, <1>4

LEMMA MoveKeyStep ==
    ASSUME ObjectsInv, NEW h, NEW to \in KeySlots, piv_move_key(h, to) PROVE ObjectsInv'
<1>1. PICK from \in KeySlots :
        /\ keys[from] # NoKey /\ keys[to] = NoKey
        /\ keys' = [keys EXCEPT ![from] = NoKey, ![to] = keys[from]]
        /\ LET source == piv_key_object_handles(from)
               others == (source \cup piv_key_object_handles(to)) \cap DOMAIN memory
               left == Without(memory, others)
               rebindings == [x \in source \cap DOMAIN handles |-> Target(to)]
           IN  \/ /\ Reconcile(handles, Without(backed, others), left, rebindings, KeyObjects(keys'), {})
                  /\ UNCHANGED <<references, cache, failures>>
               \/ ListingFails(references, handles, Without(backed, others), left)
        /\ UNCHANGED <<store, storage>>
  BY DEF piv_move_key
<1> DEFINE source == piv_key_object_handles(from)
           others == (source \cup piv_key_object_handles(to)) \cap DOMAIN memory
           m == Without(memory, others)
           b == Without(backed, others)
           rebindings == [x \in source \cap DOMAIN handles |-> Target(to)]
<1>2. \/ /\ Reconcile(handles, b, m, rebindings, KeyObjects(keys'), {})
         /\ UNCHANGED <<references, cache, failures>>
      \/ ListingFails(references, handles, b, m)
  BY <1>1
<1>3. keys \in [KeySlots -> Keys \cup {NoKey}] /\ keys[from] \in Keys /\ from # to
  BY <1>1, AsItIs
<1>4. keys' \in [KeySlots -> Keys \cup {NoKey}] /\ keys'[to] = keys[from]
  BY <1>1, <1>3
<1>5. Target(to) = <<to, keys[from]>> /\ Target(to) \in KeyIds /\ Target(to)[2] = keys[from]
  BY <1>3, <1>4 DEF Target, KeyIds
<1>6. ASSUME NEW x \in source \cap DOMAIN handles, given[x] \in Keys
      PROVE  handles[x] = <<from, keys[from]>> /\ given[x] = keys[from]
  <2>1. handles[x] \notin cache
    BY <1>6, StoredIsNoKey
  <2>2. x \notin DOMAIN memory
    BY AsItIs
  <2>3. handles[x] = <<from, keys[from]>>
    BY <1>6, <2>1, <2>2 DEF piv_key_object_handles
  <2>4. handles[x][2] = given[x]
    BY <1>6 DEF ObjectsInv, Named
  <2> QED BY <2>3, <2>4
<1>7. Rebinds(handles, rebindings)
  <2>1. /\ DOMAIN rebindings = source \cap DOMAIN handles
        /\ \A x \in DOMAIN rebindings : rebindings[x] = Target(to)
        /\ rebindings \in [DOMAIN rebindings -> Uids]
    BY <1>5 DEF Uids
  <2> HIDE DEF rebindings
  <2>2. ASSUME NEW x \in DOMAIN rebindings, given[x] \in Keys
        PROVE  /\ rebindings[x] \in KeyIds /\ rebindings[x][2] = given[x]
               /\ \A y \in DOMAIN rebindings : given[y] \in Keys => y = x
    <3>1. rebindings[x] \in KeyIds /\ rebindings[x][2] = given[x]
      BY <2>1, <2>2, <1>5, <1>6
    <3>2. ASSUME NEW y \in DOMAIN rebindings, given[y] \in Keys PROVE y = x
      <4>1. handles[x] = handles[y] /\ x \in DOMAIN handles /\ y \in DOMAIN handles
        BY <2>1, <2>2, <3>2, <1>6
      <4> QED BY <4>1, <2>2, <3>2 DEF ObjectsInv, Named
    <3> QED BY <3>1, <3>2
  <2> QED BY <2>1, <2>2 DEF Rebinds
<1> HIDE DEF rebindings
<1>8. Part(handles) /\ PartOfMemory(m) /\ others \cap DOMAIN m = {}
  <2> HIDE DEF others
  <2> QED BY Parts
<1>9. Tables(handles, b, m, next) /\ Behind(b, m, storage)
  <2> HIDE DEF others, m
  <2> QED BY <1>8, PartsInOrder
<1> HIDE DEF b, m
<1>10. /\ store' \subseteq Contents /\ IsFiniteSet(store')
       /\ storage' \in [Sessions -> SUBSET Contents] /\ Behind(b, m, storage')
       /\ references \subseteq Contents /\ cache \subseteq Contents
       /\ store' = store /\ storage' = storage
  BY <1>1, <1>9, AsItIs
<1>11. CASE /\ Reconcile(handles, b, m, rebindings, KeyObjects(keys'), {})
            /\ UNCHANGED <<references, cache, failures>>
  <2> DEFINE card == keys'
             listed == KeyObjects(card)
  <2>1. card \in [KeySlots -> Keys \cup {NoKey}]
    BY <1>4
  <2>2. listed \subseteq Uids /\ IsFiniteSet(listed)
    <3> HIDE DEF card
    <3> QED BY <2>1, KeyObjectsFacts DEF Uids
  <2>3. Reconcile(handles, b, m, rebindings, listed, {})
    BY <1>11
  <2>4. Stored(keys', store', references', cache', storage', failures')
    BY <1>4, <1>10, <1>11 DEF ObjectsInv, Stored
  <2>5. {} \subseteq Contents
    OBVIOUS
  <2> HIDE DEF listed
  <2> QED BY <1>7, <1>8, <1>9, <1>10, <2>2, <2>3, <2>4, <2>5, ReconcileKeeps
<1>12. CASE ListingFails(references, handles, b, m)
  BY <1>4, <1>8, <1>9, <1>10, <1>12, ListingFailsKeeps
<1> QED BY <1>2, <1>11, <1>12

(* Steps of searches.                                                      *)
LEMMA SearchKeeps ==
    ASSUME ObjectsInv, NEW s \in Sessions, NEW operation, NEW returned,
           find' = [find EXCEPT ![s] = operation], seen' = [seen EXCEPT ![s] = returned],
           Searching(operation, returned, Live),
           UNCHANGED <<token, memory, storage, next, failures, given>>
    PROVE  ObjectsInv'
<1>1. /\ Stored(keys', store', references', cache', storage', failures')
      /\ Tables(handles', backed', memory', next') /\ Behind(backed', memory', storage')
      /\ Named(handles', given')
  BY DEF ObjectsInv, token
<1>2. Live' = Live
  BY DEF Live, token
<1>3. find = [x \in Sessions |-> find[x]] /\ seen = [x \in Sessions |-> seen[x]]
  BY DEF ObjectsInv
<1>4. /\ find' = [x \in Sessions |-> find'[x]] /\ seen' = [x \in Sessions |-> seen'[x]]
      /\ find'[s] = operation /\ seen'[s] = returned
      /\ \A x \in Sessions : x # s => find'[x] = find[x] /\ seen'[x] = seen[x]
  BY <1>3
<1>5. ASSUME NEW x \in Sessions PROVE Searching(find'[x], seen'[x], Live')
  <2>1. Searching(find[x], seen[x], Live)
    BY DEF ObjectsInv
  <2>2. CASE x = s
    BY <2>2, <1>2, <1>4
  <2>3. CASE x # s
    BY <2>1, <2>3, <1>2, <1>4
  <2> QED BY <2>2, <2>3
<1> QED BY <1>1, <1>4, <1>5, Zenon DEF ObjectsInv

LEMMA FindInitStep ==
    ASSUME ObjectsInv, NEW s \in Sessions, NEW template, find_objects_init(s, template)
    PROVE  ObjectsInv'
<1> DEFINE S == Matching(template)
           operation == [objects |-> Ascending(S), next |-> 0]
<1>1. /\ find' = [find EXCEPT ![s] = operation] /\ seen' = [seen EXCEPT ![s] = <<>>]
      /\ UNCHANGED <<token, memory, storage, next, failures, given>>
  BY DEF find_objects_init
<1>2. S \subseteq Live /\ S \subseteq Handle
  <2>1. S \subseteq Live
    BY DEF Matching
  <2>2. Live \subseteq Handle
    BY AsItIs DEF Live
  <2> QED BY <2>1, <2>2
<1> HIDE DEF S
<1>3. /\ Ascending(S) \in Seq(Handle) /\ Distinct(Ascending(S))
      /\ \A i \in 1..Len(Ascending(S)) : Ascending(S)[i] \in Live
  BY <1>2, AscendingFacts
<1>4. /\ operation.objects = Ascending(S) /\ operation.next = 0
      /\ operation \in [objects : Seq(Handle), next : Nat]
  BY <1>3
<1> HIDE DEF operation
<1>5. Len(Ascending(S)) \in Nat
  BY <1>3
<1>6. SubSeq(Ascending(S), 1, 0) = <<>>
  BY SubSeqEmpty
<1>7. Searching(operation, <<>>, Live)
  BY <1>3, <1>4, <1>5, <1>6 DEF Searching
<1> QED BY <1>1, <1>7, SearchKeeps

LEMMA FindStep ==
    ASSUME ObjectsInv, NEW s \in Sessions, NEW count \in 1..2, find_objects(s, count)
    PROVE  ObjectsInv'
<1> DEFINE o == find[s]
           more == Len(o.objects) - o.next
           n == IF more < count THEN more ELSE count
           operation == [o EXCEPT !.next = o.next + n]
           returned == seen[s] \o SubSeq(o.objects, o.next + 1, o.next + n)
<1>1. /\ o # NoFind
      /\ find' = [find EXCEPT ![s].next = @ + n]
      /\ seen' = [seen EXCEPT ![s] = returned]
      /\ UNCHANGED <<token, memory, storage, next, failures, given>>
  BY DEF find_objects, ObjectsInv
<1>2. Searching(o, seen[s], Live)
  BY DEF ObjectsInv
<1>3. /\ o \in [objects : Seq(Handle), next : Nat]
      /\ o.objects \in Seq(Handle) /\ o.next \in 0..Len(o.objects)
      /\ Distinct(o.objects) /\ \A i \in 1..Len(o.objects) : o.objects[i] \in Live
  BY <1>1, <1>2 DEF Searching
<1>4. n \in Nat /\ n <= Len(o.objects) - o.next
  BY <1>3
<1>5. o.next + n \in 0..Len(o.objects) /\ returned = SubSeq(o.objects, 1, o.next + n)
  <2> HIDE DEF n, o
  <2> QED BY <1>1, <1>2, <1>4, SearchAdvances
<1>6. find' = [find EXCEPT ![s] = operation]
  BY <1>1
<1>7. /\ operation.objects = o.objects /\ operation.next = o.next + n
      /\ operation \in [objects : Seq(Handle), next : Nat]
  <2>1. o.next + n \in Nat
    BY <1>3, <1>4
  <2> HIDE DEF n, o
  <2> QED BY <1>3, <2>1
<1> HIDE DEF operation, returned, n, o
<1>8. Searching(operation, returned, Live)
  BY <1>3, <1>5, <1>7 DEF Searching
<1> QED BY <1>1, <1>6, <1>8, SearchKeeps

LEMMA FindFinalStep ==
    ASSUME ObjectsInv, NEW s \in Sessions, find_objects_final(s)
    PROVE  ObjectsInv'
<1>1. /\ find' = [find EXCEPT ![s] = NoFind] /\ seen' = [seen EXCEPT ![s] = <<>>]
      /\ UNCHANGED <<token, memory, storage, next, failures, given>>
  BY DEF find_objects_final
<1>2. Searching(NoFind, <<>>, Live)
  BY DEF Searching
<1> QED BY <1>1, <1>2, SearchKeeps

LEMMA CloseSessionStep ==
    ASSUME ObjectsInv, NEW s \in Sessions, close_session(s)
    PROVE  ObjectsInv'
<1> DEFINE own == {h \in DOMAIN memory : memory[h].creator = s}
<1>1. /\ storage' = [storage EXCEPT ![s] = {}]
      /\ memory' = Without(memory, own) /\ backed' = Without(backed, own)
      /\ find' = [x \in Sessions |-> IF x = s THEN NoFind ELSE remove_object_handle(find[x], own)]
      /\ seen' = [x \in Sessions |-> IF x = s THEN <<>> ELSE Retain(seen[x], own)]
      /\ UNCHANGED <<keys, store, handles, references, cache, next, failures, given>>
  BY DEF close_session
<1>2. Part(handles) /\ PartOfMemory(memory') /\ DOMAIN memory' = DOMAIN memory \ own
  BY <1>1, Parts
<1>3. \A h \in DOMAIN memory' :
          memory'[h] = memory[h] /\ h \in DOMAIN memory /\ memory[h].creator # s
          /\ memory[h].creator \in Sessions
  <2>1. memory \in [DOMAIN memory -> SessionObject]
    BY AsItIs DEF Tables
  <2>2. \A h \in DOMAIN memory : memory[h].creator \in Sessions
    BY <2>1 DEF SessionObject
  <2> QED BY <1>2, <2>2 DEF PartOfMemory
<1> HIDE DEF own
<1>4. Tables(handles, backed', memory', next) /\ Behind(backed', memory', storage)
  <2> DEFINE m == memory'
  <2>1. PartOfMemory(m) /\ own \cap DOMAIN m = {}
    BY <1>2
  <2> HIDE DEF m
  <2>2. Tables(handles, Without(backed, own), m, next)
        /\ Behind(Without(backed, own), m, storage)
    BY <1>2, <2>1, PartsInOrder
  <2> QED BY <1>1, <2>2 DEF m
<1>5. storage' \in [Sessions -> SUBSET Contents]
      /\ \A x \in Sessions : x # s => storage'[x] = storage[x]
  BY <1>1, AsItIs
<1>6. Behind(backed', memory', storage')
  BY <1>3, <1>4, <1>5 DEF Behind
<1>7. Stored(keys', store', references', cache', storage', failures')
  BY <1>1, <1>5 DEF ObjectsInv, Stored
<1>8. Tables(handles', backed', memory', next') /\ Named(handles', given')
  BY <1>1, <1>4 DEF ObjectsInv
<1>9. Live \ own \subseteq Live'
  BY <1>1, <1>2 DEF Live
<1>10. ASSUME NEW x \in Sessions PROVE Searching(find'[x], seen'[x], Live')
  <2>1. CASE x = s
    BY <2>1, <1>1 DEF Searching
  <2>2. CASE x # s
    <3>1. Searching(find[x], seen[x], Live)
      BY DEF ObjectsInv
    <3>2. Searching(remove_object_handle(find[x], own), Retain(seen[x], own), Live')
      BY <3>1, <1>9, SearchGoesOn
    <3> QED BY <2>2, <3>2, <1>1
  <2> QED BY <2>1, <2>2
<1>11. find' = [x \in Sessions |-> find'[x]] /\ seen' = [x \in Sessions |-> seen'[x]]
  BY <1>1
<1> QED BY <1>6, <1>7, <1>8, <1>10, <1>11, Zenon DEF ObjectsInv

LEMMA StutterKeeps ==
    ASSUME ObjectsInv, UNCHANGED vars PROVE ObjectsInv'
<1>1. UNCHANGED <<keys, store, handles, backed, references, cache, memory, storage, find, next,
                  failures, given, seen>>
  BY DEF vars, token
<1>2. /\ Stored(keys', store', references', cache', storage', failures')
      /\ Tables(handles', backed', memory', next') /\ Behind(backed', memory', storage')
  BY <1>1 DEF ObjectsInv
<1> QED BY <1>1, <1>2, QuietKeeps

-----------------------------------------------------------------------------
(* The theorems.                                                           *)

\* The tables of handles, what is behind them, the names of the handles and the
\* searches stay in order (SlotState), whichever listings, deletions and moves fail.
THEOREM ObjectsInvariance == Spec => []ObjectsInv
<1>1. Init => ObjectsInv
  BY InitKeeps
<1>2. ObjectsInv /\ [Next]_vars => ObjectsInv'
  <2> SUFFICES ASSUME ObjectsInv, [Next]_vars PROVE ObjectsInv'
    OBVIOUS
  <2>1. CASE refresh_token_objects
    BY <2>1, RefreshStep
  <2>2. ASSUME NEW c \in Contents, StoreTokenObject(c) PROVE ObjectsInv'
    BY <2>2, StoreTokenObjectStep
  <2>3. ASSUME NEW c \in Contents, OtherProcessDeletes(c) PROVE ObjectsInv'
    BY <2>3, OtherProcessDeletesStep
  <2>4. ASSUME NEW c \in Contents, NEW s \in Sessions, StoreSessionObject(s, c) PROVE ObjectsInv'
    BY <2>4, StoreSessionObjectStep
  <2>5. ASSUME NEW c \in Contents, NEW h \in Live, ReplaceSessionObject(h, c) PROVE ObjectsInv'
    BY <2>5, ReplaceSessionObjectStep
  <2>6. ASSUME NEW c \in Contents, NEW h \in Live, ReplaceTokenObject(h, c) PROVE ObjectsInv'
    BY <2>6, ReplaceTokenObjectStep
  <2>7. ASSUME NEW h \in Live, DestroySessionObject(h) PROVE ObjectsInv'
    BY <2>7, DestroySessionObjectStep
  <2>8. ASSUME NEW h \in Live, DestroyTokenObject(h) PROVE ObjectsInv'
    BY <2>8, DestroyTokenObjectStep
  <2>9. ASSUME NEW h \in Live, piv_delete_key(h) PROVE ObjectsInv'
    BY <2>9, DeleteKeyStep
  <2>10. ASSUME NEW h \in Live, NEW to \in KeySlots, piv_move_key(h, to) PROVE ObjectsInv'
    BY <2>10, MoveKeyStep
  <2>11. ASSUME NEW k \in KeySlots, NEW x \in Keys, generate_piv_token_pair(k, x)
         PROVE  ObjectsInv'
    BY <2>11, GenerateStep
  <2>12. ASSUME NEW s \in Sessions, NEW template \in Templates, find_objects_init(s, template)
         PROVE  ObjectsInv'
    BY <2>12, FindInitStep
  <2>13. ASSUME NEW s \in Sessions, NEW count \in 1..2, find_objects(s, count) PROVE ObjectsInv'
    BY <2>13, FindStep
  <2>14. ASSUME NEW s \in Sessions, find_objects_final(s) PROVE ObjectsInv'
    BY <2>14, FindFinalStep
  <2>15. ASSUME NEW s \in Sessions, close_session(s) PROVE ObjectsInv'
    BY <2>15, CloseSessionStep
  <2>16. CASE UNCHANGED vars
    BY <2>16, StutterKeeps
  <2> QED BY <2>1, <2>2, <2>3, <2>4, <2>5, <2>6, <2>7, <2>8, <2>9, <2>10, <2>11, <2>12, <2>13,
             <2>14, <2>15, <2>16 DEF Next
<1> QED BY <1>1, <1>2, PTL DEF Spec

\* The handles, the searches and the storages of a slot have their types.
THEOREM ObjectTypes == Spec => []TypeOK
<1>1. ASSUME ObjectsInv PROVE TypeOK
  <2>1. /\ DOMAIN handles \subseteq Handle /\ DOMAIN memory \subseteq Handle
        /\ handles \in [DOMAIN handles -> Uids] /\ backed \in [DOMAIN backed -> Contents]
        /\ memory \in [DOMAIN memory -> SessionObject]
        /\ DOMAIN backed \subseteq Handle /\ next \in 1..(MaxHandle + 1)
    BY <1>1, AsItIs DEF Tables
  <2>2. Range(handles) \subseteq Uids /\ Range(backed) \subseteq Contents
        /\ Range(memory) \subseteq SessionObject
    BY <2>1 DEF Range
  <2>3. ASSUME NEW s \in Sessions, find[s] # NoFind
        PROVE  find[s].objects \in Seq(Handle) /\ find[s].next \in Nat
    BY <1>1, <2>3 DEF ObjectsInv, Searching
  <2>4. failures \in 0..MaxFailures
    BY <1>1 DEF ObjectsInv, Stored
  <2> QED BY <1>1, <2>1, <2>2, <2>3, <2>4, AsItIs DEF TypeOK, SessionObject
<1> QED BY <1>1, ObjectsInvariance, PTL

\* Whatever is created, destroyed, moved and replaced while sessions search
\* (C_FindObjectsInit to C_FindObjectsFinal, remove_object_handle): a search returns no
\* handle twice, passes none over, and returns none that is gone.
THEOREM SearchesAreExact == Spec => []FindExact
<1>1. ASSUME ObjectsInv, NEW s \in Sessions, find[s] # NoFind
      PROVE  /\ find[s].next \in 0..Len(find[s].objects)
             /\ \A i, j \in DOMAIN seen[s] : i # j => seen[s][i] # seen[s][j]
             /\ {find[s].objects[i] : i \in 1..find[s].next} = Range(seen[s])
             /\ Range(find[s].objects) \subseteq Live
  <2> DEFINE o == find[s].objects
             n == find[s].next
             r == seen[s]
  <2>1. /\ o \in Seq(Handle) /\ n \in 0..Len(o) /\ Distinct(o)
        /\ \A i \in 1..Len(o) : o[i] \in Live
        /\ r = SubSeq(o, 1, n)
    BY <1>1 DEF ObjectsInv, Searching
  <2> HIDE DEF o, n, r
  <2>2. DOMAIN r = 1..n /\ \A i \in 1..n : r[i] = o[i] /\ i \in 1..Len(o)
    BY <2>1
  <2>3. DOMAIN o = 1..Len(o)
    BY <2>1
  <2>4. \A i, j \in DOMAIN r : i # j => r[i] # r[j]
    BY <2>1, <2>2 DEF Distinct
  <2>5. {o[i] : i \in 1..n} = Range(r) /\ Range(o) \subseteq Live
    BY <2>1, <2>2, <2>3 DEF Range
  <2> QED BY <2>1, <2>4, <2>5 DEF o, n, r
<1>2. ObjectsInv => FindExact
  BY <1>1 DEF FindExact
<1> QED BY <1>2, ObjectsInvariance, PTL

\* The content of a session object stays in the storage of its session until the last
\* object with it is destroyed or changed (backed_reference_is_shared).
THEOREM SharedContentIsKept == Spec => []SharedContentKept
<1>1. ObjectsInv => SharedContentKept
  BY DEF ObjectsInv, Behind, SharedContentKept
<1> QED BY <1>1, ObjectsInvariance, PTL

\* A handle given out for a key keeps this key, alone, through every reconciliation and
\* every move (reconcile_slot_token_objects_with_rebindings).
THEOREM HandlesKeepTheirKeys == Spec => []HandleKeepsKey
<1>1. ObjectsInv => HandleKeepsKey
  BY DEF ObjectsInv, Named, HandleKeepsKey
<1> QED BY <1>1, ObjectsInvariance, PTL
=============================================================================
