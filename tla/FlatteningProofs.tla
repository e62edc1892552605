-------------------------- MODULE FlatteningProofs --------------------------
(***************************************************************************)
(* Induction over the naturals and over sequences, and what it shows of    *)
(* FlattenSeq.  The induction theorems of the library quantify over an     *)
(* operator, which the provers cannot instantiate; stated for a set of     *)
(* naturals, induction is a first-order fact, and follows from the least   *)
(* element that every set of naturals has.                                 *)
(***************************************************************************)
EXTENDS SequencesExt, WellFoundedInduction, TLAPS

LEMMA LeastNatural ==
  ASSUME NEW T \in SUBSET Nat, T # {}
  PROVE  \E n \in T : \A m \in T : n <= m
<1> DEFINE less == {ss \in Nat \X Nat : ss[1] < ss[2]}
<1>1. IsWellFoundedOn(less, Nat)
  BY NatLessThanWellFounded DEF OpToRel
<1> HIDE DEF less
<1>2. PICK n \in T : \A m \in T : <<m, n>> \notin less
  BY <1>1, WFMin
<1>3. \A m \in T : n <= m
  <2> SUFFICES ASSUME NEW m \in T PROVE n <= m
    OBVIOUS
  <2>1. m \in Nat /\ n \in Nat
    OBVIOUS
  <2>2. ~(m < n)
    BY <1>2, <2>1 DEF less
  <2> QED
    BY <2>1, <2>2
<1> QED
  BY <1>3

LEMMA LeastIsMin ==
  ASSUME NEW T \in SUBSET Nat, T # {}
  PROVE  Min(T) \in T /\ \A m \in T : Min(T) <= m
<1>1. \E n \in T : \A m \in T : n <= m
  BY LeastNatural
<1> QED
  BY <1>1, Zenon DEF Min

LEMMA Induction ==
  ASSUME NEW T \in SUBSET Nat, 0 \in T, \A n \in T : n + 1 \in T
  PROVE  T = Nat
<1> SUFFICES ASSUME Nat \ T # {} PROVE FALSE
  OBVIOUS
<1>1. PICK n \in Nat \ T : \A m \in Nat \ T : n <= m
  BY LeastNatural
<1>2. n - 1 \in Nat
  OBVIOUS
<1>3. n - 1 \in T
  BY <1>1, <1>2
<1> QED
  BY <1>3

\* The same up to a bound, from 1 on.
LEMMA InductionUpTo ==
  ASSUME NEW n \in Nat, NEW T, 1 \in T, \A m \in 1 .. n - 1 : m \in T => m + 1 \in T
  PROVE  1 .. n \subseteq T
<1> DEFINE U == {m \in Nat : m \in 1 .. n => m \in T}
<1>1. 0 \in U
  OBVIOUS
<1>2. ASSUME NEW m \in U PROVE m + 1 \in U
  <2>1. m + 1 \in 1 .. n => m = 0 \/ (m \in 1 .. n - 1 /\ m \in 1 .. n)
    OBVIOUS
  <2> QED
    BY <2>1
<1> HIDE DEF U
<1>3. U = Nat
  <2>1. U \in SUBSET Nat
    BY DEF U
  <2> QED
    BY <1>1, <1>2, <2>1, Induction
<1> QED
  BY <1>3 DEF U

\* From a bound downwards: each number, if it is so for all greater ones.
LEMMA InductionDown ==
  ASSUME NEW n \in Nat, NEW T,
         \A i \in 1 .. n : (\A j \in i + 1 .. n : j \in T) => i \in T
  PROVE  1 .. n \subseteq T
<1> SUFFICES ASSUME NEW k \in 1 .. n, k \notin T PROVE FALSE
  OBVIOUS
<1> DEFINE U == {m \in Nat : n - m \in 1 .. n /\ n - m \notin T}
<1>1. n - k \in U
  OBVIOUS
<1>2. U \in SUBSET Nat /\ U # {}
  BY <1>1
<1> HIDE DEF U
<1>3. PICK m \in U : \A v \in U : m <= v
  BY <1>2, LeastNatural
<1>4. m \in Nat /\ n - m \in 1 .. n /\ n - m \notin T
  BY DEF U
<1>5. PICK j \in n - m + 1 .. n : j \notin T
  BY <1>4
<1>6. n - j \in U
  BY <1>4, <1>5 DEF U
<1>7. m <= n - j
  BY <1>3, <1>6
<1> QED
  BY <1>4, <1>5, <1>7

\* A set of numbers with a bound has a greatest one.
LEMMA GreatestNatural ==
  ASSUME NEW n \in Nat, NEW T \in SUBSET (1 .. n), T # {}
  PROVE  Max(T) \in T
<1> DEFINE U == {u \in Nat : \A k \in T : k <= u}
<1>1. n \in U
  OBVIOUS
<1>2. U \in SUBSET Nat /\ U # {}
  BY <1>1
<1> HIDE DEF U
<1>3. PICK u \in U : \A v \in U : u <= v
  BY <1>2, LeastNatural
<1>4. u \in Nat /\ \A k \in T : k <= u
  BY DEF U
<1>5. u \in T
  <2> SUFFICES ASSUME u \notin T PROVE FALSE
    OBVIOUS
  <2>1. ASSUME NEW k \in T PROVE k \in Nat \ {0} /\ k <= u - 1
    <3>1. k \in 1 .. n /\ k <= u /\ k # u
      BY <1>4
    <3> QED
      BY <1>4, <3>1
  <2>2. u - 1 \in Nat
    <3>1. PICK k \in T : TRUE
      OBVIOUS
    <3> QED
      BY <1>4, <2>1, <3>1
  <2>3. u - 1 \in U
    BY <2>1, <2>2 DEF U
  <2> QED
    BY <1>3, <1>4, <2>3
<1>6. \E x \in T : \A y \in T : x >= y
  BY <1>4, <1>5
<1> QED
  BY <1>6, Zenon DEF Max

LEMMA GreatestIsMax ==
  ASSUME NEW n \in Nat, NEW T \in SUBSET (0 .. n), T # {}
  PROVE  Max(T) \in T /\ \A y \in T : Max(T) >= y
<1> DEFINE U == {m \in Nat : m <= n /\ n - m \in T}
<1>1. U \in SUBSET Nat /\ U # {}
  <2>1. PICK k \in T : TRUE
    OBVIOUS
  <2>2. k \in 0 .. n
    BY <2>1
  <2>3. n - k \in U
    BY <2>1, <2>2
  <2> QED
    BY <2>3
<1> HIDE DEF U
<1>2. PICK m \in U : \A v \in U : m <= v
  BY <1>1, LeastNatural
<1>3. m \in Nat /\ m <= n /\ n - m \in T
  BY DEF U
<1>4. ASSUME NEW y \in T PROVE n - m >= y
  <2>1. y \in 0 .. n
    OBVIOUS
  <2>2. n - y \in U
    BY <2>1 DEF U
  <2>3. m <= n - y
    BY <1>2, <2>2
  <2> QED
    BY <1>3, <2>1, <2>3
<1>5. \E x \in T : \A y \in T : x >= y
  BY <1>3, <1>4
<1> QED
  BY <1>5, Zenon DEF Max

LEMMA Concatenation ==
  ASSUME NEW S, NEW s \in Seq(S), NEW t \in Seq(S), NEW x, x = s \o t
  PROVE  /\ x \in Seq(S) /\ Len(x) = Len(s) + Len(t)
         /\ \A k \in DOMAIN s : k \in DOMAIN x /\ x[k] = s[k]
         /\ \A k \in DOMAIN t : Len(s) + k \in DOMAIN x /\ x[Len(s) + k] = t[k]
<1>1. Len(s) \in Nat /\ Len(t) \in Nat
  OBVIOUS
<1> QED
  BY <1>1

----------------------------------------------------------------------------
(* FlattenSeq *)

\* The function by which FlattenSeq goes through the sequences, from the first one on.
Flattens(f, seqs, n) ==
  f = [i \in 1 .. n |-> IF i = 1 THEN seqs[i] ELSE f[i - 1] \o seqs[i]]

LEMMA FlattensExists ==
  ASSUME NEW seqs, NEW n \in Nat
  PROVE  \E f : Flattens(f, seqs, n)
<1> DEFINE T == {m \in Nat : \E f : Flattens(f, seqs, m)}
<1>1. 0 \in T
  <2> DEFINE f == [i \in 1 .. 0 |-> seqs[i]]
  <2>1. f = [i \in 1 .. 0 |-> IF i = 1 THEN seqs[i] ELSE f[i - 1] \o seqs[i]]
    OBVIOUS
  <2> HIDE DEF f
  <2> QED
    BY <2>1 DEF Flattens
<1>2. ASSUME NEW m \in T PROVE m + 1 \in T
  <2>1. PICK f : Flattens(f, seqs, m)
    OBVIOUS
  <2> DEFINE next(i, g) == IF i = 1 THEN seqs[i] ELSE g[i - 1] \o seqs[i]
             g == [i \in 1 .. m + 1 |-> IF i \in 1 .. m THEN f[i] ELSE next(i, f)]
  <2>2. ASSUME NEW i \in 1 .. m + 1 PROVE g[i] = next(i, g)
    <3>1. i \in Nat /\ m \in Nat
      OBVIOUS
    <3>2. i # 1 => i - 1 \in 1 .. m /\ i - 1 \in 1 .. m + 1
      BY <3>1
    <3>3. i # 1 => g[i - 1] = f[i - 1]
      BY <3>2
    <3>4. next(i, g) = next(i, f)
      BY <3>3
    <3>5. i \in 1 .. m => f[i] = next(i, f)
      BY <2>1 DEF Flattens
    <3> QED
      BY <3>4, <3>5
  <2>3. Flattens(g, seqs, m + 1)
    <3>1. g = [i \in 1 .. m + 1 |-> g[i]]
      OBVIOUS
    <3> HIDE DEF g
    <3> QED
      BY <2>2, <3>1 DEF Flattens
  <2> QED
    BY <2>3
<1> HIDE DEF T
<1>3. T = Nat
  <2>1. T \in SUBSET Nat
    BY DEF T
  <2> QED
    BY <1>1, <1>2, <2>1, Induction
<1> QED
  BY <1>3 DEF T

LEMMA FlattenSeqIsRecursive ==
  ASSUME NEW seqs, Len(seqs) \in Nat \ {0}
  PROVE  \E f : Flattens(f, seqs, Len(seqs)) /\ FlattenSeq(seqs) = f[Len(seqs)]
<1> DEFINE f == CHOOSE g : Flattens(g, seqs, Len(seqs))
<1>1. Flattens(f, seqs, Len(seqs))
  BY FlattensExists
<1>2. FlattenSeq(seqs) = f[Len(seqs)]
  BY Zenon DEF FlattenSeq, Flattens
<1> QED
  BY <1>1, <1>2

LEMMA FlattensSteps ==
  ASSUME NEW f, NEW seqs, NEW n \in Nat \ {0}, Flattens(f, seqs, n)
  PROVE  /\ f[1] = seqs[1]
         /\ \A m \in 1 .. n - 1 : f[m + 1] = f[m] \o seqs[m + 1]
<1>1. \A i \in 1 .. n : f[i] = IF i = 1 THEN seqs[i] ELSE f[i - 1] \o seqs[i]
  BY DEF Flattens
<1>2. ASSUME NEW m \in 1 .. n - 1 PROVE f[m + 1] = f[m] \o seqs[m + 1]
  <2>1. PICK i \in 1 .. n : i = m + 1 /\ i # 1 /\ i - 1 = m
    <3>1. m + 1 \in 1 .. n /\ m + 1 # 1 /\ m + 1 - 1 = m
      OBVIOUS
    <3> QED
      BY <3>1
  <2>2. f[i] = f[i - 1] \o seqs[i]
    BY <1>1, <2>1
  <2> QED
    BY <2>1, <2>2
<1>3. 1 \in 1 .. n
  OBVIOUS
<1>4. f[1] = seqs[1]
  BY <1>1, <1>3, Zenon
<1> QED
  BY <1>2, <1>4

\* The flattened sequence holds what the sequences hold, and nothing else.
LEMMA FlattenElements ==
  ASSUME NEW S, NEW seqs \in Seq(Seq(S))
  PROVE  /\ FlattenSeq(seqs) \in Seq(S)
         /\ \A i \in DOMAIN seqs : \A j \in DOMAIN seqs[i] :
              \E k \in DOMAIN FlattenSeq(seqs) : FlattenSeq(seqs)[k] = seqs[i][j]
<1>1. Len(seqs) \in Nat /\ DOMAIN seqs = 1 .. Len(seqs)
  OBVIOUS
<1>2. CASE Len(seqs) = 0
  <2>1. FlattenSeq(seqs) = seqs /\ seqs = <<>>
    BY <1>2 DEF FlattenSeq
  <2> QED
    BY <2>1
<1>3. CASE Len(seqs) # 0
  <2>1. PICK f : Flattens(f, seqs, Len(seqs)) /\ FlattenSeq(seqs) = f[Len(seqs)]
    BY <1>1, <1>3, FlattenSeqIsRecursive
  <2>2. /\ f[1] = seqs[1]
        /\ \A m \in 1 .. Len(seqs) - 1 : f[m + 1] = f[m] \o seqs[m + 1]
    BY <1>1, <1>3, <2>1, FlattensSteps
  <2> DEFINE Holds(m) ==
               /\ f[m] \in Seq(S)
               /\ \A i \in 1 .. m : \A j \in DOMAIN seqs[i] :
                    \E k \in DOMAIN f[m] : f[m][k] = seqs[i][j]
             T == {m \in 1 .. Len(seqs) : Holds(m)}
  <2>3. 1 \in T
    BY <1>1, <1>3, <2>2
  <2>4. ASSUME NEW m \in 1 .. Len(seqs) - 1, m \in T PROVE m + 1 \in T
    <3>1. m + 1 \in 1 .. Len(seqs) /\ m \in Nat
      BY <1>1
    <3>2. f[m] \in Seq(S) /\ seqs[m + 1] \in Seq(S)
      BY <1>1, <2>4, <3>1
    <3>3. PICK u, v, x : u = f[m] /\ v = seqs[m + 1] /\ x = u \o v
      OBVIOUS
    <3>4. x = f[m + 1]
      BY <2>2, <3>3
    <3>5. /\ x \in Seq(S)
          /\ \A k \in DOMAIN u : k \in DOMAIN x /\ x[k] = u[k]
          /\ \A k \in DOMAIN v : Len(u) + k \in DOMAIN x /\ x[Len(u) + k] = v[k]
      <4>1. u \in Seq(S) /\ v \in Seq(S) /\ x = u \o v
        BY <3>2, <3>3
      <4> QED
        BY <4>1, Concatenation
    <3>6. ASSUME NEW i \in 1 .. m + 1, NEW j \in DOMAIN seqs[i]
          PROVE  \E k \in DOMAIN x : x[k] = seqs[i][j]
      <4>1. CASE i = m + 1
        BY <3>3, <3>5, <4>1, Zenon
      <4>2. CASE i \in 1 .. m
        <5>1. PICK k \in DOMAIN u : u[k] = seqs[i][j]
          BY <2>4, <3>3, <4>2
        <5> QED
          BY <3>5, <5>1
      <4>3. i = m + 1 \/ i \in 1 .. m
        BY <3>1
      <4> QED
        BY <4>1, <4>2, <4>3
    <3> QED
      BY <3>1, <3>4, <3>5, <3>6
  <2> HIDE DEF T
  <2>5. 1 .. Len(seqs) \subseteq T
    BY <1>1, <2>3, <2>4, InductionUpTo
  <2>6. Len(seqs) \in T
    BY <1>1, <1>3, <2>5
  <2>7. Holds(Len(seqs))
    BY <2>6 DEF T
  <2> QED
    BY <1>1, <2>1, <2>7
<1> QED
  BY <1>2, <1>3

\* Sequences of one length lie one after the other at that distance.
LEMMA FlattenRecords ==
  ASSUME NEW S, NEW seqs \in Seq(Seq(S)), NEW w \in Nat,
         \A i \in DOMAIN seqs : Len(seqs[i]) = w
  PROVE  /\ Len(FlattenSeq(seqs)) = w * Len(seqs)
         /\ \A i \in DOMAIN seqs : \A j \in 1 .. w :
              FlattenSeq(seqs)[w * (i - 1) + j] = seqs[i][j]
<1>1. Len(seqs) \in Nat /\ DOMAIN seqs = 1 .. Len(seqs)
  OBVIOUS
<1>2. CASE Len(seqs) = 0
  <2>1. FlattenSeq(seqs) = seqs /\ seqs = <<>>
    BY <1>2 DEF FlattenSeq
  <2> QED
    BY <2>1
<1>3. CASE Len(seqs) # 0
  <2>1. PICK f : Flattens(f, seqs, Len(seqs)) /\ FlattenSeq(seqs) = f[Len(seqs)]
    BY <1>1, <1>3, FlattenSeqIsRecursive
  <2>2. /\ f[1] = seqs[1]
        /\ \A m \in 1 .. Len(seqs) - 1 : f[m + 1] = f[m] \o seqs[m + 1]
    BY <1>1, <1>3, <2>1, FlattensSteps
  <2> DEFINE Holds(m) ==
               /\ f[m] \in Seq(S) /\ Len(f[m]) = w * m
               /\ \A i \in 1 .. m : \A j \in 1 .. w : f[m][w * (i - 1) + j] = seqs[i][j]
             T == {m \in 1 .. Len(seqs) : Holds(m)}
  <2>3. 1 \in T
    <3>1. f[1] \in Seq(S) /\ Len(f[1]) = w /\ 1 \in 1 .. Len(seqs)
      BY <1>1, <1>3, <2>2
    <3>2. w * 1 = w /\ \A j \in 1 .. w : w * (1 - 1) + j = j
      OBVIOUS
    <3>3. ASSUME NEW i \in 1 .. 1, NEW j \in 1 .. w
          PROVE  f[1][w * (i - 1) + j] = seqs[i][j]
      BY <2>2, <3>2
    <3> QED
      BY <3>1, <3>2, <3>3
  <2>4. ASSUME NEW m \in 1 .. Len(seqs) - 1, m \in T PROVE m + 1 \in T
    <3>1. m + 1 \in 1 .. Len(seqs) /\ m \in Nat
      BY <1>1
    <3>2. f[m] \in Seq(S) /\ seqs[m + 1] \in Seq(S) /\ Len(seqs[m + 1]) = w
      <4>1. f[m] \in Seq(S)
        BY <2>4
      <4>2. PICK i \in DOMAIN seqs : i = m + 1
        BY <1>1, <3>1
      <4>3. seqs[i] \in Seq(S)
        OBVIOUS
      <4>4. Len(seqs[i]) = w
        OBVIOUS
      <4> QED
        BY <4>1, <4>2, <4>3, <4>4
    <3>3. PICK l \in Nat : l = w * m /\ l + w = w * (m + 1)
      <4>1. w * m \in Nat /\ w * m + w = w * (m + 1)
        BY <3>1, SMTT(30)
      <4> QED
        BY <4>1
    <3>4. Len(f[m]) = l
      BY <2>4, <3>3
    <3>5. PICK u, v, x : u = f[m] /\ v = seqs[m + 1] /\ x = u \o v
      OBVIOUS
    <3>6. /\ x = f[m + 1]
          /\ x \in Seq(S) /\ Len(x) = l + w
          /\ \A k \in 1 .. l : x[k] = u[k]
          /\ \A k \in 1 .. w : x[l + k] = v[k]
      <4>1. x = f[m + 1]
        BY <2>2, <3>5
      <4>2. u \in Seq(S) /\ v \in Seq(S) /\ Len(u) = l /\ Len(v) = w
        BY <3>2, <3>4, <3>5
      <4>3. DOMAIN u = 1 .. l /\ DOMAIN v = 1 .. w
        BY <4>2
      <4>4. /\ x \in Seq(S) /\ Len(x) = Len(u) + Len(v)
            /\ \A k \in DOMAIN u : k \in DOMAIN x /\ x[k] = u[k]
            /\ \A k \in DOMAIN v : Len(u) + k \in DOMAIN x /\ x[Len(u) + k] = v[k]
        <5>1. u \in Seq(S) /\ v \in Seq(S) /\ x = u \o v
          BY <3>5, <4>2
        <5> QED
          BY <5>1, Concatenation
      <4> QED
        BY <4>1, <4>2, <4>3, <4>4
    <3>7. ASSUME NEW i \in 1 .. m + 1, NEW j \in 1 .. w
          PROVE  x[w * (i - 1) + j] = seqs[i][j]
      <4>1. CASE i = m + 1
        <5>1. i - 1 = m
          BY <3>1, <4>1
        <5> QED
          BY <3>3, <3>5, <3>6, <4>1, <5>1
      <4>2. CASE i \in 1 .. m
        <5>1. PICK k \in 1 .. l : k = w * (i - 1) + j
          <6>1. PICK a \in Nat, b \in Nat : a = i - 1 /\ m = a + 1 + b
            <7>1. i - 1 \in Nat /\ m - i \in Nat /\ m = i - 1 + 1 + (m - i)
              BY <3>1, <4>2
            <7> QED
              BY <7>1
          <6>2. w * m = w * a + w + w * b /\ w * a \in Nat /\ w * b \in Nat
            BY <6>1, SMTT(30)
          <6>3. PICK wa \in Nat, wb \in Nat : wa = w * a /\ wb = w * b
            BY <6>2
          <6>4. wa + j \in 1 .. l
            <7>1. l = wa + w + wb
              BY <3>3, <6>2, <6>3
            <7> QED
              BY <7>1
          <6> QED
            BY <6>1, <6>3, <6>4
        <5>2. f[m][w * (i - 1) + j] = seqs[i][j]
          BY <2>4, <4>2
        <5> QED
          BY <3>5, <3>6, <5>1, <5>2
      <4>3. i = m + 1 \/ i \in 1 .. m
        BY <3>1
      <4> QED
        BY <4>1, <4>2, <4>3
    <3> QED
      BY <3>1, <3>3, <3>6, <3>7
  <2> HIDE DEF T
  <2>5. 1 .. Len(seqs) \subseteq T
    BY <1>1, <2>3, <2>4, InductionUpTo
  <2>6. Len(seqs) \in T
    BY <1>1, <1>3, <2>5
  <2>7. Holds(Len(seqs))
    BY <2>6 DEF T
  <2> QED
    BY <1>1, <2>1, <2>7
<1> QED
  BY <1>2, <1>3
=============================================================================
