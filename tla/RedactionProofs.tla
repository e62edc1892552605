-------------------------- MODULE RedactionProofs --------------------------
(***************************************************************************)
(* Proofs about Redaction, for every URL, every text and every bound: what *)
(* str::replace and from_utf8_lossy make of a text of any length, and that *)
(* what is shown of it is UTF-8, bounded and without a letter of the key.  *)
(***************************************************************************)
EXTENDS Redaction, FlatteningProofs, SequenceTheorems

----------------------------------------------------------------------------
(* str::replace *)

\* The function by which ReplaceIn goes through a text, from the last letter on.
Replaces(f, text, pattern, by) ==
  f = [i \in 1 .. Len(text) + 1 |->
         IF i > Len(text) THEN <<>>
         ELSE IF OccursAt(pattern, text, i) THEN by \o f[i + Len(pattern)]
         ELSE <<text[i]>> \o f[i + 1]]

LEMMA ReplacesExists ==
  ASSUME NEW text, NEW pattern, NEW by, Len(text) \in Nat, Len(pattern) \in Nat \ {0}
  PROVE  \E f : Replaces(f, text, pattern, by)
<1> DEFINE n == Len(text)
           L == Len(pattern)
           next(i, g) == IF i > n THEN <<>>
                         ELSE IF OccursAt(pattern, text, i) THEN by \o g[i + L]
                         ELSE <<text[i]>> \o g[i + 1]
           T == {m \in Nat : m <= n => \E f : f = [i \in n + 1 - m .. n + 1 |-> f[i]]
                                         /\ \A i \in n + 1 - m .. n + 1 : f[i] = next(i, f)}
<1>1. 0 \in T
  <2> DEFINE f == [i \in n + 1 - 0 .. n + 1 |-> <<>>]
  <2>1. f = [i \in n + 1 - 0 .. n + 1 |-> f[i]] /\ \A i \in n + 1 - 0 .. n + 1 : f[i] = next(i, f)
    OBVIOUS
  <2> HIDE DEF f, next
  <2> QED
    BY <2>1
<1>2. ASSUME NEW m \in T PROVE m + 1 \in T
  <2> SUFFICES ASSUME m + 1 <= n
               PROVE  \E f : f = [i \in n + 1 - (m + 1) .. n + 1 |-> f[i]]
                             /\ \A i \in n + 1 - (m + 1) .. n + 1 : f[i] = next(i, f)
    OBVIOUS
  <2>0. m \in Nat /\ n \in Nat /\ L \in Nat \ {0}
    OBVIOUS
  <2>1. PICK f : \A i \in n + 1 - m .. n + 1 : f[i] = next(i, f)
    BY <2>0
  <2> DEFINE g == [i \in n + 1 - (m + 1) .. n + 1 |-> IF i \in n + 1 - m .. n + 1 THEN f[i] ELSE next(i, f)]
  <2>2. ASSUME NEW i \in n + 1 - (m + 1) .. n + 1 PROVE g[i] = next(i, g)
    <3>1. i <= n => i + 1 \in n + 1 - m .. n + 1
      BY <2>0
    <3>2. i <= n /\ OccursAt(pattern, text, i) => i + L \in n + 1 - m .. n + 1
      BY <2>0 DEF OccursAt
    <3>3. \A j \in n + 1 - m .. n + 1 : g[j] = f[j]
      BY <2>0
    <3>4. g[i] = next(i, f)
      BY <2>1
    <3>5. i <= n \/ i > n
      BY <2>0
    <3> HIDE DEF g
    <3>6. next(i, g) = next(i, f)
      BY <3>1, <3>2, <3>3, <3>5
    <3> QED
      BY <3>4, <3>6
  <2>3. g = [i \in n + 1 - (m + 1) .. n + 1 |-> g[i]]
    OBVIOUS
  <2> HIDE DEF g, next
  <2> QED
    BY <2>2, <2>3
<1>3. n \in T
  <2> HIDE DEF T
  <2>1. T \in SUBSET Nat
    BY DEF T
  <2>2. T = Nat
    BY <1>1, <1>2, <2>1, Induction
  <2> QED
    BY <2>2
<1>4. PICK f : f = [i \in 1 .. n + 1 |-> f[i]] /\ \A i \in 1 .. n + 1 : f[i] = next(i, f)
  <2>1. n + 1 - n = 1 /\ n <= n
    OBVIOUS
  <2> HIDE DEF next
  <2> QED
    BY <1>3, <2>1
<1>5. f = [i \in 1 .. n + 1 |-> next(i, f)]
  <2> HIDE DEF next
  <2> QED
    BY <1>4
<1> QED
  BY <1>5 DEF Replaces

LEMMA ReplaceInIsRecursive ==
  ASSUME NEW text, NEW pattern, NEW by, Len(text) \in Nat, Len(pattern) \in Nat \ {0}
  PROVE  \E f : Replaces(f, text, pattern, by) /\ ReplaceIn(text, pattern, by) = f[1]
<1> DEFINE f == CHOOSE g : Replaces(g, text, pattern, by)
<1>1. Replaces(f, text, pattern, by)
  BY ReplacesExists
<1>2. ReplaceIn(text, pattern, by) = f[1]
  BY Zenon DEF ReplaceIn, Replaces
<1> QED
  BY <1>1, <1>2

\* One step of it: a letter, or an echo and what replaces it.
LEMMA ReplaceStep ==
  ASSUME NEW f, NEW text, NEW pattern, NEW by, Replaces(f, text, pattern, by),
         Len(text) \in Nat, Len(pattern) \in Nat \ {0}
  PROVE  /\ f[Len(text) + 1] = <<>>
         /\ \A i \in 1 .. Len(text) :
              /\ OccursAt(pattern, text, i) =>
                   i + Len(pattern) \in i + 1 .. Len(text) + 1 /\ f[i] = by \o f[i + Len(pattern)]
              /\ ~OccursAt(pattern, text, i) => f[i] = <<text[i]>> \o f[i + 1]
<1> DEFINE n == Len(text)
           L == Len(pattern)
           next(i) == IF i > n THEN <<>>
                      ELSE IF OccursAt(pattern, text, i) THEN by \o f[i + L]
                      ELSE <<text[i]>> \o f[i + 1]
<1>1. \A i \in 1 .. n + 1 : f[i] = next(i)
  <2>1. f = [i \in 1 .. n + 1 |-> next(i)]
    BY DEF Replaces
  <2> HIDE DEF next, n
  <2> QED
    BY <2>1
<1>2. f[n + 1] = <<>>
  <2>1. n + 1 \in 1 .. n + 1 /\ n + 1 > n
    OBVIOUS
  <2>2. f[n + 1] = next(n + 1)
    BY <1>1, <2>1
  <2> QED
    BY <2>1, <2>2
<1>3. ASSUME NEW i \in 1 .. n
      PROVE  /\ OccursAt(pattern, text, i) => i + L \in i + 1 .. n + 1 /\ f[i] = by \o f[i + L]
             /\ ~OccursAt(pattern, text, i) => f[i] = <<text[i]>> \o f[i + 1]
  <2>1. f[i] = next(i) /\ ~(i > n)
    <3>1. i \in 1 .. n + 1 /\ ~(i > n)
      OBVIOUS
    <3> HIDE DEF next, n
    <3> QED
      BY <1>1, <3>1
  <2>2. OccursAt(pattern, text, i) => i + L \in i + 1 .. n + 1
    BY DEF OccursAt
  <2> QED
    BY <2>1, <2>2, Zenon
<1> QED
  BY <1>2, <1>3

LEMMA Singleton ==
  ASSUME NEW S, NEW a \in S
  PROVE  <<a>> \in Seq(S) /\ Len(<<a>>) = 1 /\ <<a>>[1] = a
OBVIOUS

\* What the replacement makes of a text is a text.
LEMMA ReplacedIsText ==
  ASSUME NEW S, NEW text \in Seq(S), NEW pattern \in Seq(S), pattern # <<>>, NEW by \in Seq(S),
         NEW f, Replaces(f, text, pattern, by)
  PROVE  \A i \in 1 .. Len(text) + 1 : f[i] \in Seq(S)
<1> DEFINE n == Len(text)
           T == {i \in 1 .. n + 1 : f[i] \in Seq(S)}
<1>1. n \in Nat /\ Len(pattern) \in Nat \ {0} /\ \A i \in 1 .. n : text[i] \in S
  OBVIOUS
<1>2. /\ f[n + 1] = <<>>
      /\ \A i \in 1 .. n :
           /\ OccursAt(pattern, text, i) =>
                i + Len(pattern) \in i + 1 .. n + 1 /\ f[i] = by \o f[i + Len(pattern)]
           /\ ~OccursAt(pattern, text, i) => f[i] = <<text[i]>> \o f[i + 1]
  BY <1>1, ReplaceStep
<1> HIDE DEF n
<1>3. ASSUME NEW i \in 1 .. n + 1, \A j \in i + 1 .. n + 1 : j \in T
      PROVE  i \in T
  <2> SUFFICES f[i] \in Seq(S)
    OBVIOUS
  <2>1. CASE i = n + 1
    <3>1. <<>> \in Seq(S)
      OBVIOUS
    <3> QED
      BY <1>2, <2>1, <3>1, Zenon
  <2>2. CASE i # n + 1
    <3>1. i \in 1 .. n /\ i + 1 \in i + 1 .. n + 1
      BY <1>1, <2>2
    <3>2. f[i + 1] \in Seq(S) /\ <<text[i]>> \in Seq(S)
      BY <1>1, <1>3, <3>1
    <3>3. ASSUME NEW s \in Seq(S), NEW t \in Seq(S) PROVE s \o t \in Seq(S)
      OBVIOUS
    <3>4. CASE OccursAt(pattern, text, i)
      <4>1. f[i + Len(pattern)] \in Seq(S) /\ f[i] = by \o f[i + Len(pattern)]
        BY <1>2, <1>3, <3>1, <3>4
      <4> QED
        BY <3>3, <4>1, Zenon
    <3>5. CASE ~OccursAt(pattern, text, i)
      BY <1>2, <3>1, <3>2, <3>3, <3>5, Zenon
    <3> QED
      BY <3>4, <3>5
  <2> QED
    BY <2>1, <2>2
<1> HIDE DEF T
<1>4. 1 .. n + 1 \subseteq T
  <2>1. n + 1 \in Nat
    BY <1>1
  <2> QED
    BY <1>3, <2>1, InductionDown
<1> QED
  BY <1>4 DEF T, n

----------------------------------------------------------------------------
(* Where a text has the key *)

\* The two halves of KeyOnlyInEchoes, for a text that is given by itself.
Covered(path, text) ==
  \A p \in DOMAIN text :
    text[p] = "k" => \E e \in Occurrences(path, text) : e <= p /\ p < e + Len(path)

Apart(path, text) ==
  \A e, o \in Occurrences(path, text) : e < o => e + Len(path) <= o

\* The text x goes on with t after d letters.
GoesOn(x, d, t) ==
  /\ Len(x) = d + Len(t)
  /\ \A p \in 1 .. Len(t) : x[d + p] = t[p]

BeginsWith(x, s) == \A p \in 1 .. Len(s) : x[p] = s[p]

LEMMA ConcatGoesOn ==
  ASSUME NEW S, NEW s \in Seq(S), NEW t \in Seq(S), NEW x, x = s \o t
  PROVE  x \in Seq(S) /\ GoesOn(x, Len(s), t) /\ BeginsWith(x, s)
<1>1. /\ x \in Seq(S) /\ Len(x) = Len(s) + Len(t)
      /\ \A k \in DOMAIN s : x[k] = s[k]
      /\ \A k \in DOMAIN t : x[Len(s) + k] = t[k]
  BY Concatenation
<1>2. DOMAIN s = 1 .. Len(s) /\ DOMAIN t = 1 .. Len(t)
  OBVIOUS
<1> QED
  BY <1>1, <1>2 DEF GoesOn, BeginsWith

LEMMA OccursBehind ==
  ASSUME NEW S, NEW x \in Seq(S), NEW t \in Seq(S), NEW path \in Seq(S),
         NEW d \in Nat, GoesOn(x, d, t), NEW p \in 1 .. Len(t)
  PROVE  OccursAt(path, x, d + p) <=> OccursAt(path, t, p)
<1>1. Len(x) \in Nat /\ Len(t) \in Nat /\ Len(path) \in Nat /\ DOMAIN path = 1 .. Len(path)
  OBVIOUS
<1>2. Len(x) = d + Len(t)
  BY DEF GoesOn
<1>3. ASSUME p + Len(path) - 1 <= Len(t)
      PROVE  \A j \in 1 .. Len(path) : x[d + p + j - 1] = t[p + j - 1]
  <2> SUFFICES ASSUME NEW j \in 1 .. Len(path) PROVE x[d + p + j - 1] = t[p + j - 1]
    OBVIOUS
  <2>1. p + j - 1 \in 1 .. Len(t) /\ d + p + j - 1 = d + (p + j - 1)
    BY <1>1, <1>3
  <2>2. x[d + (p + j - 1)] = t[p + j - 1]
    BY <2>1 DEF GoesOn
  <2> QED
    BY <2>1, <2>2
<1>4. d + p + Len(path) - 1 <= Len(x) <=> p + Len(path) - 1 <= Len(t)
  BY <1>1, <1>2
<1> QED
  BY <1>1, <1>3, <1>4 DEF OccursAt

\* No echo lies across the place before the letter i.
Clear(path, text, i) ==
  \A e \in Occurrences(path, text) : e < i => e + Len(path) <= i

\* Behind an echo no other one is cut, nor behind a letter with which none begins.
LEMMA ClearBehind ==
  ASSUME NEW S, NEW text \in Seq(S), NEW path \in Seq(S), path # <<>>,
         Covered(path, text), Apart(path, text),
         NEW i \in 1 .. Len(text)
  PROVE  /\ OccursAt(path, text, i) => Clear(path, text, i + Len(path))
         /\ ~OccursAt(path, text, i) /\ Clear(path, text, i) =>
              Clear(path, text, i + 1) /\ text[i] # "k"
<1>1. DOMAIN text = 1 .. Len(text) /\ Len(text) \in Nat /\ Len(path) \in Nat \ {0}
  OBVIOUS
<1>2. \A e \in Occurrences(path, text) : e \in 1 .. Len(text) /\ OccursAt(path, text, e)
  BY <1>1 DEF Occurrences
<1>3. ASSUME OccursAt(path, text, i)
      PROVE  Clear(path, text, i + Len(path))
  <2>1. i \in Occurrences(path, text)
    BY <1>1, <1>3 DEF Occurrences
  <2> SUFFICES ASSUME NEW e \in Occurrences(path, text), e < i + Len(path)
               PROVE  e + Len(path) <= i + Len(path)
    BY DEF Clear
  <2>2. i < e => i + Len(path) <= e
    BY <2>1 DEF Apart
  <2> QED
    BY <1>1, <1>2, <2>2
<1>4. ASSUME ~OccursAt(path, text, i), Clear(path, text, i)
      PROVE  Clear(path, text, i + 1) /\ text[i] # "k"
  <2>1. ASSUME NEW e \in Occurrences(path, text), e < i + 1
        PROVE  e + Len(path) <= i
    <3>1. e < i
      BY <1>2, <1>4, <2>1
    <3> QED
      BY <1>4, <3>1 DEF Clear
  <2>2. Clear(path, text, i + 1)
    <3> SUFFICES ASSUME NEW e \in Occurrences(path, text), e < i + 1
                 PROVE  e + Len(path) <= i + 1
      BY DEF Clear
    <3> QED
      BY <1>1, <1>2, <2>1
  <2>3. ASSUME text[i] = "k" PROVE FALSE
    <3>1. PICK e \in Occurrences(path, text) : e <= i /\ i < e + Len(path)
      BY <1>1, <2>3 DEF Covered
    <3>2. e + Len(path) <= i
      BY <1>2, <2>1, <3>1
    <3> QED
      BY <1>1, <1>2, <3>1, <3>2
  <2> QED
    BY <2>2, <2>3
<1> QED
  BY <1>3, <1>4

HasKey(x) == \E p \in DOMAIN x : x[p] = "k"

LEMMA ConcatHasNoKey ==
  ASSUME NEW S, NEW s \in Seq(S), NEW t \in Seq(S), NEW x, x = s \o t, ~HasKey(s), ~HasKey(t)
  PROVE  ~HasKey(x)
<1> SUFFICES ASSUME NEW p \in DOMAIN x, x[p] = "k" PROVE FALSE
  BY DEF HasKey
<1>1. (p \in DOMAIN s /\ s[p] = x[p]) \/ (p - Len(s) \in DOMAIN t /\ t[p - Len(s)] = x[p])
  OBVIOUS
<1> QED
  BY <1>1 DEF HasKey

LEMMA NoKeyIsLeft ==
  ASSUME NEW S, NEW text \in Seq(S), NEW path \in Seq(S), path # <<>>, NEW by \in Seq(S),
         ~HasKey(by), Covered(path, text), Apart(path, text)
  PROVE  ReplaceIn(text, path, by) \in Seq(S) /\ ~HasKey(ReplaceIn(text, path, by))
<1> DEFINE n == Len(text)
           L == Len(path)
<1>1. n \in Nat /\ L \in Nat \ {0} /\ \A i \in 1 .. n : text[i] \in S
  OBVIOUS
<1>2. PICK f : Replaces(f, text, path, by) /\ ReplaceIn(text, path, by) = f[1]
  BY <1>1, ReplaceInIsRecursive
<1>3. \A i \in 1 .. n + 1 : f[i] \in Seq(S)
  BY <1>2, ReplacedIsText
<1>4. /\ f[n + 1] = <<>>
      /\ \A i \in 1 .. n :
           /\ OccursAt(path, text, i) => i + L \in i + 1 .. n + 1 /\ f[i] = by \o f[i + L]
           /\ ~OccursAt(path, text, i) => f[i] = <<text[i]>> \o f[i + 1]
  BY <1>1, <1>2, ReplaceStep
<1>5. \A i \in 1 .. n :
        /\ OccursAt(path, text, i) => Clear(path, text, i + L)
        /\ ~OccursAt(path, text, i) /\ Clear(path, text, i) =>
             Clear(path, text, i + 1) /\ text[i] # "k"
  BY ClearBehind
<1> DEFINE T == {i \in 1 .. n + 1 : Clear(path, text, i) => ~HasKey(f[i])}
<1> HIDE DEF n, L
<1>6. ASSUME NEW i \in 1 .. n + 1, \A j \in i + 1 .. n + 1 : j \in T
      PROVE  i \in T
  <2> SUFFICES ASSUME Clear(path, text, i) PROVE ~HasKey(f[i])
    OBVIOUS
  <2>1. CASE i = n + 1
    <3>1. ~HasKey(<<>>)
      BY DEF HasKey
    <3> QED
      BY <1>4, <2>1, <3>1, Zenon
  <2>2. CASE i \in 1 .. n /\ OccursAt(path, text, i)
    <3>1. i + L \in i + 1 .. n + 1 /\ f[i] = by \o f[i + L] /\ Clear(path, text, i + L)
      BY <1>4, <1>5, <2>2
    <3>2. i + L \in 1 .. n + 1
      BY <1>1, <3>1
    <3>3. ~HasKey(f[i + L]) /\ f[i + L] \in Seq(S)
      BY <1>3, <1>6, <3>1, <3>2
    <3> QED
      BY <3>1, <3>3, ConcatHasNoKey
  <2>3. CASE i \in 1 .. n /\ ~OccursAt(path, text, i)
    <3>1. f[i] = <<text[i]>> \o f[i + 1] /\ Clear(path, text, i + 1) /\ text[i] # "k"
      BY <1>4, <1>5, <2>3
    <3>2. i + 1 \in i + 1 .. n + 1 /\ i + 1 \in 1 .. n + 1
      BY <1>1, <2>3
    <3>3. ~HasKey(f[i + 1]) /\ f[i + 1] \in Seq(S)
      BY <1>3, <1>6, <3>1, <3>2
    <3>4. <<text[i]>> \in Seq(S) /\ ~HasKey(<<text[i]>>)
      BY <1>1, <2>3, <3>1 DEF HasKey
    <3>5. PICK s \in Seq(S) : s = <<text[i]>> /\ ~HasKey(s)
      BY <3>4
    <3>6. PICK t \in Seq(S) : t = f[i + 1] /\ ~HasKey(t)
      BY <3>3
    <3>7. PICK x : x = f[i] /\ x = s \o t /\ ~HasKey(s) /\ ~HasKey(t)
      BY <3>1, <3>5, <3>6
    <3>8. ~HasKey(x)
      BY <3>7, ConcatHasNoKey
    <3> QED
      BY <3>7, <3>8
  <2> QED
    BY <1>1, <2>1, <2>2, <2>3
<1>7. 1 .. n + 1 \subseteq T
  <2>1. n + 1 \in Nat
    BY <1>1
  <2> HIDE DEF T
  <2> QED
    BY <1>6, <2>1, InductionDown
<1>8. Clear(path, text, 1) /\ 1 \in 1 .. n + 1
  BY <1>1 DEF Clear, Occurrences, n
<1> QED
  BY <1>2, <1>3, <1>7, <1>8

----------------------------------------------------------------------------
(* Scrubbing the URL leaves the echoes of the path whole *)

\* A text goes on as it did: in front of its rest there are d letters, which hold at most one
\* echo, at their beginning, and no key outside of it.
LEMMA GoodBefore ==
  ASSUME NEW S, NEW x \in Seq(S), NEW t \in Seq(S), NEW path \in Seq(S), path # <<>>,
         NEW d \in Nat, GoesOn(x, d, t), Covered(path, t), Apart(path, t),
         \A p \in 1 .. d : OccursAt(path, x, p) => p = 1 /\ Len(path) <= d,
         \A p \in 1 .. d : x[p] = "k" => OccursAt(path, x, 1) /\ d = Len(path)
  PROVE  Covered(path, x) /\ Apart(path, x)
<1>1. /\ Len(x) \in Nat /\ Len(t) \in Nat /\ Len(path) \in Nat \ {0} /\ Len(x) = d + Len(t)
      /\ DOMAIN x = 1 .. Len(x) /\ DOMAIN t = 1 .. Len(t)
  BY DEF GoesOn
<1>2. \A p \in 1 .. Len(t) :
        /\ d + p \in 1 .. Len(x) /\ x[d + p] = t[p]
        /\ d + p \in Occurrences(path, x) <=> p \in Occurrences(path, t)
  <2> SUFFICES ASSUME NEW p \in 1 .. Len(t)
               PROVE  /\ d + p \in 1 .. Len(x) /\ x[d + p] = t[p]
                      /\ d + p \in Occurrences(path, x) <=> p \in Occurrences(path, t)
    OBVIOUS
  <2>1. OccursAt(path, x, d + p) <=> OccursAt(path, t, p)
    BY OccursBehind
  <2>2. d + p \in 1 .. Len(x) /\ x[d + p] = t[p]
    BY <1>1 DEF GoesOn
  <2> QED
    BY <1>1, <2>1, <2>2 DEF Occurrences
<1>3. ASSUME NEW p \in 1 .. Len(x), p > d
      PROVE  p - d \in 1 .. Len(t) /\ d + (p - d) = p
  BY <1>1, <1>3
<1>4. \A e \in Occurrences(path, x) :
        /\ e \in 1 .. Len(x)
        /\ e <= d => e = 1 /\ Len(path) <= d
        /\ e > d => e - d \in Occurrences(path, t)
  <2> SUFFICES ASSUME NEW e \in Occurrences(path, x)
               PROVE  /\ e \in 1 .. Len(x)
                      /\ e <= d => e = 1 /\ Len(path) <= d
                      /\ e > d => e - d \in Occurrences(path, t)
    OBVIOUS
  <2>1. e \in 1 .. Len(x) /\ OccursAt(path, x, e)
    BY <1>1 DEF Occurrences
  <2>2. e <= d => e \in 1 .. d
    BY <2>1
  <2>3. e > d => e - d \in 1 .. Len(t) /\ d + (e - d) = e
    BY <1>3, <2>1
  <2>4. e > d => e - d \in Occurrences(path, t)
    BY <1>2, <2>3
  <2> QED
    BY <2>1, <2>2, <2>4
<1>5. Covered(path, x)
  <2> SUFFICES ASSUME NEW p \in 1 .. Len(x), x[p] = "k"
               PROVE  \E e \in Occurrences(path, x) : e <= p /\ p < e + Len(path)
    BY <1>1 DEF Covered
  <2>1. CASE p <= d
    <3>1. p \in 1 .. d
      BY <2>1
    <3>2. OccursAt(path, x, 1) /\ d = Len(path)
      BY <3>1
    <3>3. 1 \in Occurrences(path, x)
      BY <1>1, <3>1, <3>2 DEF Occurrences
    <3> QED
      BY <3>1, <3>2, <3>3
  <2>2. CASE p > d
    <3>1. p - d \in 1 .. Len(t) /\ d + (p - d) = p
      BY <1>3, <2>2
    <3>2. t[p - d] = "k"
      BY <1>2, <3>1
    <3>3. PICK e \in Occurrences(path, t) : e <= p - d /\ p - d < e + Len(path)
      BY <1>1, <3>1, <3>2 DEF Covered
    <3>4. e \in 1 .. Len(t)
      BY <1>1, <3>3 DEF Occurrences
    <3>5. d + e \in Occurrences(path, x)
      BY <1>2, <3>3, <3>4
    <3> QED
      BY <1>1, <3>3, <3>4, <3>5
  <2> QED
    BY <2>1, <2>2
<1>6. Apart(path, x)
  <2> SUFFICES ASSUME NEW e \in Occurrences(path, x), NEW o \in Occurrences(path, x), e < o
               PROVE  e + Len(path) <= o
    BY DEF Apart
  <2>1. /\ e \in 1 .. Len(x) /\ o \in 1 .. Len(x)
        /\ e <= d => e = 1 /\ Len(path) <= d
        /\ o <= d => o = 1
        /\ e > d => e - d \in Occurrences(path, t)
        /\ o > d => o - d \in Occurrences(path, t)
    BY <1>4
  <2>2. o > d
    BY <2>1
  <2>3. CASE e <= d
    BY <1>1, <2>1, <2>2, <2>3
  <2>4. CASE e > d
    <3>1. e - d < o - d
      BY <2>1
    <3>2. (e - d) + Len(path) <= o - d
      BY <2>1, <2>2, <2>4, <3>1 DEF Apart
    <3> QED
      BY <1>1, <2>1, <3>2
  <2> QED
    BY <2>1, <2>3, <2>4
<1> QED
  BY <1>5, <1>6

\* ReplaceStep, letter by letter.
LEMMA ReplaceGoesOn ==
  ASSUME NEW S, NEW text \in Seq(S), NEW url \in Seq(S), url # <<>>, NEW by \in Seq(S),
         NEW f, Replaces(f, text, url, by)
  PROVE  /\ \A i \in 1 .. Len(text) + 1 : f[i] \in Seq(S)
         /\ f[Len(text) + 1] = <<>>
         /\ \A i \in 1 .. Len(text) :
              /\ OccursAt(url, text, i) =>
                   /\ i + Len(url) \in i + 1 .. Len(text) + 1
                   /\ GoesOn(f[i], Len(by), f[i + Len(url)])
                   /\ \A p \in 1 .. Len(by) : f[i][p] = by[p]
              /\ ~OccursAt(url, text, i) => GoesOn(f[i], 1, f[i + 1]) /\ f[i][1] = text[i]
<1>1. Len(text) \in Nat /\ Len(url) \in Nat \ {0} /\ \A i \in 1 .. Len(text) : text[i] \in S
  OBVIOUS
<1>2. \A i \in 1 .. Len(text) + 1 : f[i] \in Seq(S)
  BY ReplacedIsText
<1>3. /\ f[Len(text) + 1] = <<>>
      /\ \A i \in 1 .. Len(text) :
           /\ OccursAt(url, text, i) =>
                i + Len(url) \in i + 1 .. Len(text) + 1 /\ f[i] = by \o f[i + Len(url)]
           /\ ~OccursAt(url, text, i) => f[i] = <<text[i]>> \o f[i + 1]
  BY <1>1, ReplaceStep
<1>4. ASSUME NEW i \in 1 .. Len(text)
      PROVE  /\ OccursAt(url, text, i) =>
                   /\ i + Len(url) \in i + 1 .. Len(text) + 1
                   /\ GoesOn(f[i], Len(by), f[i + Len(url)])
                   /\ \A p \in 1 .. Len(by) : f[i][p] = by[p]
             /\ ~OccursAt(url, text, i) => GoesOn(f[i], 1, f[i + 1]) /\ f[i][1] = text[i]
  <2>1. CASE OccursAt(url, text, i)
    <3>1. i + Len(url) \in i + 1 .. Len(text) + 1 /\ f[i] = by \o f[i + Len(url)]
      BY <1>3, <2>1
    <3>2. PICK t \in Seq(S) : t = f[i + Len(url)]
      BY <1>1, <1>2, <3>1
    <3>3. PICK x : x = f[i] /\ x = by \o t
      BY <3>1, <3>2
    <3>4. x = by \o t
      BY <3>3
    <3>5. x \in Seq(S) /\ GoesOn(x, Len(by), t) /\ BeginsWith(x, by)
      BY <3>4, ConcatGoesOn
    <3> QED
      BY <2>1, <3>1, <3>2, <3>3, <3>5 DEF BeginsWith
  <2>2. CASE ~OccursAt(url, text, i)
    <3>1. f[i] = <<text[i]>> \o f[i + 1]
      BY <1>3, <2>2, Zenon
    <3>2. PICK t \in Seq(S) : t = f[i + 1]
      <4>1. i + 1 \in 1 .. Len(text) + 1
        BY <1>1
      <4> QED
        BY <1>2, <4>1, Zenon
    <3>3. PICK s \in Seq(S) : s = <<text[i]>> /\ Len(s) = 1 /\ s[1] = text[i]
      <4>1. text[i] \in S
        BY <1>1
      <4> QED
        BY <4>1, Singleton, Zenon
    <3>4. PICK x : x = f[i] /\ x = s \o t
      BY <3>1, <3>2, <3>3
    <3>5. x = s \o t
      BY <3>4
    <3>6. x \in Seq(S) /\ GoesOn(x, Len(s), t) /\ BeginsWith(x, s)
      BY <3>5, ConcatGoesOn
    <3>7. GoesOn(x, 1, t) /\ x[1] = text[i]
      BY <3>3, <3>6 DEF BeginsWith
    <3> QED
      BY <2>2, <3>2, <3>4, <3>7
  <2> QED
    BY <2>1, <2>2
<1> QED
  BY <1>2, <1>3, <1>4

\* What holds no letter of a mark has been copied, in one piece.
LEMMA CopiedInOnePiece ==
  ASSUME NEW S, NEW text \in Seq(S), NEW url \in Seq(S), url # <<>>,
         NEW by \in Seq(S), by # <<>>, NEW f, Replaces(f, text, url, by)
  PROVE  \A i \in 1 .. Len(text) + 1 : \A m \in 1 .. Len(f[i]) :
           (\A q \in 1 .. m : \A b \in 1 .. Len(by) : f[i][q] # by[b]) =>
             i + m - 1 <= Len(text) /\ \A q \in 1 .. m : f[i][q] = text[i + q - 1]
<1> DEFINE n == Len(text)
           copied(i, m) == \A q \in 1 .. m : \A b \in 1 .. Len(by) : f[i][q] # by[b]
           T == {i \in 1 .. n + 1 : \A m \in 1 .. Len(f[i]) : copied(i, m) =>
                   i + m - 1 <= n /\ \A q \in 1 .. m : f[i][q] = text[i + q - 1]}
<1>1. n \in Nat /\ Len(url) \in Nat \ {0} /\ 1 \in 1 .. Len(by)
  OBVIOUS
<1>2. /\ \A i \in 1 .. n + 1 : f[i] \in Seq(S)
      /\ f[n + 1] = <<>>
      /\ \A i \in 1 .. n :
           /\ OccursAt(url, text, i) =>
                /\ i + Len(url) \in i + 1 .. n + 1
                /\ GoesOn(f[i], Len(by), f[i + Len(url)])
                /\ \A p \in 1 .. Len(by) : f[i][p] = by[p]
           /\ ~OccursAt(url, text, i) => GoesOn(f[i], 1, f[i + 1]) /\ f[i][1] = text[i]
  BY ReplaceGoesOn
<1> HIDE DEF n
<1>3. ASSUME NEW i \in 1 .. n + 1, \A j \in i + 1 .. n + 1 : j \in T
      PROVE  i \in T
  <2> SUFFICES ASSUME NEW m \in 1 .. Len(f[i]), copied(i, m)
               PROVE  i + m - 1 <= n /\ \A q \in 1 .. m : f[i][q] = text[i + q - 1]
    OBVIOUS
  <2>1. i \in 1 .. n
    <3>1. Len(<<>>) = 0
      OBVIOUS
    <3>2. i # n + 1
      BY <1>2, <3>1
    <3> QED
      BY <1>1, <3>2
  <2>2. ~OccursAt(url, text, i)
    <3> SUFFICES ASSUME OccursAt(url, text, i) PROVE FALSE
      OBVIOUS
    <3>1. f[i][1] = by[1]
      BY <1>1, <1>2, <2>1
    <3>2. 1 \in 1 .. m /\ 1 \in 1 .. Len(by)
      BY <1>1
    <3>3. f[i][1] # by[1]
      BY <3>2
    <3> QED
      BY <3>1, <3>3
  <2>3. Len(f[i]) = 1 + Len(f[i + 1]) /\ f[i][1] = text[i]
        /\ \A p \in 1 .. Len(f[i + 1]) : f[i][1 + p] = f[i + 1][p]
    BY <1>2, <2>1, <2>2 DEF GoesOn
  <2>4. i + 1 \in i + 1 .. n + 1 /\ i + 1 \in 1 .. n + 1
    BY <1>1, <2>1
  <2>5. Len(f[i + 1]) \in Nat
    BY <1>2, <2>4
  <2>6. CASE m = 1
    BY <2>1, <2>3, <2>6
  <2>7. CASE m # 1
    <3>1. m - 1 \in 1 .. Len(f[i + 1])
      BY <2>3, <2>5, <2>7
    <3>2. copied(i + 1, m - 1)
      <4> SUFFICES ASSUME NEW q \in 1 .. m - 1, NEW b \in 1 .. Len(by)
                   PROVE  f[i + 1][q] # by[b]
        OBVIOUS
      <4>1. q \in 1 .. Len(f[i + 1]) /\ 1 + q \in 1 .. m
        BY <2>5, <3>1
      <4>2. f[i][1 + q] = f[i + 1][q] /\ f[i][1 + q] # by[b]
        BY <2>3, <4>1
      <4> QED
        BY <4>2
    <3>3. /\ i + 1 + (m - 1) - 1 <= n
          /\ \A q \in 1 .. m - 1 : f[i + 1][q] = text[i + 1 + q - 1]
      BY <1>3, <2>4, <3>1, <3>2
    <3>4. ASSUME NEW q \in 1 .. m PROVE f[i][q] = text[i + q - 1]
      <4>1. CASE q = 1
        BY <2>1, <2>3, <4>1
      <4>2. CASE q # 1
        <5>1. q - 1 \in 1 .. m - 1 /\ q - 1 \in 1 .. Len(f[i + 1]) /\ 1 + (q - 1) = q
              /\ i + 1 + (q - 1) - 1 = i + q - 1
          BY <2>1, <2>5, <3>1, <4>2
        <5>2. f[i][1 + (q - 1)] = f[i + 1][q - 1] /\ f[i + 1][q - 1] = text[i + 1 + (q - 1) - 1]
          BY <2>3, <3>3, <5>1
        <5> QED
          BY <5>1, <5>2
      <4> QED
        BY <4>1, <4>2
    <3> QED
      BY <2>1, <3>3, <3>4
  <2> QED
    BY <2>6, <2>7
<1>4. 1 .. n + 1 \subseteq T
  <2>1. n + 1 \in Nat
    BY <1>1
  <2> HIDE DEF T
  <2> QED
    BY <1>3, <2>1, InductionDown
<1> QED
  BY <1>4 DEF n

\* Only an echo of the text looks like one after the URL has been scrubbed.
LEMMA EchoIsCopied ==
  ASSUME NEW S, NEW text \in Seq(S), NEW url \in Seq(S), url # <<>>,
         NEW by \in Seq(S), by # <<>>, NEW f, Replaces(f, text, url, by),
         NEW path \in Seq(S), path # <<>>,
         \A j \in DOMAIN path : \A b \in DOMAIN by : path[j] # by[b],
         NEW i \in 1 .. Len(text) + 1, OccursAt(path, f[i], 1)
  PROVE  i \in 1 .. Len(text) /\ OccursAt(path, text, i)
<1> DEFINE L == Len(path)
<1>1. L \in Nat \ {0} /\ DOMAIN path = 1 .. L /\ DOMAIN by = 1 .. Len(by) /\ Len(text) \in Nat
  OBVIOUS
<1>2. f[i] \in Seq(S)
  BY ReplaceGoesOn
<1>3. 1 + L - 1 <= Len(f[i]) /\ \A j \in DOMAIN path : f[i][1 + j - 1] = path[j]
  BY DEF OccursAt
<1>4. L \in 1 .. Len(f[i])
  BY <1>1, <1>2, <1>3
<1>5. \A j \in 1 .. L : f[i][j] = path[j]
  <2>1. \A j \in 1 .. L : 1 + j - 1 = j
    BY <1>1
  <2> QED
    BY <1>1, <1>3, <2>1
<1>6. \A q \in 1 .. L : \A b \in 1 .. Len(by) : f[i][q] # by[b]
  BY <1>1, <1>5
<1> HIDE DEF L
<1>7. i + L - 1 <= Len(text) /\ \A q \in 1 .. L : f[i][q] = text[i + q - 1]
  BY <1>4, <1>6, CopiedInOnePiece
<1>8. i \in 1 .. Len(text)
  BY <1>1, <1>7
<1>9. OccursAt(path, text, i)
  <2>1. \A j \in DOMAIN path : text[i + j - 1] = path[j]
    BY <1>1, <1>5, <1>7
  <2> QED
    BY <1>7, <2>1 DEF OccursAt, L
<1> QED
  BY <1>8, <1>9

\* An echo of the path within which no URL begins is copied whole.
LEMMA EchoIsKept ==
  ASSUME NEW S, NEW text \in Seq(S), NEW url \in Seq(S), url # <<>>,
         NEW by \in Seq(S), NEW f, Replaces(f, text, url, by),
         NEW path \in Seq(S), path # <<>>,
         NEW i \in 1 .. Len(text), OccursAt(path, text, i),
         \A q \in 0 .. Len(path) - 1 : ~OccursAt(url, text, i + q)
  PROVE  /\ i + Len(path) \in i + 1 .. Len(text) + 1
         /\ GoesOn(f[i], Len(path), f[i + Len(path)])
         /\ OccursAt(path, f[i], 1)
         /\ \A q \in 1 .. Len(path) - 1 : GoesOn(f[i], q, f[i + q])
<1> DEFINE L == Len(path)
           T == {q \in 1 .. L : GoesOn(f[i], q, f[i + q]) /\ \A p \in 1 .. q : f[i][p] = text[i + p - 1]}
<1>1. L \in Nat \ {0} /\ DOMAIN path = 1 .. L /\ Len(text) \in Nat
  OBVIOUS
<1>2. i + L - 1 <= Len(text) /\ \A j \in 1 .. L : text[i + j - 1] = path[j]
  BY <1>1 DEF OccursAt
<1>3. /\ \A k \in 1 .. Len(text) + 1 : f[k] \in Seq(S)
      /\ \A k \in 1 .. Len(text) :
           ~OccursAt(url, text, k) => GoesOn(f[k], 1, f[k + 1]) /\ f[k][1] = text[k]
  BY ReplaceGoesOn
<1>4. \A q \in 0 .. L - 1 :
        /\ i + q \in 1 .. Len(text)
        /\ GoesOn(f[i + q], 1, f[i + q + 1]) /\ f[i + q][1] = text[i + q]
  <2> SUFFICES ASSUME NEW q \in 0 .. L - 1
               PROVE  /\ i + q \in 1 .. Len(text)
                      /\ GoesOn(f[i + q], 1, f[i + q + 1]) /\ f[i + q][1] = text[i + q]
    OBVIOUS
  <2>1. i + q \in 1 .. Len(text)
    BY <1>1, <1>2
  <2> QED
    BY <1>3, <2>1
<1> HIDE DEF L
<1>5. 1 \in T
  <2>1. 0 \in 0 .. L - 1 /\ i + 0 = i /\ i + 0 + 1 = i + 1 /\ 1 \in 1 .. L /\ i + 1 - 1 = i
    BY <1>1
  <2>2. GoesOn(f[i], 1, f[i + 1]) /\ f[i][1] = text[i]
    BY <1>4, <2>1
  <2> QED
    BY <2>1, <2>2
<1>6. ASSUME NEW q \in 1 .. L - 1, q \in T PROVE q + 1 \in T
  <2>1. q \in 0 .. L - 1 /\ q + 1 \in 1 .. L
    BY <1>1
  <2>2. /\ i + q \in 1 .. Len(text)
        /\ GoesOn(f[i + q], 1, f[i + q + 1]) /\ f[i + q][1] = text[i + q]
    BY <1>4, <2>1
  <2>3. GoesOn(f[i], q, f[i + q]) /\ \A p \in 1 .. q : f[i][p] = text[i + p - 1]
    BY <1>6
  <2>4. PICK z : z = f[i + q + 1]
    OBVIOUS
  <2>5. i + (q + 1) = i + q + 1 /\ i + q + 1 \in 1 .. Len(text) + 1 /\ i + (q + 1) - 1 = i + q
    BY <1>1, <2>2
  <2>6. Len(z) \in Nat
    BY <1>3, <2>4, <2>5
  <2>7. /\ Len(f[i]) = q + Len(f[i + q]) /\ Len(f[i + q]) = 1 + Len(z)
        /\ \A p \in 1 .. Len(f[i + q]) : f[i][q + p] = f[i + q][p]
        /\ \A p \in 1 .. Len(z) : f[i + q][1 + p] = z[p]
    BY <2>2, <2>3, <2>4 DEF GoesOn
  <2>8. GoesOn(f[i], q + 1, z)
    <3>1. ASSUME NEW p \in 1 .. Len(z) PROVE f[i][q + 1 + p] = z[p]
      <4>1. 1 + p \in 1 .. Len(f[i + q])
        BY <2>6, <2>7
      <4>2. q + (1 + p) = q + 1 + p
        BY <1>1
      <4> QED
        BY <2>7, <4>1, <4>2
    <3>2. Len(f[i]) = q + 1 + Len(z)
      BY <2>6, <2>7
    <3> QED
      BY <3>1, <3>2 DEF GoesOn
  <2>9. f[i][q + 1] = text[i + (q + 1) - 1]
    <3>1. 1 \in 1 .. Len(f[i + q])
      BY <2>6, <2>7
    <3> QED
      BY <2>2, <2>5, <2>7, <3>1
  <2>10. \A p \in 1 .. q + 1 : f[i][p] = text[i + p - 1]
    <3>1. \A p \in 1 .. q + 1 : p \in 1 .. q \/ p = q + 1
      BY <2>1
    <3> QED
      BY <2>3, <2>9, <3>1
  <2> QED
    BY <2>1, <2>4, <2>5, <2>8, <2>10
<1>7. 1 .. L \subseteq T
  <2> HIDE DEF T
  <2> QED
    BY <1>1, <1>5, <1>6, InductionUpTo
<1>8. L \in T /\ \A q \in 1 .. L - 1 : q \in T
  <2>1. L \in 1 .. L /\ 1 .. L - 1 \subseteq 1 .. L
    BY <1>1
  <2> HIDE DEF T
  <2> QED
    BY <1>7, <2>1
<1>9. GoesOn(f[i], L, f[i + L]) /\ \A p \in 1 .. L : f[i][p] = text[i + p - 1]
  BY <1>8
<1>10. i + L \in i + 1 .. Len(text) + 1
  BY <1>1, <1>2
<1>11. OccursAt(path, f[i], 1)
  <2>1. Len(f[i + L]) \in Nat
    BY <1>3, <1>10
  <2>2. 1 + L - 1 <= Len(f[i])
    BY <1>1, <1>9, <2>1 DEF GoesOn
  <2>3. \A j \in 1 .. L : f[i][1 + j - 1] = path[j]
    <3>1. \A j \in 1 .. L : 1 + j - 1 = j
      BY <1>1
    <3> QED
      BY <1>2, <1>9, <3>1
  <2> QED
    BY <1>1, <2>2, <2>3 DEF OccursAt, L
<1> QED
  BY <1>8, <1>9, <1>10, <1>11 DEF L

\* The path stands at the end of the URL.
EndsWith(url, path) ==
  /\ Len(path) <= Len(url)
  /\ \A j \in 1 .. Len(path) : url[Len(url) - Len(path) + j] = path[j]

\* An echo of the URL ends in one of the path.
LEMMA UrlEndsInEcho ==
  ASSUME NEW S, NEW text \in Seq(S), NEW url \in Seq(S), NEW path \in Seq(S), path # <<>>,
         EndsWith(url, path), NEW i \in 1 .. Len(text), OccursAt(url, text, i)
  PROVE  i + Len(url) - Len(path) \in Occurrences(path, text)
<1> DEFINE z == i + Len(url) - Len(path)
<1>1. /\ Len(text) \in Nat /\ Len(url) \in Nat /\ Len(path) \in Nat \ {0}
      /\ DOMAIN text = 1 .. Len(text) /\ DOMAIN url = 1 .. Len(url) /\ DOMAIN path = 1 .. Len(path)
      /\ Len(path) <= Len(url)
  BY DEF EndsWith
<1>2. i + Len(url) - 1 <= Len(text) /\ \A j \in 1 .. Len(url) : text[i + j - 1] = url[j]
  BY <1>1 DEF OccursAt
<1>3. z \in 1 .. Len(text) /\ z + Len(path) = i + Len(url)
  BY <1>1, <1>2
<1>4. ASSUME NEW j \in 1 .. Len(path) PROVE text[z + j - 1] = path[j]
  <2>1. Len(url) - Len(path) + j \in 1 .. Len(url) /\ i + (Len(url) - Len(path) + j) - 1 = z + j - 1
    BY <1>1
  <2>2. text[i + (Len(url) - Len(path) + j) - 1] = url[Len(url) - Len(path) + j]
    BY <1>2, <2>1
  <2>3. url[Len(url) - Len(path) + j] = path[j]
    BY DEF EndsWith
  <2> QED
    BY <2>1, <2>2, <2>3
<1> HIDE DEF z
<1>5. z + Len(path) - 1 <= Len(text)
  BY <1>1, <1>2, <1>3
<1>6. z \in Occurrences(path, text)
  BY <1>1, <1>3, <1>4, <1>5 DEF Occurrences, OccursAt
<1> QED
  BY <1>6 DEF z

\* Behind an echo of the URL no echo of the path is cut.
LEMMA ClearBehindUrl ==
  ASSUME NEW S, NEW text \in Seq(S), NEW url \in Seq(S), NEW path \in Seq(S), path # <<>>,
         EndsWith(url, path), Apart(path, text),
         NEW i \in 1 .. Len(text), OccursAt(url, text, i)
  PROVE  Clear(path, text, i + Len(url))
<1> DEFINE z == i + Len(url) - Len(path)
<1>1. /\ Len(url) \in Nat /\ Len(path) \in Nat \ {0}
      /\ DOMAIN text = 1 .. Len(text) /\ z + Len(path) = i + Len(url)
  OBVIOUS
<1>2. z \in Occurrences(path, text)
  BY UrlEndsInEcho
<1> HIDE DEF z
<1> SUFFICES ASSUME NEW e \in Occurrences(path, text), e < i + Len(url)
             PROVE  e + Len(path) <= i + Len(url)
  BY DEF Clear
<1>3. e \in 1 .. Len(text) /\ z \in 1 .. Len(text)
  BY <1>1, <1>2 DEF Occurrences
<1>4. (e < z => e + Len(path) <= z) /\ (z < e => z + Len(path) <= e)
  BY <1>2 DEF Apart
<1> QED
  BY <1>1, <1>3, <1>4

LEMMA EchoesStayWhole ==
  ASSUME NEW S, NEW text \in Seq(S), NEW url \in Seq(S), NEW path \in Seq(S), path # <<>>,
         NEW by \in Seq(S), by # <<>>, ~HasKey(by),
         \A j \in DOMAIN path : \A b \in DOMAIN by : path[j] # by[b],
         EndsWith(url, path), Covered(path, text), Apart(path, text),
         \A e \in Occurrences(path, text) : \A o \in Occurrences(url, text) :
           e < o => e + Len(path) <= o
  PROVE  /\ ReplaceIn(text, url, by) \in Seq(S)
         /\ Covered(path, ReplaceIn(text, url, by)) /\ Apart(path, ReplaceIn(text, url, by))
<1> DEFINE n == Len(text)
           Lu == Len(url)
           Lp == Len(path)
           Lb == Len(by)
<1>1. /\ n \in Nat /\ Lp \in Nat \ {0} /\ Lb \in Nat \ {0}
      /\ DOMAIN text = 1 .. n /\ DOMAIN path = 1 .. Lp /\ DOMAIN by = 1 .. Lb
  OBVIOUS
<1>2. Lu \in Nat \ {0} /\ url # <<>>
  BY DEF EndsWith
<1>3. PICK f : Replaces(f, text, url, by) /\ ReplaceIn(text, url, by) = f[1]
  BY <1>1, <1>2, ReplaceInIsRecursive
<1>4. /\ \A i \in 1 .. n + 1 : f[i] \in Seq(S)
      /\ f[n + 1] = <<>>
      /\ \A i \in 1 .. n :
           /\ OccursAt(url, text, i) =>
                /\ i + Lu \in i + 1 .. n + 1
                /\ GoesOn(f[i], Lb, f[i + Lu])
                /\ \A p \in 1 .. Lb : f[i][p] = by[p]
           /\ ~OccursAt(url, text, i) => GoesOn(f[i], 1, f[i + 1]) /\ f[i][1] = text[i]
  BY <1>2, <1>3, ReplaceGoesOn
<1>5. \A i \in 1 .. n :
        /\ OccursAt(path, text, i) => Clear(path, text, i + Lp)
        /\ ~OccursAt(path, text, i) /\ Clear(path, text, i) =>
             Clear(path, text, i + 1) /\ text[i] # "k"
  BY ClearBehind
<1>6. \A i \in 1 .. n : OccursAt(url, text, i) => Clear(path, text, i + Lu)
  BY ClearBehindUrl
<1>7. \A i \in 1 .. n + 1 : OccursAt(path, f[i], 1) => i \in 1 .. n /\ OccursAt(path, text, i)
  BY <1>2, <1>3, EchoIsCopied
<1>8. \A e, o \in 1 .. n :
        /\ OccursAt(path, text, e) /\ OccursAt(path, text, o) /\ e < o => e + Lp <= o
        /\ OccursAt(path, text, e) /\ OccursAt(url, text, o) /\ e < o => e + Lp <= o
  BY <1>1 DEF Occurrences, Apart
<1>9. ASSUME NEW i \in 1 .. n, OccursAt(path, text, i), ~OccursAt(url, text, i)
      PROVE  /\ i + Lp \in i + 1 .. n + 1
             /\ GoesOn(f[i], Lp, f[i + Lp])
             /\ OccursAt(path, f[i], 1)
             /\ \A q \in 1 .. Lp - 1 : GoesOn(f[i], q, f[i + q])
  <2>1. i + Lp - 1 <= n
    BY <1>9 DEF OccursAt
  <2>2. ASSUME NEW q \in 0 .. Lp - 1, OccursAt(url, text, i + q) PROVE FALSE
    <3>1. PICK o : o = i + q
      OBVIOUS
    <3>2. o \in 1 .. n /\ (o = i \/ i < o) /\ ~(i + Lp <= o) /\ OccursAt(url, text, o)
      BY <1>1, <2>1, <2>2, <3>1
    <3>3. i # o
      BY <1>9, <3>2
    <3>4. i < o => i + Lp <= o
      BY <1>8, <1>9, <3>2
    <3> QED
      BY <3>2, <3>3, <3>4
  <2>3. \A q \in 0 .. Len(path) - 1 : ~OccursAt(url, text, i + q)
    BY <2>2
  <2> HIDE DEF n, Lp
  <2>4. i \in 1 .. Len(text)
    BY DEF n
  <2>5. /\ i + Len(path) \in i + 1 .. Len(text) + 1
        /\ GoesOn(f[i], Len(path), f[i + Len(path)])
        /\ OccursAt(path, f[i], 1)
        /\ \A q \in 1 .. Len(path) - 1 : GoesOn(f[i], q, f[i + q])
    BY <1>2, <1>3, <1>9, <2>3, <2>4, EchoIsKept
  <2> QED
    BY <2>5 DEF n, Lp
<1> DEFINE Good(x) == Covered(path, x) /\ Apart(path, x)
           T == {i \in 1 .. n + 1 : Clear(path, text, i) => Good(f[i])}
<1>10. ASSUME NEW x \in Seq(S), NEW t \in Seq(S), NEW d \in Nat, GoesOn(x, d, t), Good(t),
              \A p \in 1 .. d : OccursAt(path, x, p) => p = 1 /\ Lp <= d,
              \A p \in 1 .. d : x[p] = "k" => OccursAt(path, x, 1) /\ d = Lp
       PROVE  Good(x)
  BY <1>10, GoodBefore
<1>11. Good(<<>>)
  BY DEF Covered, Apart, Occurrences
<1> HIDE DEF n, Lu, Lp, Lb, Good
<1>12. ASSUME NEW i \in 1 .. n + 1, \A j \in i + 1 .. n + 1 : j \in T, Clear(path, text, i)
      PROVE  Good(f[i])
  <2>1. CASE i = n + 1
    BY <1>4, <1>11, <2>1
  <2>2. CASE i \in 1 .. n /\ OccursAt(url, text, i)
    <3>1. /\ i + Lu \in i + 1 .. n + 1 /\ GoesOn(f[i], Lb, f[i + Lu])
          /\ \A p \in 1 .. Lb : f[i][p] = by[p]
          /\ Clear(path, text, i + Lu)
      BY <1>4, <1>6, <2>2
    <3>2. i + Lu \in 1 .. n + 1 /\ i + Lu \in T
      BY <1>1, <1>12, <3>1
    <3>3. f[i] \in Seq(S) /\ f[i + Lu] \in Seq(S) /\ Good(f[i + Lu])
      BY <1>4, <3>1, <3>2
    <3>4. ASSUME NEW p \in 1 .. Lb PROVE ~OccursAt(path, f[i], p) /\ f[i][p] # "k"
      <4>1. f[i][p] = by[p] /\ p \in DOMAIN by
        BY <1>1, <3>1
      <4>2. 1 \in DOMAIN path /\ (OccursAt(path, f[i], p) => f[i][p + 1 - 1] = path[1])
        <5>1. 1 \in DOMAIN path
          BY <1>1
        <5> QED
          BY <5>1, Zenon DEF OccursAt
      <4>3. p + 1 - 1 = p
        BY <1>1
      <4> QED
        BY <1>1, <4>1, <4>2, <4>3 DEF HasKey
    <3> QED
      BY <1>1, <1>10, <3>1, <3>3, <3>4
  <2>3. CASE i \in 1 .. n /\ OccursAt(path, text, i) /\ ~OccursAt(url, text, i)
    <3>1. /\ i + Lp \in i + 1 .. n + 1 /\ GoesOn(f[i], Lp, f[i + Lp])
          /\ OccursAt(path, f[i], 1)
          /\ \A q \in 1 .. Lp - 1 : GoesOn(f[i], q, f[i + q])
          /\ Clear(path, text, i + Lp)
      BY <1>5, <1>9, <2>3
    <3>2. i + Lp \in 1 .. n + 1 /\ i + Lp \in T
      BY <1>1, <1>12, <3>1
    <3>3. f[i] \in Seq(S) /\ f[i + Lp] \in Seq(S) /\ Good(f[i + Lp])
      BY <1>4, <3>1, <3>2
    <3>4. ASSUME NEW p \in 1 .. Lp, OccursAt(path, f[i], p), p # 1 PROVE FALSE
      <4> DEFINE q == p - 1
      <4>1. q \in 1 .. Lp - 1 /\ q \in Nat /\ q + 1 = p /\ i + q \in 1 .. n + 1 /\ i < i + q /\ ~(i + Lp <= i + q)
        <5>1. Lp \in Nat /\ n \in Nat /\ i \in Nat /\ i + Lp <= n + 1 /\ p \in 1 .. Lp /\ p # 1
          BY <1>1, <2>3, <3>1, <3>4
        <5> HIDE DEF Lp, n
        <5> QED
          BY <5>1
      <4> HIDE DEF q
      <4>2. GoesOn(f[i], q, f[i + q]) /\ f[i + q] \in Seq(S)
        BY <1>4, <3>1, <4>1
      <4>3. 1 \in 1 .. Len(f[i + q])
        <5>1. p + Lp - 1 <= Len(f[i])
          BY <3>4 DEF OccursAt, Lp
        <5>2. Len(f[i]) = q + Len(f[i + q]) /\ Len(f[i + q]) \in Nat
          BY <4>2 DEF GoesOn
        <5> QED
          BY <1>1, <4>1, <5>1, <5>2
      <4>4. OccursAt(path, f[i], q + 1) <=> OccursAt(path, f[i + q], 1)
        BY <3>3, <4>1, <4>2, <4>3, OccursBehind
      <4>5. i + q \in 1 .. n /\ OccursAt(path, text, i + q)
        BY <1>7, <3>4, <4>1, <4>4
      <4> QED
        BY <1>8, <2>3, <4>1, <4>5
    <3> QED
      BY <1>1, <1>10, <3>1, <3>3, <3>4
  <2>4. CASE i \in 1 .. n /\ ~OccursAt(path, text, i) /\ ~OccursAt(url, text, i)
    <3>1. GoesOn(f[i], 1, f[i + 1]) /\ f[i][1] = text[i] /\ Clear(path, text, i + 1) /\ text[i] # "k"
      BY <1>4, <1>5, <1>12, <2>4
    <3>2. i + 1 \in i + 1 .. n + 1 /\ i + 1 \in 1 .. n + 1
      BY <1>1, <2>4
    <3>3. f[i] \in Seq(S) /\ f[i + 1] \in Seq(S) /\ Good(f[i + 1])
      BY <1>4, <1>12, <3>1, <3>2
    <3>4. ASSUME NEW p \in 1 .. 1 PROVE ~OccursAt(path, f[i], p) /\ f[i][p] # "k"
      <4>1. p = 1
        OBVIOUS
      <4> QED
        BY <1>7, <2>4, <3>1, <4>1
    <3> QED
      BY <1>10, <3>1, <3>3, <3>4
  <2> QED
    BY <1>1, <2>1, <2>2, <2>3, <2>4
<1>13. 1 .. n + 1 \subseteq T
  <2>1. n + 1 \in Nat
    BY <1>1
  <2>2. \A i \in 1 .. n + 1 : (\A j \in i + 1 .. n + 1 : j \in T) => i \in T
    BY <1>12
  <2> HIDE DEF T
  <2> QED
    BY <2>1, <2>2, InductionDown
<1>14. 1 \in 1 .. n + 1 /\ Clear(path, text, 1)
  BY <1>1 DEF Clear, Occurrences
<1>15. Good(f[1]) /\ f[1] \in Seq(S)
  BY <1>4, <1>13, <1>14
<1> QED
  BY <1>3, <1>15 DEF Good

----------------------------------------------------------------------------
(* Whole characters *)

LEMMA PlainIsUtf8 ==
  /\ IsUtf8(<<>>) /\ IsUtf8(<<"hi", "lo">>)
  /\ \A a : a \notin {"hi", "lo"} => IsUtf8(<<a>>)
BY DEF IsUtf8

LEMMA ConcatIsUtf8 ==
  ASSUME NEW S, NEW s \in Seq(S), NEW t \in Seq(S), IsUtf8(s), IsUtf8(t), NEW x, x = s \o t
  PROVE  IsUtf8(x)
<1>1. x \in Seq(S) /\ GoesOn(x, Len(s), t) /\ BeginsWith(x, s)
  BY ConcatGoesOn
<1>2. /\ Len(s) \in Nat /\ Len(t) \in Nat /\ Len(x) = Len(s) + Len(t)
      /\ \A p \in 1 .. Len(s) : x[p] = s[p]
      /\ \A p \in 1 .. Len(t) : x[Len(s) + p] = t[p]
  BY <1>1 DEF GoesOn, BeginsWith
<1>3. \A i \in 1 .. Len(s) + 1 : (i > 1 /\ s[i - 1] = "hi") <=> (i <= Len(s) /\ s[i] = "lo")
  BY DEF IsUtf8
<1>4. \A i \in 1 .. Len(t) + 1 : (i > 1 /\ t[i - 1] = "hi") <=> (i <= Len(t) /\ t[i] = "lo")
  BY DEF IsUtf8
<1> SUFFICES ASSUME NEW i \in 1 .. Len(x) + 1
             PROVE  (i > 1 /\ x[i - 1] = "hi") <=> (i <= Len(x) /\ x[i] = "lo")
  BY DEF IsUtf8
<1>5. CASE i <= Len(s)
  <2>1. i \in 1 .. Len(s) /\ i \in 1 .. Len(s) + 1 /\ i <= Len(x) /\ (i > 1 => i - 1 \in 1 .. Len(s))
    BY <1>2, <1>5
  <2>2. x[i] = s[i] /\ (i > 1 => x[i - 1] = s[i - 1])
    BY <1>2, <2>1
  <2>3. (i > 1 /\ s[i - 1] = "hi") <=> (i <= Len(s) /\ s[i] = "lo")
    BY <1>3, <2>1
  <2> QED
    BY <1>5, <2>1, <2>2, <2>3
<1>6. CASE i = Len(s) + 1
  <2>1. ~(i > 1 /\ s[i - 1] = "hi")
    <3>1. i \in 1 .. Len(s) + 1 /\ ~(i <= Len(s))
      BY <1>2, <1>6
    <3> QED
      BY <1>3, <3>1
  <2>2. i > 1 => x[i - 1] = s[i - 1]
    BY <1>2, <1>6
  <2>3. ~(1 <= Len(t) /\ t[1] = "lo")
    <3>1. 1 \in 1 .. Len(t) + 1 /\ ~(1 > 1)
      BY <1>2
    <3> QED
      BY <1>4, <3>1
  <2>4. i <= Len(x) => 1 \in 1 .. Len(t) /\ Len(s) + 1 = i
    BY <1>2, <1>6
  <2>5. i <= Len(x) => 1 <= Len(t) /\ x[i] = t[1]
    BY <1>2, <2>4
  <2> QED
    BY <2>1, <2>2, <2>3, <2>5
<1>7. CASE i > Len(s) + 1
  <2> DEFINE j == i - Len(s)
  <2>1. j \in 1 .. Len(t) + 1 /\ j > 1 /\ i > 1 /\ j - 1 \in 1 .. Len(t) /\ Len(s) + (j - 1) = i - 1
        /\ (i <= Len(x) <=> j <= Len(t)) /\ Len(s) + j = i
        /\ (j <= Len(t) => j \in 1 .. Len(t))
    BY <1>2, <1>7
  <2> HIDE DEF j
  <2>2. x[i - 1] = t[j - 1] /\ (j <= Len(t) => x[i] = t[j])
    BY <1>2, <2>1
  <2>3. (j > 1 /\ t[j - 1] = "hi") <=> (j <= Len(t) /\ t[j] = "lo")
    BY <1>4, <2>1
  <2> QED
    BY <2>1, <2>2, <2>3
<1> QED
  BY <1>2, <1>5, <1>6, <1>7

\* At the beginning of a letter, what follows is no half of one.
LEMMA Utf8At ==
  ASSUME NEW S, NEW text \in Seq(S), IsUtf8(text), NEW i \in 1 .. Len(text)
  PROVE  /\ text[i] = "hi" => i + 1 \in 1 .. Len(text) /\ text[i + 1] = "lo"
         /\ text[i] = "lo" => i > 1 /\ text[i - 1] = "hi"
<1>1. Len(text) \in Nat
  OBVIOUS
<1>2. i \in 1 .. Len(text) + 1 /\ i + 1 \in 1 .. Len(text) + 1 /\ i + 1 > 1 /\ i + 1 - 1 = i /\ i <= Len(text)
  BY <1>1
<1>3. (i > 1 /\ text[i - 1] = "hi") <=> (i <= Len(text) /\ text[i] = "lo")
  BY <1>2 DEF IsUtf8
<1>4. (i + 1 > 1 /\ text[i + 1 - 1] = "hi") <=> (i + 1 <= Len(text) /\ text[i + 1] = "lo")
  BY <1>2 DEF IsUtf8
<1> QED
  BY <1>1, <1>2, <1>3, <1>4

LEMMA LetterThenUtf8 ==
  ASSUME NEW S, NEW a \in S, a \notin {"hi", "lo"}, NEW t \in Seq(S), IsUtf8(t), NEW x, x = <<a>> \o t
  PROVE  IsUtf8(x)
<1>1. PICK s \in Seq(S) : s = <<a>>
  BY Singleton
<1>2. x = s \o t /\ IsUtf8(s)
  BY <1>1, PlainIsUtf8
<1> QED
  BY <1>2, ConcatIsUtf8

LEMMA TwoLetters ==
  ASSUME NEW S, NEW a \in S, NEW b \in S, NEW t \in Seq(S)
  PROVE  <<a>> \o (<<b>> \o t) = <<a, b>> \o t /\ <<a, b>> \in Seq(S)
<1>1. PICK h \in Seq(S) : h = <<a>>
  BY Singleton
<1>2. PICK l \in Seq(S) : l = <<b>>
  BY Singleton
<1>3. (h \o l) \o t = h \o (l \o t)
  <2>1. h \in Seq(S) /\ l \in Seq(S)
    BY <1>1, <1>2
  <2>2. \A s, y, z \in Seq(S) : (s \o y) \o z = s \o (y \o z)
    OBVIOUS
  <2> QED
    BY <2>1, <2>2
<1>4. PICK s \in Seq(S) : s = <<a, b>> /\ Len(s) = 2 /\ s[1] = a /\ s[2] = b
  <2>1. <<a, b>> \in Seq(S)
    OBVIOUS
  <2>2. Len(<<a, b>>) = 2 /\ <<a, b>>[1] = a /\ <<a, b>>[2] = b
    OBVIOUS
  <2> QED
    BY <2>1, <2>2, Zenon
<1>5. h \o l = s
  <2>1. /\ Len(h) = 1 /\ h[1] = a /\ h \in Seq(S)
        /\ Len(l) = 1 /\ l[1] = b /\ l \in Seq(S)
    BY <1>1, <1>2, Singleton
  <2>2. PICK u : u = h \o l
    OBVIOUS
  <2>3. u \in Seq(S) /\ Len(u) = 2 /\ u[1] = a /\ u[2] = b
    <3>1. u \in Seq(S) /\ GoesOn(u, Len(h), l) /\ BeginsWith(u, h)
      BY <2>2, ConcatGoesOn
    <3>2. 1 \in 1 .. 1
      OBVIOUS
    <3> QED
      BY <2>1, <3>1, <3>2 DEF GoesOn, BeginsWith
  <2>4. \A i \in 1 .. Len(u) : u[i] = s[i]
    <3>1. \A i \in 1 .. 2 : i = 1 \/ i = 2
      OBVIOUS
    <3> QED
      BY <1>4, <2>3, <3>1
  <2>5. u = s
    BY <1>4, <2>3, <2>4, SeqEqual
  <2> QED
    BY <2>2, <2>5
<1> QED
  BY <1>1, <1>2, <1>3, <1>4, <1>5, Zenon

LEMMA HalvesThenUtf8 ==
  ASSUME NEW S, "hi" \in S, "lo" \in S, NEW t \in Seq(S), IsUtf8(t),
         NEW x, x = <<"hi">> \o (<<"lo">> \o t)
  PROVE  IsUtf8(x)
<1>1. PICK a \in S, b \in S : a = "hi" /\ b = "lo"
  OBVIOUS
<1>2. <<a>> \o (<<b>> \o t) = <<a, b>> \o t /\ <<a, b>> \in Seq(S)
  BY TwoLetters, Zenon
<1>3. PICK s \in Seq(S) : s = <<a, b>>
  BY <1>2, Zenon
<1>4. x = s \o t
  BY <1>1, <1>2, <1>3, Zenon
<1>5. IsUtf8(s)
  BY <1>1, <1>3, PlainIsUtf8, Zenon
<1> QED
  BY <1>4, <1>5, ConcatIsUtf8

LEMMA ReplacedIsUtf8 ==
  ASSUME NEW S, NEW text \in Seq(S), NEW pattern \in Seq(S), pattern # <<>>, NEW by \in Seq(S),
         IsUtf8(text), IsUtf8(pattern), IsUtf8(by)
  PROVE  IsUtf8(ReplaceIn(text, pattern, by))
<1> DEFINE n == Len(text)
           L == Len(pattern)
           Starts(i) == i = 1 \/ text[i - 1] # "hi"
<1>1. n \in Nat /\ L \in Nat \ {0} /\ DOMAIN pattern = 1 .. L /\ \A i \in 1 .. n : text[i] \in S
  OBVIOUS
<1>2. PICK f : Replaces(f, text, pattern, by) /\ ReplaceIn(text, pattern, by) = f[1]
  BY <1>1, ReplaceInIsRecursive
<1>3. \A i \in 1 .. n + 1 : f[i] \in Seq(S)
  BY <1>2, ReplacedIsText
<1>4. /\ f[n + 1] = <<>>
      /\ \A i \in 1 .. n :
           /\ OccursAt(pattern, text, i) => i + L \in i + 1 .. n + 1 /\ f[i] = by \o f[i + L]
           /\ ~OccursAt(pattern, text, i) => f[i] = <<text[i]>> \o f[i + 1]
  BY <1>1, <1>2, ReplaceStep
<1>5. \A i \in 1 .. n :
        /\ text[i] = "hi" => i + 1 \in 1 .. n /\ text[i + 1] = "lo"
        /\ text[i] = "lo" => i > 1 /\ text[i - 1] = "hi"
  BY Utf8At
<1>6. \A i \in 1 .. L :
        /\ pattern[i] = "hi" => i + 1 \in 1 .. L
        /\ pattern[i] = "lo" => i > 1
  BY Utf8At
<1>7. ASSUME NEW i \in 1 .. n, OccursAt(pattern, text, i)
      PROVE  text[i] # "lo" /\ Starts(i + L)
  <2>1. i + L - 1 <= n /\ \A j \in 1 .. L : text[i + j - 1] = pattern[j]
    BY <1>1, <1>7 DEF OccursAt
  <2>2. 1 \in 1 .. L /\ L \in 1 .. L /\ i + 1 - 1 = i /\ L + 1 \notin 1 .. L /\ ~(1 > 1)
    BY <1>1
  <2>3. text[i] = pattern[1] /\ text[i + L - 1] = pattern[L]
    BY <2>1, <2>2
  <2> HIDE DEF L
  <2>4. pattern[1] # "lo" /\ pattern[L] # "hi"
    BY <1>6, <2>2, Zenon
  <2> QED
    BY <1>1, <2>3, <2>4
<1> DEFINE T == {i \in 1 .. n + 1 : Starts(i) => IsUtf8(f[i])}
<1> HIDE DEF n, L
<1>8. ASSUME NEW i \in 1 .. n + 1, \A j \in i + 1 .. n + 1 : j \in T, Starts(i)
      PROVE  IsUtf8(f[i])
  <2>1. CASE i = n + 1
    BY <1>4, <2>1, PlainIsUtf8
  <2>2. CASE i \in 1 .. n /\ OccursAt(pattern, text, i)
    <3>1. i + L \in i + 1 .. n + 1 /\ f[i] = by \o f[i + L] /\ Starts(i + L)
      BY <1>4, <1>7, <2>2
    <3>2. i + L \in 1 .. n + 1 /\ i + L \in T
      BY <1>1, <1>8, <3>1
    <3>3. PICK t \in Seq(S) : t = f[i + L] /\ IsUtf8(t)
      BY <1>3, <3>1, <3>2
    <3>4. PICK x : x = f[i] /\ x = by \o t
      BY <3>1, <3>3
    <3>5. x = by \o t /\ IsUtf8(t)
      BY <3>3, <3>4
    <3>6. IsUtf8(x)
      BY <3>5, ConcatIsUtf8
    <3> QED
      BY <3>4, <3>6
  <2>3. CASE i \in 1 .. n /\ ~OccursAt(pattern, text, i) /\ text[i] # "hi"
    <3>1. f[i] = <<text[i]>> \o f[i + 1] /\ text[i] \in S /\ text[i] # "lo"
      BY <1>1, <1>4, <1>5, <1>8, <2>3
    <3>2. i + 1 \in i + 1 .. n + 1 /\ i + 1 \in 1 .. n + 1 /\ i + 1 - 1 = i
      BY <1>1, <2>3
    <3>3. Starts(i + 1)
      BY <2>3, <3>2
    <3>4. PICK t \in Seq(S) : t = f[i + 1] /\ IsUtf8(t)
      BY <1>3, <1>8, <3>2, <3>3
    <3>5. PICK a \in S : a = text[i] /\ a \notin {"hi", "lo"}
      BY <2>3, <3>1
    <3>6. PICK x : x = f[i] /\ x = <<a>> \o t
      BY <3>1, <3>4, <3>5
    <3>7. x = <<a>> \o t /\ IsUtf8(t) /\ a \notin {"hi", "lo"}
      BY <3>4, <3>5, <3>6
    <3>8. IsUtf8(x)
      BY <3>7, LetterThenUtf8
    <3> QED
      BY <3>6, <3>8
  <2>4. CASE i \in 1 .. n /\ ~OccursAt(pattern, text, i) /\ text[i] = "hi"
    <3>1. f[i] = <<"hi">> \o f[i + 1] /\ "hi" \in S
      BY <1>1, <1>4, <2>4
    <3>2. i + 1 \in 1 .. n /\ text[i + 1] = "lo" /\ "lo" \in S
      <4>1. i + 1 \in 1 .. n /\ text[i + 1] = "lo"
        BY <1>5, <2>4, Zenon
      <4> QED
        BY <1>1, <4>1
    <3>3. ~OccursAt(pattern, text, i + 1)
      BY <1>7, <3>2
    <3>4. i + 1 + 1 \in i + 1 .. n + 1 /\ i + 1 + 1 \in 1 .. n + 1 /\ i + 1 + 1 - 1 = i + 1
      BY <1>1, <2>4, <3>2
    <3>5. Starts(i + 1 + 1)
      BY <3>2, <3>4
    <3>6. f[i + 1] = <<"lo">> \o f[i + 1 + 1]
      BY <1>4, <3>2, <3>3
    <3>7. PICK t \in Seq(S) : t = f[i + 1 + 1] /\ IsUtf8(t)
      BY <1>3, <1>8, <3>4, <3>5
    <3>8. PICK x : x = f[i] /\ x = <<"hi">> \o (<<"lo">> \o t)
      BY <3>1, <3>6, <3>7
    <3>9. "hi" \in S /\ "lo" \in S /\ IsUtf8(t) /\ x = <<"hi">> \o (<<"lo">> \o t)
      BY <3>1, <3>2, <3>7, <3>8
    <3>10. IsUtf8(x)
      BY <3>9, HalvesThenUtf8
    <3> QED
      BY <3>8, <3>10
  <2> QED
    BY <1>1, <2>1, <2>2, <2>3, <2>4
<1>9. 1 .. n + 1 \subseteq T
  <2>1. n + 1 \in Nat
    BY <1>1
  <2>2. \A i \in 1 .. n + 1 : (\A j \in i + 1 .. n + 1 : j \in T) => i \in T
    BY <1>8
  <2> HIDE DEF T
  <2> QED
    BY <2>1, <2>2, InductionDown
<1>10. 1 \in T
  BY <1>1, <1>9
<1> QED
  BY <1>2, <1>10

\* The function by which Lossy goes through the bytes.
HalfAt(bytes, i) ==
  \/ bytes[i] = "hi" /\ ~(i < Len(bytes) /\ bytes[i + 1] = "lo")
  \/ bytes[i] = "lo" /\ ~(i > 1 /\ bytes[i - 1] = "hi")

Decodes(f, bytes) ==
  f = [i \in 1 .. Len(bytes) + 1 |->
         IF i > Len(bytes) THEN <<>>
         ELSE (IF HalfAt(bytes, i) THEN <<"hi", "lo">> ELSE <<bytes[i]>>) \o f[i + 1]]

LEMMA DecodesExists ==
  ASSUME NEW bytes, Len(bytes) \in Nat
  PROVE  \E f : Decodes(f, bytes)
<1> DEFINE n == Len(bytes)
           letter(i) == IF HalfAt(bytes, i) THEN <<"hi", "lo">> ELSE <<bytes[i]>>
           next(i, g) == IF i > n THEN <<>> ELSE letter(i) \o g[i + 1]
           T == {m \in Nat : m <= n => \E f : f = [i \in n + 1 - m .. n + 1 |-> f[i]]
                                         /\ \A i \in n + 1 - m .. n + 1 : f[i] = next(i, f)}
<1>1. 0 \in T
  <2> HIDE DEF letter
  <2> DEFINE f == [i \in n + 1 - 0 .. n + 1 |-> <<>>]
  <2>1. f = [i \in n + 1 - 0 .. n + 1 |-> f[i]] /\ \A i \in n + 1 - 0 .. n + 1 : f[i] = next(i, f)
    <3>1. \A i \in n + 1 - 0 .. n + 1 : i > n
      OBVIOUS
    <3>2. f = [i \in n + 1 - 0 .. n + 1 |-> f[i]] /\ \A i \in n + 1 - 0 .. n + 1 : f[i] = <<>>
      OBVIOUS
    <3> HIDE DEF f, n
    <3> QED
      BY <3>1, <3>2, Zenon
  <2> HIDE DEF f, next
  <2> QED
    BY <2>1
<1> HIDE DEF letter
<1>2. ASSUME NEW m \in T PROVE m + 1 \in T
  <2> SUFFICES ASSUME m + 1 <= n
               PROVE  \E f : f = [i \in n + 1 - (m + 1) .. n + 1 |-> f[i]]
                             /\ \A i \in n + 1 - (m + 1) .. n + 1 : f[i] = next(i, f)
    OBVIOUS
  <2>0. m \in Nat /\ n \in Nat
    OBVIOUS
  <2>1. PICK f : \A i \in n + 1 - m .. n + 1 : f[i] = next(i, f)
    BY <2>0
  <2> DEFINE g == [i \in n + 1 - (m + 1) .. n + 1 |-> IF i \in n + 1 - m .. n + 1 THEN f[i] ELSE next(i, f)]
  <2>2. ASSUME NEW i \in n + 1 - (m + 1) .. n + 1 PROVE g[i] = next(i, g)
    <3>1. i <= n => i + 1 \in n + 1 - m .. n + 1
      BY <2>0
    <3>2. \A j \in n + 1 - m .. n + 1 : g[j] = f[j]
      BY <2>0
    <3>3. g[i] = next(i, f)
      BY <2>1
    <3>4. i <= n \/ i > n
      BY <2>0
    <3> HIDE DEF g
    <3>5. next(i, g) = next(i, f)
      BY <3>1, <3>2, <3>4
    <3> QED
      BY <3>3, <3>5
  <2>3. g = [i \in n + 1 - (m + 1) .. n + 1 |-> g[i]]
    OBVIOUS
  <2> HIDE DEF g, next
  <2> QED
    BY <2>2, <2>3
<1>3. n \in T
  <2> HIDE DEF T
  <2>1. T \in SUBSET Nat
    BY DEF T
  <2>2. T = Nat
    BY <1>1, <1>2, <2>1, Induction
  <2> QED
    BY <2>2
<1>4. PICK f : f = [i \in 1 .. n + 1 |-> f[i]] /\ \A i \in 1 .. n + 1 : f[i] = next(i, f)
  <2>1. n + 1 - n = 1 /\ n <= n
    OBVIOUS
  <2> HIDE DEF next
  <2> QED
    BY <1>3, <2>1
<1>5. f = [i \in 1 .. n + 1 |-> next(i, f)]
  <2> HIDE DEF next
  <2> QED
    BY <1>4
<1> QED
  BY <1>5 DEF Decodes, letter

LEMMA LossyIsRecursive ==
  ASSUME NEW bytes, Len(bytes) \in Nat
  PROVE  \E f : Decodes(f, bytes) /\ Lossy(bytes) = f[1]
<1> DEFINE f == CHOOSE g : Decodes(g, bytes)
<1>1. Decodes(f, bytes)
  BY DecodesExists
<1>2. Lossy(bytes) = f[1]
  BY Zenon DEF Lossy, Decodes, HalfAt
<1> QED
  BY <1>1, <1>2

\* One step of it: a byte, or what replaces half a character.
LEMMA DecodeStep ==
  ASSUME NEW f, NEW bytes, Decodes(f, bytes), Len(bytes) \in Nat
  PROVE  /\ f[Len(bytes) + 1] = <<>>
         /\ \A i \in 1 .. Len(bytes) :
              /\ HalfAt(bytes, i) => f[i] = <<"hi", "lo">> \o f[i + 1]
              /\ ~HalfAt(bytes, i) => f[i] = <<bytes[i]>> \o f[i + 1]
<1> DEFINE n == Len(bytes)
           next(i) == IF i > n THEN <<>>
                      ELSE (IF HalfAt(bytes, i) THEN <<"hi", "lo">> ELSE <<bytes[i]>>) \o f[i + 1]
<1>1. \A i \in 1 .. n + 1 : f[i] = next(i)
  <2>1. f = [i \in 1 .. n + 1 |-> next(i)]
    BY DEF Decodes
  <2> HIDE DEF next, n
  <2> QED
    BY <2>1
<1>2. f[n + 1] = <<>>
  <2>1. n + 1 \in 1 .. n + 1 /\ n + 1 > n
    OBVIOUS
  <2>2. f[n + 1] = next(n + 1)
    BY <1>1, <2>1
  <2> QED
    BY <2>1, <2>2
<1>3. ASSUME NEW i \in 1 .. n
      PROVE  /\ HalfAt(bytes, i) => f[i] = <<"hi", "lo">> \o f[i + 1]
             /\ ~HalfAt(bytes, i) => f[i] = <<bytes[i]>> \o f[i + 1]
  <2>1. f[i] = next(i) /\ ~(i > n)
    <3>1. i \in 1 .. n + 1 /\ ~(i > n)
      OBVIOUS
    <3> HIDE DEF next, n
    <3> QED
      BY <1>1, <3>1
  <2> QED
    BY <2>1, Zenon
<1> QED
  BY <1>2, <1>3

\* Whatever the child writes, what is shown of it is text.
LEMMA LossyIsUtf8 ==
  ASSUME NEW S, NEW bytes \in Seq(S), "hi" \in S, "lo" \in S
  PROVE  Lossy(bytes) \in Seq(S) /\ IsUtf8(Lossy(bytes))
<1> DEFINE n == Len(bytes)
           Amid(i) == i \in 2 .. n /\ bytes[i - 1] = "hi" /\ bytes[i] = "lo"
<1>1. n \in Nat /\ \A i \in 1 .. n : bytes[i] \in S
  OBVIOUS
<1>2. PICK f : Decodes(f, bytes) /\ Lossy(bytes) = f[1]
  BY <1>1, LossyIsRecursive
<1>3. f[n + 1] = <<>>
  BY <1>1, <1>2, DecodeStep
<1>4. \A i \in 1 .. n :
        /\ HalfAt(bytes, i) => f[i] = <<"hi", "lo">> \o f[i + 1]
        /\ ~HalfAt(bytes, i) => f[i] = <<bytes[i]>> \o f[i + 1]
  BY <1>1, <1>2, DecodeStep
<1>5. PICK w \in Seq(S) : w = <<"hi", "lo">>
  <2>1. <<"hi", "lo">> \in Seq(S)
    OBVIOUS
  <2> QED
    BY <2>1, Zenon
<1>6. ASSUME NEW i \in 1 .. n, bytes[i] = "hi", ~HalfAt(bytes, i)
      PROVE  /\ i + 1 \in 1 .. n /\ bytes[i + 1] = "lo" /\ ~HalfAt(bytes, i + 1)
             /\ ~Amid(i + 1 + 1)
  <2>1. i < n /\ bytes[i + 1] = "lo"
    BY <1>6 DEF HalfAt
  <2>2. i + 1 \in 1 .. n /\ i + 1 > 1 /\ i + 1 - 1 = i /\ i + 1 + 1 - 1 = i + 1
    BY <1>1, <2>1
  <2>3. ~HalfAt(bytes, i + 1)
    BY <1>6, <2>1, <2>2 DEF HalfAt
  <2>4. ~Amid(i + 1 + 1)
    BY <2>1, <2>2
  <2> QED
    BY <2>1, <2>2, <2>3, <2>4
<1> DEFINE T == {i \in 1 .. n + 1 : f[i] \in Seq(S) /\ (~Amid(i) => IsUtf8(f[i]))}
<1> HIDE DEF n
<1>7. ASSUME NEW i \in 1 .. n + 1, \A j \in i + 1 .. n + 1 : j \in T
      PROVE  f[i] \in Seq(S) /\ (~Amid(i) => IsUtf8(f[i]))
  <2>1. CASE i = n + 1
    <3>1. <<>> \in Seq(S)
      OBVIOUS
    <3> QED
      BY <1>3, <2>1, <3>1, PlainIsUtf8, Zenon
  <2>2. CASE i # n + 1
    <3>1. i \in 1 .. n /\ i + 1 \in i + 1 .. n + 1 /\ bytes[i] \in S
      BY <1>1, <2>2
    <3>2. PICK t \in Seq(S) : t = f[i + 1] /\ (~Amid(i + 1) => IsUtf8(t))
      BY <1>7, <3>1
    <3>3. CASE HalfAt(bytes, i)
      <4>1. PICK x : x = f[i] /\ x = w \o t
        BY <1>4, <1>5, <3>1, <3>2, <3>3
      <4>2. ~Amid(i + 1)
        <5>1. i + 1 - 1 = i
          BY <1>1
        <5>2. i + 1 \in 2 .. n => i < n
          BY <1>1
        <5> QED
          BY <3>3, <5>1, <5>2 DEF HalfAt, n
      <4>3. IsUtf8(w) /\ IsUtf8(t) /\ x = w \o t
        BY <1>5, <3>2, <4>1, <4>2, PlainIsUtf8
      <4>4. x \in Seq(S)
        BY <4>3, ConcatGoesOn
      <4>5. IsUtf8(x)
        BY <4>3, ConcatIsUtf8
      <4> QED
        BY <4>1, <4>4, <4>5
    <3>4. CASE ~HalfAt(bytes, i)
      <4>1. PICK a \in S : a = bytes[i]
        BY <3>1
      <4>2. PICK s \in Seq(S) : s = <<a>>
        BY <4>1, Singleton
      <4>3. PICK x : x = f[i] /\ x = s \o t
        BY <1>4, <3>1, <3>2, <3>4, <4>1, <4>2
      <4>4. x \in Seq(S)
        <5>1. x = s \o t
          BY <4>3
        <5> QED
          BY <5>1, ConcatGoesOn
      <4>5. ASSUME ~Amid(i), a # "hi" PROVE IsUtf8(x)
        <5>1. a # "lo"
          <6> SUFFICES ASSUME a = "lo" PROVE FALSE
            OBVIOUS
          <6>1. i > 1 /\ bytes[i - 1] = "hi" /\ bytes[i] = "lo"
            BY <3>4, <4>1 DEF HalfAt
          <6>2. i \in 2 .. n
            BY <1>1, <3>1, <6>1
          <6> QED
            BY <4>5, <6>1, <6>2
        <5>2. ~Amid(i + 1)
          <6>1. i + 1 - 1 = i
            BY <1>1
          <6> QED
            BY <4>1, <4>5, <6>1
        <5>3. IsUtf8(t) /\ a \notin {"hi", "lo"} /\ x = <<a>> \o t
          BY <3>2, <4>2, <4>3, <4>5, <5>1, <5>2
        <5> QED
          BY <5>3, LetterThenUtf8
      <4>6. ASSUME a = "hi" PROVE IsUtf8(x)
        <5>1. /\ i + 1 \in 1 .. n /\ bytes[i + 1] = "lo" /\ ~HalfAt(bytes, i + 1)
              /\ ~Amid(i + 1 + 1)
          BY <1>6, <3>1, <3>4, <4>1, <4>6
        <5>2. i + 1 + 1 \in i + 1 .. n + 1
          BY <1>1, <3>1, <5>1
        <5>3. PICK u \in Seq(S) : u = f[i + 1 + 1] /\ IsUtf8(u)
          BY <1>7, <5>1, <5>2
        <5>4. f[i + 1] = <<"lo">> \o u
          BY <1>4, <5>1, <5>3
        <5>5. x = <<"hi">> \o (<<"lo">> \o u) /\ IsUtf8(u)
          BY <3>2, <4>2, <4>3, <4>6, <5>3, <5>4
        <5> QED
          BY <5>5, HalvesThenUtf8
      <4> QED
        BY <4>3, <4>4, <4>5, <4>6
    <3> QED
      BY <3>3, <3>4
  <2> QED
    BY <2>1, <2>2
<1>8. 1 .. n + 1 \subseteq T
  <2>1. n + 1 \in Nat
    BY <1>1
  <2>2. \A i \in 1 .. n + 1 : (\A j \in i + 1 .. n + 1 : j \in T) => i \in T
    BY <1>7
  <2> HIDE DEF T
  <2> QED
    BY <2>1, <2>2, InductionDown
<1>9. 1 \in T /\ ~Amid(1)
  BY <1>1, <1>8
<1> QED
  BY <1>2, <1>9

----------------------------------------------------------------------------
(* The whole of it *)

LEMMA PathOfUrl ==
  ASSUME NEW S, NEW url \in Seq(S), IsUtf8(url), PathAndQuery(url) # <<>>
  PROVE  /\ PathAndQuery(url) \in Seq(S)
         /\ EndsWith(url, PathAndQuery(url))
         /\ IsUtf8(PathAndQuery(url))
<1> DEFINE slashes == {i \in DOMAIN url : url[i] = "/" /\ \E j \in 1 .. i : url[j] = "://"}
<1>1. slashes # {} /\ PathAndQuery(url) = SubSeq(url, Min(slashes), Len(url))
  BY DEF PathAndQuery
<1>2. slashes \in SUBSET Nat
  OBVIOUS
<1> HIDE DEF slashes
<1>3. Min(slashes) \in slashes
  BY <1>1, <1>2, LeastIsMin
<1>4. PICK m : m = Min(slashes)
  OBVIOUS
<1>5. m \in 1 .. Len(url) /\ url[m] = "/"
  BY <1>3, <1>4 DEF slashes
<1>6. PICK path : path = PathAndQuery(url)
  OBVIOUS
<1>7. path = SubSeq(url, m, Len(url)) /\ Len(url) \in Nat
  BY <1>1, <1>4, <1>6
<1>8. /\ path \in Seq(S) /\ Len(path) = Len(url) - m + 1
      /\ \A j \in 1 .. Len(path) : path[j] = url[m + j - 1]
  BY <1>5, <1>7
<1>9. EndsWith(url, path)
  <2>1. \A j \in 1 .. Len(path) : Len(url) - Len(path) + j = m + j - 1
    BY <1>5, <1>7, <1>8
  <2>2. Len(path) <= Len(url)
    BY <1>5, <1>7, <1>8
  <2> QED
    BY <1>8, <2>1, <2>2 DEF EndsWith
<1>10. IsUtf8(path)
  <2> SUFFICES ASSUME NEW i \in 1 .. Len(path) + 1
               PROVE  (i > 1 /\ path[i - 1] = "hi") <=> (i <= Len(path) /\ path[i] = "lo")
    BY DEF IsUtf8
  <2>1. CASE i = 1
    <3>1. 1 \in 1 .. Len(path) /\ m + 1 - 1 = m
      BY <1>5, <1>7, <1>8
    <3>2. path[1] = "/"
      BY <1>5, <1>8, <3>1
    <3> QED
      BY <2>1, <3>2
  <2>2. CASE i > 1
    <3> DEFINE k == m + i - 1
    <3>1. /\ k \in 1 .. Len(url) + 1 /\ k > 1 /\ i - 1 \in 1 .. Len(path) /\ m + (i - 1) - 1 = k - 1
          /\ (k <= Len(url) <=> i <= Len(path)) /\ (i <= Len(path) => i \in 1 .. Len(path))
      BY <1>5, <1>7, <1>8, <2>2
    <3>2. path[i - 1] = url[k - 1] /\ (i <= Len(path) => path[i] = url[k])
      BY <1>8, <3>1
    <3> HIDE DEF k
    <3>3. (k > 1 /\ url[k - 1] = "hi") <=> (k <= Len(url) /\ url[k] = "lo")
      BY <3>1 DEF IsUtf8
    <3> QED
      BY <2>2, <3>1, <3>2, <3>3
  <2> QED
    BY <1>8, <2>1, <2>2
<1> QED
  BY <1>6, <1>8, <1>9, <1>10

\* The letters that scrubbing and cutting bring in.
Marks == {"/", "<", ">", "?", "..."}

LEMMA MarksAreText ==
  ASSUME NEW S, Marks \subseteq S
  PROVE  /\ UrlMark \in Seq(S) /\ IsUtf8(UrlMark) /\ ~HasKey(UrlMark) /\ UrlMark # <<>>
         /\ PathMark \in Seq(S) /\ IsUtf8(PathMark) /\ ~HasKey(PathMark)
         /\ \A b \in DOMAIN UrlMark : UrlMark[b] \in {"<", ">"}
<1>1. UrlMark \in Seq(S) /\ UrlMark # <<>> /\ PathMark \in Seq(S)
  BY DEF UrlMark, PathMark, Marks
<1>2. IsUtf8(UrlMark) /\ ~HasKey(UrlMark) /\ IsUtf8(PathMark) /\ ~HasKey(PathMark)
  BY DEF HasKey, IsUtf8, UrlMark, PathMark
<1>3. \A b \in DOMAIN UrlMark : UrlMark[b] \in {"<", ">"}
  BY DEF UrlMark
<1> QED
  BY <1>1, <1>2, <1>3

\* Scrubbing leaves whole characters, whatever the text echoes.
LEMMA RedactIsText ==
  ASSUME NEW S, Marks \subseteq S, NEW text \in Seq(S), NEW url \in Seq(S), url # <<>>,
         IsUtf8(text), IsUtf8(url)
  PROVE  Redact(text, url) \in Seq(S) /\ IsUtf8(Redact(text, url))
<1>1. PICK path : path = PathAndQuery(url)
  OBVIOUS
<1>2. PICK u \in Seq(S) : u = UrlMark /\ IsUtf8(u)
  BY MarksAreText
<1>3. PICK p \in Seq(S) : p = PathMark /\ IsUtf8(p)
  BY MarksAreText
<1>4. ASSUME NEW t \in Seq(S), IsUtf8(t), NEW s \in Seq(S), s # <<>>, IsUtf8(s),
             NEW by \in Seq(S), IsUtf8(by)
      PROVE  ReplaceIn(t, s, by) \in Seq(S) /\ IsUtf8(ReplaceIn(t, s, by))
  <2>1. Len(t) \in Nat /\ Len(s) \in Nat \ {0}
    BY <1>4
  <2>2. PICK f : Replaces(f, t, s, by) /\ ReplaceIn(t, s, by) = f[1]
    BY <2>1, ReplaceInIsRecursive
  <2>3. f[1] \in Seq(S)
    <3>1. 1 \in 1 .. Len(t) + 1
      BY <2>1
    <3> QED
      BY <1>4, <2>2, <3>1, ReplacedIsText
  <2> QED
    BY <1>4, <2>2, <2>3, ReplacedIsUtf8
<1>5. PICK scrubbed : scrubbed = ReplaceIn(text, url, u)
  OBVIOUS
<1>6. scrubbed \in Seq(S) /\ IsUtf8(scrubbed)
  BY <1>2, <1>4, <1>5
<1>7. CASE Len(path) >= MinRedactablePath
  <2>1. path # <<>>
    BY <1>7, RedactionAssumption
  <2>2. path \in Seq(S) /\ IsUtf8(path)
    BY <1>1, <2>1, PathOfUrl
  <2>3. Redact(text, url) = ReplaceIn(scrubbed, path, p)
    BY <1>1, <1>2, <1>3, <1>5, <1>7 DEF Redact
  <2> QED
    BY <1>3, <1>4, <1>6, <2>1, <2>2, <2>3
<1>8. CASE ~(Len(path) >= MinRedactablePath)
  BY <1>1, <1>2, <1>5, <1>6, <1>8 DEF Redact
<1> QED
  BY <1>7, <1>8

LEMMA RedactableIsLong ==
  ASSUME NEW S, NEW url \in Seq(S), IsUtf8(url), IsRedactable(url)
  PROVE  /\ PathAndQuery(url) \in Seq(S) /\ PathAndQuery(url) # <<>>
         /\ EndsWith(url, PathAndQuery(url)) /\ url # <<>>
<1>1. PICK path : path = PathAndQuery(url)
  OBVIOUS
<1>2. path # <<>>
  BY <1>1, RedactionAssumption DEF IsRedactable
<1>3. path \in Seq(S) /\ EndsWith(url, path)
  BY <1>1, <1>2, PathOfUrl
<1>4. url # <<>>
  BY <1>2, <1>3 DEF EndsWith
<1> QED
  BY <1>1, <1>2, <1>3, <1>4

\* No part of the key is left of a text that has it in whole echoes.
LEMMA RedactHidesTheKey ==
  ASSUME NEW S, Marks \subseteq S, NEW text \in Seq(S), NEW url \in Seq(S),
         IsUtf8(url), IsRedactable(url), KeyOnlyInEchoes(text, url)
  PROVE  ~HasKey(Redact(text, url))
<1>1. PICK path : path = PathAndQuery(url)
  OBVIOUS
<1>2. path \in Seq(S) /\ path # <<>> /\ EndsWith(url, path) /\ url # <<>>
  BY <1>1, RedactableIsLong
<1>3. Len(path) >= MinRedactablePath /\ \A i \in DOMAIN path : path[i] \notin {"<", ">"}
  BY <1>1 DEF IsRedactable
<1>4. /\ Covered(path, text) /\ Apart(path, text)
      /\ \A e \in Occurrences(path, text) : \A o \in Occurrences(url, text) :
           e < o => e + Len(path) <= o
  BY <1>1 DEF KeyOnlyInEchoes, Covered, Apart
<1>5. PICK u \in Seq(S) : u = UrlMark
  BY MarksAreText
<1>6. PICK p \in Seq(S) : p = PathMark
  BY MarksAreText
<1>7. u # <<>> /\ ~HasKey(u) /\ ~HasKey(p) /\ \A b \in DOMAIN u : u[b] \in {"<", ">"}
  BY <1>5, <1>6, MarksAreText
<1>8. \A j \in DOMAIN path : \A b \in DOMAIN u : path[j] # u[b]
  BY <1>3, <1>7
<1>9. PICK scrubbed : scrubbed = ReplaceIn(text, url, u)
  OBVIOUS
<1>10. scrubbed \in Seq(S) /\ Covered(path, scrubbed) /\ Apart(path, scrubbed)
  BY <1>2, <1>4, <1>7, <1>8, <1>9, EchoesStayWhole
<1>11. ~HasKey(ReplaceIn(scrubbed, path, p))
  BY <1>2, <1>7, <1>10, NoKeyIsLeft
<1>12. Redact(text, url) = ReplaceIn(scrubbed, path, p)
  BY <1>1, <1>3, <1>5, <1>6, <1>9 DEF Redact
<1> QED
  BY <1>11, <1>12

LEMMA PrintableIsClean ==
  ASSUME NEW S, Marks \subseteq S, NEW text \in Seq(S), IsUtf8(text), ~HasKey(text)
  PROVE  Printable(text) \in Seq(S) /\ IsUtf8(Printable(text)) /\ ~HasKey(Printable(text))
<1>1. PICK x : x = Printable(text)
  OBVIOUS
<1>2. /\ x = [i \in 1 .. Len(text) |-> IF text[i] = "^" THEN "?" ELSE text[i]]
      /\ Len(text) \in Nat /\ DOMAIN text = 1 .. Len(text) /\ \A i \in 1 .. Len(text) : text[i] \in S
  BY <1>1 DEF Printable
<1>3. "?" \in S
  BY DEF Marks
<1>4. DOMAIN x = 1 .. Len(text) /\ \A i \in 1 .. Len(text) : x[i] = IF text[i] = "^" THEN "?" ELSE text[i]
  BY <1>2
<1>5. x \in Seq(S)
  BY <1>2, <1>3
<1>6. Len(x) = Len(text)
  BY <1>2, <1>4, <1>5
<1>7. \A i \in 1 .. Len(text) :
        /\ (x[i] = "hi" <=> text[i] = "hi") /\ (x[i] = "lo" <=> text[i] = "lo")
        /\ x[i] = "k" => text[i] = "k"
  BY <1>4
<1>8. ~HasKey(x)
  BY <1>2, <1>4, <1>7 DEF HasKey
<1>9. IsUtf8(x)
  <2> SUFFICES ASSUME NEW i \in 1 .. Len(x) + 1
               PROVE  (i > 1 /\ x[i - 1] = "hi") <=> (i <= Len(x) /\ x[i] = "lo")
    BY DEF IsUtf8
  <2>1. (i > 1 => i - 1 \in 1 .. Len(text)) /\ (i <= Len(x) => i \in 1 .. Len(text))
    BY <1>2, <1>6
  <2>2. (i > 1 /\ text[i - 1] = "hi") <=> (i <= Len(text) /\ text[i] = "lo")
    BY <1>6 DEF IsUtf8
  <2> QED
    BY <1>6, <1>7, <2>1, <2>2
<1> QED
  BY <1>1, <1>5, <1>8, <1>9

\* What is cut between two characters is whole.
LEMMA HeadIsClean ==
  ASSUME NEW S, NEW text \in Seq(S), IsUtf8(text),
         NEW c \in 0 .. Len(text), c < Len(text), IsBoundary(text, c),
         NEW h, h = SubSeq(text, 1, c)
  PROVE  h \in Seq(S) /\ Len(h) = c /\ IsUtf8(h) /\ (HasKey(h) => HasKey(text))
<1>1. Len(text) \in Nat /\ DOMAIN text = 1 .. Len(text)
  OBVIOUS
<1>2. h \in Seq(S) /\ Len(h) = c /\ \A i \in 1 .. c : h[i] = text[i]
  BY <1>1
<1>3. c \in Nat /\ DOMAIN h = 1 .. c /\ \A i \in 1 .. c : i \in 1 .. Len(text)
  BY <1>1, <1>2
<1>4. HasKey(h) => HasKey(text)
  BY <1>1, <1>2, <1>3 DEF HasKey
<1>5. IsUtf8(h)
  <2> SUFFICES ASSUME NEW i \in 1 .. Len(h) + 1
               PROVE  (i > 1 /\ h[i - 1] = "hi") <=> (i <= Len(h) /\ h[i] = "lo")
    BY DEF IsUtf8
  <2>1. CASE i <= c
    <3>1. i \in 1 .. c /\ i \in 1 .. Len(text) + 1 /\ i <= Len(text) /\ (i > 1 => i - 1 \in 1 .. c)
      BY <1>1, <1>2, <1>3, <2>1
    <3>2. (i > 1 /\ text[i - 1] = "hi") <=> (i <= Len(text) /\ text[i] = "lo")
      BY <3>1 DEF IsUtf8
    <3> QED
      BY <1>2, <2>1, <3>1, <3>2
  <2>2. CASE i = c + 1
    <3>1. ~(i <= Len(h)) /\ i - 1 = c /\ (i > 1 => c \in 1 .. c /\ c \in 1 .. Len(text) /\ c # 0)
      BY <1>1, <1>2, <1>3, <2>2
    <3>2. ASSUME i > 1, text[c] = "hi" PROVE FALSE
      <4>1. text[c + 1] = "lo"
        BY <3>1, <3>2, Utf8At
      <4>2. text[c + 1] # "lo"
        BY <3>1, <3>2 DEF IsBoundary
      <4> QED
        BY <4>1, <4>2
    <3> QED
      BY <1>2, <3>1, <3>2
  <2> QED
    BY <1>2, <1>3, <2>1, <2>2
<1> QED
  BY <1>2, <1>4, <1>5

\* No more than the cap and the mark is shown, in whole characters, and no key that was not there.
LEMMA BoundedIsText ==
  ASSUME NEW S, Marks \subseteq S, NEW text \in Seq(S), IsUtf8(text), NEW cap \in Nat,
         NEW x, x = Bounded(text, cap)
  PROVE  IsUtf8(x) /\ Len(x) <= cap + Len(Truncated) /\ (~HasKey(text) => ~HasKey(x))
<1>1. Len(text) \in Nat /\ DOMAIN text = 1 .. Len(text)
  OBVIOUS
<1>2. Truncated \in Seq(S) /\ Len(Truncated) = 1 /\ IsUtf8(Truncated) /\ ~HasKey(Truncated)
  <2>1. "..." \in S
    BY DEF Marks
  <2> QED
    BY <2>1, PlainIsUtf8 DEF Truncated, HasKey
<1>3. CASE Len(text) <= cap
  <2>1. x = text
    BY <1>3 DEF Bounded
  <2> QED
    BY <1>1, <1>2, <1>3, <2>1
<1>4. CASE ~(Len(text) <= cap)
  <2> DEFINE cuts == {cut \in 0 .. cap : IsBoundary(text, cut)}
  <2>1. 0 \in cuts /\ cuts \in SUBSET (0 .. cap)
    BY DEF IsBoundary
  <2>2. Max(cuts) \in cuts
    <3> HIDE DEF cuts
    <3> QED
      BY <2>1, GreatestIsMax
  <2>3. PICK c : c = Max(cuts)
    OBVIOUS
  <2>4. c \in 0 .. cap /\ IsBoundary(text, c)
    BY <2>2, <2>3
  <2>5. x = SubSeq(text, 1, c) \o Truncated
    BY <1>4, <2>3 DEF Bounded
  <2> HIDE DEF cuts
  <2>6. PICK h : h = SubSeq(text, 1, c)
    OBVIOUS
  <2>7. c \in 0 .. Len(text) /\ c < Len(text)
    BY <1>1, <1>4, <2>4
  <2>8. h \in Seq(S) /\ Len(h) = c /\ IsUtf8(h) /\ (HasKey(h) => HasKey(text))
    BY <2>4, <2>6, <2>7, HeadIsClean
  <2>9. PICK t \in Seq(S) : t = Truncated
    BY <1>2
  <2>10. IsUtf8(t) /\ ~HasKey(t) /\ Len(t) = 1 /\ x = h \o t
    BY <1>2, <2>5, <2>6, <2>9
  <2>11. IsUtf8(x) /\ (~HasKey(h) => ~HasKey(x))
    BY <2>8, <2>10, ConcatIsUtf8, ConcatHasNoKey
  <2>12. GoesOn(x, Len(h), t)
    BY <2>8, <2>10, ConcatGoesOn
  <2>13. Len(x) <= cap + Len(Truncated)
    BY <1>2, <2>4, <2>8, <2>10, <2>12 DEF GoesOn
  <2> QED
    BY <2>8, <2>11, <2>13
<1> QED
  BY <1>3, <1>4

\* What is shown of a text is fit to show if the text has the key in whole echoes only.
LEMMA BodyIsFit ==
  ASSUME NEW Letter, NEW text \in Seq(Letter), NEW url \in Seq(Letter), IsUtf8(text), IsUtf8(url),
         IsRedactable(url), KeyOnlyInEchoes(text, url)
  PROVE  IsFitToShow(SanitizeBody(text, url), MaxQuoted)
<1>1. PICK S : S = Letter \cup Marks
  OBVIOUS
<1>2. Marks \subseteq S /\ text \in Seq(S) /\ url \in Seq(S) /\ IsUtf8(url)
  <2>1. \A s \in Seq(Letter) : s \in Seq(S)
    BY <1>1
  <2> QED
    BY <1>1, <2>1
<1>3. url # <<>>
  BY <1>2, RedactableIsLong
<1>4. PICK a : a = Redact(text, url)
  OBVIOUS
<1>5. a \in Seq(S) /\ IsUtf8(a) /\ ~HasKey(a)
  BY <1>2, <1>3, <1>4, RedactIsText, RedactHidesTheKey
<1>6. PICK b : b = Printable(a)
  OBVIOUS
<1>7. b \in Seq(S) /\ IsUtf8(b) /\ ~HasKey(b)
  BY <1>2, <1>5, <1>6, PrintableIsClean
<1>8. PICK c : c = Bounded(b, MaxQuoted)
  OBVIOUS
<1>9. IsUtf8(c) /\ Len(c) <= MaxQuoted + Len(Truncated) /\ ~HasKey(c)
  BY <1>2, <1>7, <1>8, RedactionAssumption, BoundedIsText
<1>10. SanitizeBody(text, url) = c
  BY <1>4, <1>6, <1>8 DEF SanitizeBody
<1> QED
  BY <1>9, <1>10 DEF IsFitToShow, HasKey

\* A text is its first a letters and the rest.
LEMMA HeadAndTail ==
  ASSUME NEW S, NEW text \in Seq(S), NEW a \in 0 .. Len(text)
  PROVE  \E head, tail \in Seq(S) :
           /\ head = SubSeq(text, 1, a) /\ Len(head) = a
           /\ Len(tail) = Len(text) - a
           /\ GoesOn(text, a, tail) /\ BeginsWith(text, head)
<1>1. PICK head : head = SubSeq(text, 1, a)
  OBVIOUS
<1>2. PICK tail : tail = SubSeq(text, a + 1, Len(text))
  OBVIOUS
<1>3. head \in Seq(S) /\ Len(head) = a /\ \A p \in 1 .. a : head[p] = text[p]
  BY <1>1
<1>4. /\ tail \in Seq(S) /\ Len(tail) = Len(text) - a
      /\ \A p \in 1 .. Len(text) - a : tail[p] = text[a + p]
  <2>1. a + 1 \in 1 .. Len(text) + 1 /\ Len(text) \in Nat /\ Len(text) - (a + 1) + 1 = Len(text) - a
    OBVIOUS
  <2>2. \A p \in 1 .. Len(text) - a : a + 1 + p - 1 = a + p
    BY <2>1
  <2> QED
    BY <1>2, <2>1, <2>2
<1>5. BeginsWith(text, head)
  BY <1>3 DEF BeginsWith
<1>6. GoesOn(text, a, tail)
  <2>1. Len(text) = a + Len(tail)
    BY <1>4
  <2> QED
    BY <1>4, <2>1 DEF GoesOn
<1> QED
  BY <1>1, <1>3, <1>4, <1>5, <1>6

\* What the child wrote up to where the capture ends.
LEMMA CapturedBegins ==
  ASSUME NEW S, NEW stderr \in Seq(S),
         NEW captured, captured = SubSeq(stderr, 1, Min({Len(stderr), CaptureStderr}))
  PROVE  /\ captured \in Seq(S) /\ Len(captured) <= Len(stderr) /\ BeginsWith(stderr, captured)
         /\ Len(captured) < Len(stderr) => Len(captured) = CaptureStderr
<1> DEFINE ends == {Len(stderr), CaptureStderr}
<1>1. ends \in SUBSET Nat /\ ends # {} /\ Len(stderr) \in Nat
  BY RedactionAssumption DEF CaptureStderr
<1>2. Min(ends) \in ends /\ \A m \in ends : Min(ends) <= m
  <2> HIDE DEF ends
  <2> QED
    BY <1>1, LeastIsMin
<1>3. PICK n : n = Min(ends)
  OBVIOUS
<1>4. n \in 0 .. Len(stderr) /\ (n = Len(stderr) \/ n = CaptureStderr)
  BY <1>1, <1>2, <1>3
<1>5. captured = SubSeq(stderr, 1, n)
  BY <1>3
<1> HIDE DEF ends
<1>6. PICK head, tail \in Seq(S) :
        /\ head = SubSeq(stderr, 1, n) /\ Len(head) = n
        /\ Len(tail) = Len(stderr) - n
        /\ GoesOn(stderr, n, tail) /\ BeginsWith(stderr, head)
  BY <1>4, HeadAndTail
<1>7. captured = head
  BY <1>5, <1>6, Zenon
<1>8. Len(head) <= Len(stderr) /\ (Len(head) < Len(stderr) => Len(head) = CaptureStderr)
  BY <1>1, <1>4, <1>6
<1> QED
  BY <1>6, <1>7, <1>8, Zenon

\* The report of a failed toolkit (redact_child_stderr, toolkit.rs:114) quotes whole characters and
\* no more than its cap, whatever bytes the child writes and wherever the capture ends, and no part
\* of the key if what is captured has it in whole echoes only.
THEOREM StderrIsFitToShow ==
  ASSUME NEW Letter, NEW stderr \in Seq(Letter), NEW url \in Seq(Letter), IsUtf8(url), url # <<>>,
         NEW captured, captured = SubSeq(stderr, 1, Min({Len(stderr), CaptureStderr})),
         NEW shown, shown = RedactChildStderr(stderr, url)
  PROVE  /\ IsUtf8(shown) /\ Len(shown) <= MaxStderr + Len(Truncated)
         /\ IsRedactable(url) /\ KeyOnlyInEchoes(Lossy(captured), url) =>
              IsFitToShow(shown, MaxStderr)
<1>1. PICK S : S = Letter \cup Marks \cup {"hi", "lo"}
  OBVIOUS
<1>2. Marks \subseteq S /\ "hi" \in S /\ "lo" \in S /\ stderr \in Seq(S) /\ url \in Seq(S) /\ IsUtf8(url)
  <2>1. \A s \in Seq(Letter) : s \in Seq(S)
    BY <1>1
  <2> QED
    BY <1>1, <2>1
<1>3. captured \in Seq(S)
  BY <1>2, CapturedBegins
<1>4. PICK t : t = Lossy(captured)
  OBVIOUS
<1>5. t \in Seq(S) /\ IsUtf8(t)
  BY <1>2, <1>3, <1>4, LossyIsUtf8
<1>6. PICK a : a = Redact(t, url)
  OBVIOUS
<1>7. a \in Seq(S) /\ IsUtf8(a)
  BY <1>2, <1>5, <1>6, RedactIsText
<1>8. IsRedactable(url) /\ KeyOnlyInEchoes(t, url) => ~HasKey(a)
  BY <1>2, <1>5, <1>6, RedactHidesTheKey
<1>9. shown = Bounded(a, MaxStderr)
  BY <1>4, <1>6 DEF RedactChildStderr
<1>10. IsUtf8(shown) /\ Len(shown) <= MaxStderr + Len(Truncated) /\ (~HasKey(a) => ~HasKey(shown))
  BY <1>2, <1>7, <1>9, RedactionAssumption, BoundedIsText
<1> QED
  BY <1>4, <1>8, <1>10 DEF IsFitToShow, HasKey

----------------------------------------------------------------------------
(* What is redacted up to a place where no echo is cut *)

Joins(x, s, t) == x = s \o t

LEMMA Regrouped ==
  ASSUME NEW S, NEW p \in Seq(S), NEW q \in Seq(S), NEW r \in Seq(S),
         NEW x, NEW y, NEW z, Joins(y, q, r), Joins(x, p, y), Joins(z, p, q)
  PROVE  Joins(x, z, r)
BY DEF Joins

LEMMA NothingMore ==
  ASSUME NEW S, NEW r \in Seq(S)
  PROVE  <<>> \o r = r
OBVIOUS

\* A text of which no echo lies across a place is replaced up to there and from there on.
LEMMA ReplacedInTwoParts ==
  ASSUME NEW S, NEW head \in Seq(S), NEW tail \in Seq(S), NEW text \in Seq(S),
         GoesOn(text, Len(head), tail), BeginsWith(text, head),
         NEW pattern \in Seq(S), pattern # <<>>, NEW by \in Seq(S),
         NEW f, Replaces(f, text, pattern, by), NEW g, Replaces(g, head, pattern, by),
         NEW h, Replaces(h, tail, pattern, by),
         Clear(pattern, text, Len(head) + 1)
  PROVE  \A i \in 1 .. Len(head) + 1 : Joins(f[i], g[i], h[1])
<1> DEFINE a == Len(head)
           b == Len(tail)
           L == Len(pattern)
<1>1. /\ a \in Nat /\ b \in Nat /\ L \in Nat \ {0} /\ DOMAIN pattern = 1 .. L
  OBVIOUS
<1>2. GoesOn(text, a, tail) /\ BeginsWith(text, head)
  OBVIOUS
<1>3. Len(text) = a + b /\ \A i \in 1 .. a : text[i] = head[i]
  BY <1>2 DEF GoesOn, BeginsWith
<1>4. /\ f[a + b + 1] = <<>>
      /\ \A i \in 1 .. a + b :
           /\ OccursAt(pattern, text, i) =>
                i + L \in i + 1 .. a + b + 1 /\ f[i] = by \o f[i + L]
           /\ ~OccursAt(pattern, text, i) => f[i] = <<text[i]>> \o f[i + 1]
  <2>1. PICK n \in Nat : n = Len(text) /\ n = a + b
    BY <1>1, <1>3
  <2>2. /\ f[n + 1] = <<>>
        /\ \A i \in 1 .. n :
             /\ OccursAt(pattern, text, i) =>
                  i + L \in i + 1 .. n + 1 /\ f[i] = by \o f[i + L]
             /\ ~OccursAt(pattern, text, i) => f[i] = <<text[i]>> \o f[i + 1]
    <3>1. /\ f[Len(text) + 1] = <<>>
          /\ \A i \in 1 .. Len(text) :
               /\ OccursAt(pattern, text, i) =>
                    i + Len(pattern) \in i + 1 .. Len(text) + 1 /\ f[i] = by \o f[i + Len(pattern)]
               /\ ~OccursAt(pattern, text, i) => f[i] = <<text[i]>> \o f[i + 1]
      BY <1>1, ReplaceStep
    <3> QED
      BY <2>1, <3>1
  <2> HIDE DEF a, b, L
  <2> QED
    BY <2>1, <2>2
<1>5. /\ g[a + 1] = <<>>
      /\ \A i \in 1 .. a :
           /\ OccursAt(pattern, head, i) =>
                i + L \in i + 1 .. a + 1 /\ g[i] = by \o g[i + L]
           /\ ~OccursAt(pattern, head, i) => g[i] = <<head[i]>> \o g[i + 1]
  BY <1>1, ReplaceStep
<1>6. /\ h[b + 1] = <<>>
      /\ \A i \in 1 .. b :
           /\ OccursAt(pattern, tail, i) =>
                i + L \in i + 1 .. b + 1 /\ h[i] = by \o h[i + L]
           /\ ~OccursAt(pattern, tail, i) => h[i] = <<tail[i]>> \o h[i + 1]
  BY <1>1, ReplaceStep
<1>7. \A i \in 1 .. a : OccursAt(pattern, text, i) <=> OccursAt(pattern, head, i)
  <2> SUFFICES ASSUME NEW i \in 1 .. a
               PROVE  OccursAt(pattern, text, i) <=> OccursAt(pattern, head, i)
    OBVIOUS
  <2>0. ASSUME OccursAt(pattern, text, i) PROVE i + L <= a + 1
    <3>1. i \in Occurrences(pattern, text) /\ i < a + 1
      BY <1>1, <1>3, <2>0 DEF Occurrences
    <3> QED
      BY <3>1 DEF Clear
  <2>1. ASSUME i + L <= a + 1
        PROVE  OccursAt(pattern, text, i) <=> OccursAt(pattern, head, i)
    <3>1. \A j \in 1 .. L : i + j - 1 \in 1 .. a
      BY <1>1, <2>1
    <3>2. \A j \in DOMAIN pattern : text[i + j - 1] = head[i + j - 1]
      BY <1>1, <1>3, <3>1
    <3>3. i + L - 1 <= Len(text) /\ i + L - 1 <= Len(head)
      BY <1>1, <1>3, <2>1
    <3> QED
      BY <3>2, <3>3 DEF OccursAt
  <2>2. OccursAt(pattern, head, i) => i + L <= a + 1
    BY <1>1 DEF OccursAt
  <2> QED
    BY <2>0, <2>1, <2>2
<1>8. \A j \in 1 .. b : OccursAt(pattern, text, a + j) <=> OccursAt(pattern, tail, j)
  <2> SUFFICES ASSUME NEW j \in 1 .. b
               PROVE  OccursAt(pattern, text, a + j) <=> OccursAt(pattern, tail, j)
    OBVIOUS
  <2> QED
    BY <1>1, <1>2, OccursBehind
<1>9. /\ \A i \in 1 .. a + 1 : g[i] \in Seq(S)
      /\ \A j \in 1 .. b + 1 : h[j] \in Seq(S)
  BY ReplacedIsText
<1>10. \A i \in 1 .. a : head[i] \in S
  OBVIOUS
<1>11. \A j \in 1 .. b : text[a + j] = tail[j]
  BY <1>2 DEF GoesOn
<1> HIDE DEF a, b, L
<1> DEFINE T == {j \in 1 .. b + 1 : f[a + j] = h[j]}
<1>12. ASSUME NEW j \in 1 .. b + 1, \A k \in j + 1 .. b + 1 : k \in T
       PROVE  f[a + j] = h[j]
  <2>1. CASE j = b + 1
    <3>1. a + j = a + b + 1
      BY <1>1, <2>1
    <3> QED
      BY <1>4, <1>6, <2>1, <3>1
  <2>2. CASE j # b + 1
    <3>1. j \in 1 .. b /\ a + j \in 1 .. a + b /\ j + 1 \in j + 1 .. b + 1
      BY <1>1, <2>2
    <3>2. CASE OccursAt(pattern, tail, j)
      <4>1. OccursAt(pattern, text, a + j)
        BY <1>8, <3>1, <3>2
      <4>2. f[a + j] = by \o f[a + j + L]
        BY <1>4, <3>1, <4>1
      <4>3. j + L \in j + 1 .. b + 1 /\ h[j] = by \o h[j + L]
        BY <1>6, <3>1, <3>2
      <4>4. f[a + (j + L)] = h[j + L] /\ a + j + L = a + (j + L)
        BY <1>1, <1>12, <4>3
      <4> QED
        BY <4>2, <4>3, <4>4
    <3>3. CASE ~OccursAt(pattern, tail, j)
      <4>1. ~OccursAt(pattern, text, a + j)
        BY <1>8, <3>1, <3>3
      <4>2. f[a + j] = <<text[a + j]>> \o f[a + j + 1]
        BY <1>4, <3>1, <4>1
      <4>3. h[j] = <<tail[j]>> \o h[j + 1]
        BY <1>6, <3>1, <3>3
      <4>4. f[a + (j + 1)] = h[j + 1] /\ a + j + 1 = a + (j + 1)
        BY <1>1, <1>12, <3>1
      <4>5. text[a + j] = tail[j]
        BY <1>11, <3>1
      <4> QED
        BY <4>2, <4>3, <4>4, <4>5
    <3> QED
      BY <3>2, <3>3
  <2> QED
    BY <2>1, <2>2
<1>13. f[a + 1] = h[1]
  <2>1. b + 1 \in Nat
    BY <1>1
  <2>2. \A j \in 1 .. b + 1 : (\A k \in j + 1 .. b + 1 : k \in T) => j \in T
    BY <1>12
  <2> HIDE DEF T
  <2>3. 1 .. b + 1 \subseteq T
    BY <2>1, <2>2, InductionDown
  <2>4. 1 \in 1 .. b + 1
    BY <1>1
  <2> QED
    BY <2>3, <2>4 DEF T
<1> HIDE DEF T
<1>14. h[1] \in Seq(S)
  <2>1. 1 \in 1 .. b + 1
    BY <1>1
  <2> QED
    BY <1>9, <2>1
<1>15. PICK r \in Seq(S) : r = h[1]
  BY <1>14
<1> DEFINE U == {i \in 1 .. a + 1 : Joins(f[i], g[i], h[1])}
<1> HIDE DEF U
<1>16. ASSUME NEW i \in 1 .. a + 1, \A k \in i + 1 .. a + 1 : k \in U
       PROVE  Joins(f[i], g[i], h[1])
  <2>1. CASE i = a + 1
    BY <1>5, <1>13, <1>15, <2>1, NothingMore, Zenon DEF Joins
  <2>2. CASE i # a + 1
    <3>1. i \in 1 .. a /\ i \in 1 .. a + b /\ i + 1 \in i + 1 .. a + 1 /\ i + 1 \in 1 .. a + 1
      BY <1>1, <2>2
    <3>2. CASE OccursAt(pattern, head, i)
      <4>1. OccursAt(pattern, text, i)
        BY <1>7, <3>1, <3>2
      <4>2. f[i] = by \o f[i + L]
        BY <1>4, <3>1, <4>1
      <4>3. i + L \in i + 1 .. a + 1 /\ g[i] = by \o g[i + L]
        BY <1>5, <3>1, <3>2
      <4>4. Joins(f[i + L], g[i + L], h[1])
        BY <1>16, <4>3 DEF U
      <4>5. PICK q \in Seq(S) : q = g[i + L]
        BY <1>9, <4>3
      <4>6. PICK x, y, z : x = f[i] /\ y = f[i + L] /\ z = g[i]
        OBVIOUS
      <4>7. r \in Seq(S) /\ Joins(y, q, r) /\ Joins(x, by, y) /\ Joins(z, by, q)
        BY <1>15, <4>2, <4>3, <4>4, <4>5, <4>6 DEF Joins
      <4>8. Joins(x, z, r)
        BY <4>5, <4>7, Regrouped
      <4> QED
        BY <1>15, <4>6, <4>8
    <3>3. CASE ~OccursAt(pattern, head, i)
      <4>1. ~OccursAt(pattern, text, i)
        BY <1>7, <3>1, <3>3
      <4>2. f[i] = <<text[i]>> \o f[i + 1]
        BY <1>4, <3>1, <4>1
      <4>3. g[i] = <<head[i]>> \o g[i + 1]
        BY <1>5, <3>1, <3>3
      <4>4. Joins(f[i + 1], g[i + 1], h[1])
        BY <1>16, <3>1 DEF U
      <4>5. PICK q \in Seq(S) : q = g[i + 1]
        BY <1>9, <3>1
      <4>6. PICK p \in Seq(S) : p = <<head[i]>>
        BY <1>10, <3>1, Singleton DEF a
      <4>7. PICK x, y, z : x = f[i] /\ y = f[i + 1] /\ z = g[i]
        OBVIOUS
      <4>8. text[i] = head[i]
        BY <1>3, <3>1
      <4>9. p \in Seq(S) /\ q \in Seq(S) /\ r \in Seq(S) /\ Joins(y, q, r) /\ Joins(x, p, y) /\ Joins(z, p, q)
        <5>1. x = p \o y /\ z = p \o q
          BY <4>2, <4>3, <4>5, <4>6, <4>7, <4>8, Zenon
        <5>2. Joins(y, q, r)
          BY <1>15, <4>4, <4>5, <4>7, Zenon
        <5> QED
          BY <1>15, <4>5, <4>6, <5>1, <5>2 DEF Joins
      <4>10. Joins(x, z, r)
        BY <4>9, Regrouped
      <4> QED
        BY <1>15, <4>7, <4>10
    <3> QED
      BY <3>2, <3>3
  <2> QED
    BY <2>1, <2>2
<1>17. 1 .. a + 1 \subseteq U
  <2>1. a + 1 \in Nat
    BY <1>1
  <2>2. \A i \in 1 .. a + 1 : (\A k \in i + 1 .. a + 1 : k \in U) => i \in U
    BY <1>16 DEF U
  <2> QED
    BY <2>1, <2>2, InductionDown
<1> QED
  BY <1>17 DEF U, a

\* No echo of the path begins within one of its own or ends behind the beginning of an URL.
ApartFrom(path, url, text) ==
  \A e \in Occurrences(path, text) : \A o \in Occurrences(url, text) : e < o => e + Len(path) <= o

Within(path, text, i) == \A e \in Occurrences(path, text) : e + Len(path) <= i

\* Where every echo of the path ends before a place, every echo of the URL that begins before it does.
LEMMA UrlsEndBefore ==
  ASSUME NEW S, NEW text \in Seq(S), NEW url \in Seq(S), NEW path \in Seq(S), path # <<>>,
         EndsWith(url, path), NEW i \in Nat, Within(path, text, i)
  PROVE  Clear(url, text, i)
<1> SUFFICES ASSUME NEW o \in Occurrences(url, text) PROVE o + Len(url) <= i
  BY DEF Clear
<1>1. Len(url) \in Nat /\ Len(path) \in Nat
  OBVIOUS
<1>2. o \in 1 .. Len(text) /\ OccursAt(url, text, o)
  BY DEF Occurrences
<1>3. o + Len(url) - Len(path) \in Occurrences(path, text)
  BY <1>2, UrlEndsInEcho
<1>4. o + Len(url) - Len(path) + Len(path) <= i
  BY <1>3 DEF Within
<1> QED
  BY <1>1, <1>2, <1>4

\* What is made of the text behind that place takes no part in an echo that begins before it.
LEMMA EchoesEndBefore ==
  ASSUME NEW S, NEW text \in Seq(S), NEW url \in Seq(S), url # <<>>,
         NEW by \in Seq(S), by # <<>>, NEW f, Replaces(f, text, url, by),
         NEW path \in Seq(S), path # <<>>,
         \A j \in DOMAIN path : \A b \in DOMAIN by : path[j] # by[b],
         NEW a \in 0 .. Len(text),
         Clear(url, text, a + 1), Within(path, text, a + 1), ApartFrom(path, url, text)
  PROVE  \A i \in 1 .. a + 1 :
           Len(f[a + 1]) <= Len(f[i]) /\ Clear(path, f[i], Len(f[i]) - Len(f[a + 1]) + 1)
<1> DEFINE n == Len(text)
           Lu == Len(url)
           Lp == Len(path)
           Lb == Len(by)
           c == Len(f[a + 1])
           Good(i) == c <= Len(f[i]) /\ Clear(path, f[i], Len(f[i]) - c + 1)
<1>1. /\ n \in Nat /\ a \in Nat /\ Lu \in Nat \ {0} /\ Lp \in Nat \ {0} /\ Lb \in Nat \ {0}
      /\ DOMAIN path = 1 .. Lp /\ DOMAIN by = 1 .. Lb /\ DOMAIN text = 1 .. n
  OBVIOUS
<1>2. /\ \A i \in 1 .. n + 1 : f[i] \in Seq(S)
      /\ \A i \in 1 .. n :
           /\ OccursAt(url, text, i) =>
                /\ i + Lu \in i + 1 .. n + 1
                /\ GoesOn(f[i], Lb, f[i + Lu])
                /\ \A p \in 1 .. Lb : f[i][p] = by[p]
           /\ ~OccursAt(url, text, i) => GoesOn(f[i], 1, f[i + 1]) /\ f[i][1] = text[i]
  BY ReplaceGoesOn
<1>3. \A i \in 1 .. a + 1 : i \in 1 .. n + 1 /\ f[i] \in Seq(S) /\ Len(f[i]) \in Nat
  <2> SUFFICES ASSUME NEW i \in 1 .. a + 1
               PROVE  i \in 1 .. n + 1 /\ f[i] \in Seq(S) /\ Len(f[i]) \in Nat
    OBVIOUS
  <2>1. i \in 1 .. n + 1
    BY <1>1
  <2>2. PICK x \in Seq(S) : x = f[i]
    BY <1>2, <2>1
  <2>3. Len(x) \in Nat
    BY <2>2
  <2> QED
    BY <2>1, <2>2, <2>3
<1>4. c \in Nat
  <2>1. a + 1 \in 1 .. a + 1
    BY <1>1
  <2> QED
    BY <1>3, <2>1
<1>5. \A j \in 1 .. Lp : \A b \in 1 .. Lb : path[j] # by[b]
  BY <1>1
<1> HIDE DEF n, Lu, Lp, Lb, c, Good
\* The letters before what the rest is made of are out of the question as a beginning.
<1>6. ASSUME NEW i \in 1 .. a + 1, NEW d \in Nat, NEW k \in 1 .. a + 1,
             GoesOn(f[i], d, f[k]), Good(k),
             \A x \in 1 .. d : OccursAt(path, f[i], x) => x + Lp <= Len(f[i]) - c + 1
      PROVE  Good(i)
  <2>1. PICK x \in Seq(S), t \in Seq(S) : x = f[i] /\ t = f[k] /\ Len(x) \in Nat /\ Len(t) \in Nat
    BY <1>3
  <2>2. /\ GoesOn(x, d, t) /\ c <= Len(t) /\ Clear(path, t, Len(t) - c + 1)
        /\ \A e \in 1 .. d : OccursAt(path, x, e) => e + Lp <= Len(x) - c + 1
    BY <1>6, <2>1 DEF Good
  <2>3. Len(x) = d + Len(t)
    BY <2>2 DEF GoesOn
  <2>4. DOMAIN x = 1 .. Len(x) /\ DOMAIN t = 1 .. Len(t)
    BY <2>1
  <2>5. ASSUME NEW e \in Occurrences(path, x), e < Len(x) - c + 1
        PROVE  e + Lp <= Len(x) - c + 1
    <3>1. e \in 1 .. Len(x) /\ OccursAt(path, x, e)
      BY <2>4 DEF Occurrences
    <3>2. CASE e <= d
      <4>1. e \in 1 .. d
        BY <3>1, <3>2
      <4> QED
        BY <2>2, <3>1, <4>1
    <3>3. CASE e > d
      <4>1. e - d \in 1 .. Len(t) /\ d + (e - d) = e
        BY <2>1, <2>3, <3>1, <3>3
      <4>2. OccursAt(path, t, e - d)
        <5>1. OccursAt(path, x, d + (e - d)) <=> OccursAt(path, t, e - d)
          BY <2>2, <4>1, OccursBehind
        <5> QED
          BY <3>1, <4>1, <5>1
      <4>3. e - d \in Occurrences(path, t)
        BY <2>4, <4>1, <4>2 DEF Occurrences
      <4>4. e - d < Len(t) - c + 1
        BY <1>4, <2>1, <2>3, <2>5, <3>1
      <4>5. e - d + Lp <= Len(t) - c + 1
        BY <2>2, <4>3, <4>4 DEF Clear, Lp
      <4> QED
        BY <1>1, <1>4, <2>1, <2>3, <3>1, <4>5
    <3> QED
      BY <3>1, <3>2, <3>3
  <2>6. Clear(path, x, Len(x) - c + 1)
    BY <2>5 DEF Clear, Lp
  <2> QED
    BY <1>4, <2>1, <2>2, <2>3, <2>6 DEF Good
<1> DEFINE T == {i \in 1 .. a + 1 : Good(i)}
<1> HIDE DEF T
<1>7. ASSUME NEW i \in 1 .. a + 1, \A j \in i + 1 .. a + 1 : j \in T
      PROVE  Good(i)
  <2>0. \A j \in i + 1 .. a + 1 : Good(j)
    BY <1>7 DEF T
  <2>1. CASE i = a + 1
    <3>1. Len(f[i]) = c
      BY <2>1 DEF c
    <3>2. \A e \in Occurrences(path, f[i]) : ~(e < 1)
      BY <1>3 DEF Occurrences
    <3>3. Len(f[i]) - c + 1 = 1
      BY <1>4, <3>1
    <3>4. Clear(path, f[i], 1)
      BY <3>2 DEF Clear
    <3> QED
      BY <1>4, <3>1, <3>3, <3>4 DEF Good
  <2>2. CASE i # a + 1 /\ OccursAt(url, text, i)
    <3>1. i \in 1 .. n
      BY <1>1, <2>2 DEF n
    <3>2. /\ GoesOn(f[i], Lb, f[i + Lu])
          /\ \A p \in 1 .. Lb : f[i][p] = by[p]
      BY <1>2, <2>2, <3>1
    <3>3. i + Lu \in i + 1 .. a + 1 /\ i + Lu \in 1 .. a + 1
      <4>1. i \in Occurrences(url, text) /\ i < a + 1
        BY <1>1, <2>2, <3>1 DEF Occurrences
      <4>2. i + Lu <= a + 1
        BY <4>1 DEF Clear, Lu
      <4> QED
        BY <1>1, <4>2
    <3>4. ASSUME NEW x \in 1 .. Lb, OccursAt(path, f[i], x) PROVE FALSE
      <4>1. f[i][x + 1 - 1] = path[1] /\ 1 \in 1 .. Lp /\ x + 1 - 1 = x
        BY <1>1, <3>4 DEF OccursAt
      <4> QED
        BY <1>5, <3>2, <4>1
    <3> QED
      BY <1>1, <1>6, <2>0, <3>2, <3>3, <3>4
  <2>3. CASE i # a + 1 /\ ~OccursAt(url, text, i)
    <3>1. i \in 1 .. n /\ i + 1 \in i + 1 .. a + 1 /\ i + 1 \in 1 .. a + 1
      BY <1>1, <2>3 DEF n
    <3>2. GoesOn(f[i], 1, f[i + 1])
      BY <1>2, <2>3, <3>1
    <3>3. ASSUME OccursAt(path, f[i], 1) PROVE 1 + Lp <= Len(f[i]) - c + 1
      <4>1. OccursAt(path, text, i)
        <5>1. i \in 1 .. Len(text) + 1
          BY <1>3 DEF n
        <5> QED
          BY <3>3, <5>1, EchoIsCopied
      <4>2. i \in Occurrences(path, text)
        BY <1>1, <3>1, <4>1 DEF Occurrences
      <4>3. i + Lp <= a + 1
        BY <4>2 DEF Within, Lp
      <4>4. \A q \in 0 .. Lp - 1 : ~OccursAt(url, text, i + q)
        <5> SUFFICES ASSUME NEW q \in 0 .. Lp - 1, OccursAt(url, text, i + q) PROVE FALSE
          OBVIOUS
        <5>1. i + 0 = i
          BY <1>1
        <5>2. 0 < q
          BY <1>1, <2>3, <5>1
        <5>3. i + q \in 1 .. n
          BY <1>1, <4>3
        <5>4. i + q \in Occurrences(url, text)
          BY <1>1, <5>3 DEF Occurrences
        <5>5. i < i + q
          BY <1>1, <5>2
        <5>6. i + Lp <= i + q
          BY <4>2, <5>4, <5>5 DEF ApartFrom, Lp
        <5> QED
          BY <1>1, <5>6
      <4>5. GoesOn(f[i], Lp, f[i + Lp])
        <5>1. i \in 1 .. Len(text) /\ \A q \in 0 .. Len(path) - 1 : ~OccursAt(url, text, i + q)
          BY <3>1, <4>4 DEF n, Lp
        <5> QED
          BY <4>1, <5>1, EchoIsKept DEF Lp
      <4>6. i + Lp \in i + 1 .. a + 1 /\ i + Lp \in 1 .. a + 1
        BY <1>1, <4>3
      <4>7. Len(f[i]) = Lp + Len(f[i + Lp])
        BY <4>5 DEF GoesOn
      <4>8. c <= Len(f[i + Lp])
        BY <2>0, <4>6 DEF Good
      <4>9. Len(f[i + Lp]) \in Nat
        BY <1>3, <4>6
      <4> QED
        BY <1>1, <1>4, <4>7, <4>8, <4>9
    <3>4. \A x \in 1 .. 1 : OccursAt(path, f[i], x) => x + Lp <= Len(f[i]) - c + 1
      BY <3>3
    <3> QED
      BY <1>6, <2>0, <3>1, <3>2, <3>4
  <2> QED
    BY <2>1, <2>2, <2>3
<1>8. 1 .. a + 1 \subseteq T
  <2>1. a + 1 \in Nat
    BY <1>1
  <2>2. \A i \in 1 .. a + 1 : (\A j \in i + 1 .. a + 1 : j \in T) => i \in T
    BY <1>7 DEF T
  <2> QED
    BY <2>1, <2>2, InductionDown
<1> QED
  BY <1>8 DEF T, Good, c

LEMMA OccursBefore ==
  ASSUME NEW S, NEW text \in Seq(S), NEW head \in Seq(S), NEW pattern \in Seq(S),
         Len(head) <= Len(text), BeginsWith(text, head),
         NEW i \in 1 .. Len(head), i + Len(pattern) <= Len(head) + 1
  PROVE  OccursAt(pattern, text, i) <=> OccursAt(pattern, head, i)
<1>1. /\ Len(head) \in Nat /\ Len(text) \in Nat /\ Len(pattern) \in Nat
      /\ DOMAIN pattern = 1 .. Len(pattern)
  OBVIOUS
<1>2. \A j \in 1 .. Len(pattern) : i + j - 1 \in 1 .. Len(head)
  BY <1>1
<1>3. \A j \in 1 .. Len(pattern) : text[i + j - 1] = head[i + j - 1]
  BY <1>2 DEF BeginsWith
<1>4. i + Len(pattern) - 1 <= Len(text) /\ i + Len(pattern) - 1 <= Len(head)
  BY <1>1
<1> QED
  BY <1>1, <1>3, <1>4 DEF OccursAt

\* One replacement in two parts.
LEMMA ReplacedApart ==
  ASSUME NEW S, NEW text \in Seq(S), NEW head \in Seq(S), NEW tail \in Seq(S),
         GoesOn(text, Len(head), tail), BeginsWith(text, head),
         NEW pattern \in Seq(S), pattern # <<>>, NEW by \in Seq(S),
         Clear(pattern, text, Len(head) + 1),
         NEW x, NEW y, NEW z, x = ReplaceIn(text, pattern, by),
         y = ReplaceIn(head, pattern, by), z = ReplaceIn(tail, pattern, by)
  PROVE  x \in Seq(S) /\ y \in Seq(S) /\ z \in Seq(S) /\ Joins(x, y, z)
<1>1. /\ Len(text) \in Nat /\ Len(head) \in Nat /\ Len(tail) \in Nat /\ Len(pattern) \in Nat \ {0}
  OBVIOUS
<1>2. PICK f : Replaces(f, text, pattern, by) /\ x = f[1]
  BY <1>1, ReplaceInIsRecursive
<1>3. PICK g : Replaces(g, head, pattern, by) /\ y = g[1]
  BY <1>1, ReplaceInIsRecursive
<1>4. PICK h : Replaces(h, tail, pattern, by) /\ z = h[1]
  BY <1>1, ReplaceInIsRecursive
<1>5. 1 \in 1 .. Len(text) + 1 /\ 1 \in 1 .. Len(head) + 1 /\ 1 \in 1 .. Len(tail) + 1
  BY <1>1
<1>6. f[1] \in Seq(S) /\ g[1] \in Seq(S) /\ h[1] \in Seq(S)
  BY <1>2, <1>3, <1>4, <1>5, ReplacedIsText
<1>7. Joins(f[1], g[1], h[1])
  BY <1>2, <1>3, <1>4, <1>5, ReplacedInTwoParts
<1> QED
  BY <1>2, <1>3, <1>4, <1>6, <1>7, Zenon

\* Where no echo lies across a place, a text is redacted up to there and from there on.
LEMMA RedactedInTwoParts ==
  ASSUME NEW S, Marks \subseteq S, NEW text \in Seq(S), NEW url \in Seq(S),
         IsUtf8(url), IsRedactable(url), NEW path, path = PathAndQuery(url),
         NEW a \in 0 .. Len(text), Within(path, text, a + 1), ApartFrom(path, url, text),
         NEW head \in Seq(S), NEW tail \in Seq(S), Len(head) = a,
         GoesOn(text, a, tail), BeginsWith(text, head),
         NEW v, v = Redact(text, url), NEW w, w = Redact(head, url)
  PROVE  v \in Seq(S) /\ w \in Seq(S) /\ Len(w) <= Len(v) /\ BeginsWith(v, w)
<1>1. path \in Seq(S) /\ path # <<>> /\ EndsWith(url, path) /\ url # <<>>
  BY RedactableIsLong
<1>2. Len(path) >= MinRedactablePath /\ \A i \in DOMAIN path : path[i] \notin {"<", ">"}
  BY DEF IsRedactable
<1>3. PICK u \in Seq(S) : u = UrlMark
  BY MarksAreText
<1>4. PICK p \in Seq(S) : p = PathMark
  BY MarksAreText
<1>5. u # <<>> /\ \A b \in DOMAIN u : u[b] \in {"<", ">"}
  BY <1>3, MarksAreText
<1>6. \A j \in DOMAIN path : \A b \in DOMAIN u : path[j] # u[b]
  BY <1>2, <1>5
<1>7. GoesOn(text, Len(head), tail)
  OBVIOUS
<1>8. Clear(url, text, a + 1)
  <2>1. a + 1 \in Nat
    OBVIOUS
  <2> QED
    BY <1>1, <2>1, UrlsEndBefore
<1>9. PICK x, y, z : /\ x = ReplaceIn(text, url, u) /\ y = ReplaceIn(head, url, u)
                     /\ z = ReplaceIn(tail, url, u)
  OBVIOUS
<1>10. x \in Seq(S) /\ y \in Seq(S) /\ z \in Seq(S) /\ Joins(x, y, z)
  <2>1. Clear(url, text, Len(head) + 1)
    BY <1>7, <1>8
  <2> QED
    BY <1>1, <1>7, <1>9, <2>1, ReplacedApart
<1>11. GoesOn(x, Len(y), z) /\ BeginsWith(x, y)
  <2>1. x = y \o z
    BY <1>10 DEF Joins
  <2> QED
    BY <1>10, <2>1, ConcatGoesOn
<1>12. Clear(path, x, Len(y) + 1)
  <2>1. /\ Len(text) \in Nat /\ Len(head) \in Nat /\ Len(tail) \in Nat /\ Len(url) \in Nat \ {0}
        /\ Len(z) \in Nat /\ Len(y) \in Nat
    BY <1>1, <1>7, <1>10
  <2>2. PICK f : Replaces(f, text, url, u) /\ x = f[1]
    BY <1>9, <2>1, ReplaceInIsRecursive
  <2>3. PICK g : Replaces(g, head, url, u) /\ y = g[1]
    BY <1>9, <2>1, ReplaceInIsRecursive
  <2>4. PICK h : Replaces(h, tail, url, u) /\ z = h[1]
    BY <1>9, <2>1, ReplaceInIsRecursive
  <2>5. Clear(path, f[1], Len(f[1]) - Len(f[a + 1]) + 1)
    <3>1. \A i \in 1 .. a + 1 :
            Len(f[a + 1]) <= Len(f[i]) /\ Clear(path, f[i], Len(f[i]) - Len(f[a + 1]) + 1)
      <4>1. /\ url # <<>> /\ u # <<>> /\ path \in Seq(S) /\ path # <<>>
            /\ Replaces(f, text, url, u) /\ Clear(url, text, a + 1)
            /\ Within(path, text, a + 1) /\ ApartFrom(path, url, text)
        BY <1>1, <1>5, <1>8, <2>2
      <4> QED
        BY <1>6, <4>1, EchoesEndBefore
    <3>2. 1 \in 1 .. a + 1
      OBVIOUS
    <3> QED
      BY <3>1, <3>2, Zenon
  <2>6. Len(f[a + 1]) = Len(z)
    <3>1. Joins(f[a + 1], g[a + 1], h[1])
      <4>1. Clear(url, text, Len(head) + 1) /\ Len(head) + 1 = a + 1 /\ a + 1 \in 1 .. Len(head) + 1
        BY <1>7, <1>8
      <4>2. Joins(f[Len(head) + 1], g[Len(head) + 1], h[1])
        <5>1. Len(head) + 1 \in 1 .. Len(head) + 1
          BY <2>1
        <5> QED
          BY <1>1, <1>7, <2>2, <2>3, <2>4, <4>1, <5>1, ReplacedInTwoParts
      <4> QED
        BY <4>1, <4>2, Zenon
    <3>2. g[a + 1] = <<>>
      <4>1. g[Len(head) + 1] = <<>>
        BY <2>1, <2>3, ReplaceStep
      <4> QED
        BY <1>7, <4>1, Zenon
    <3>3. f[a + 1] = <<>> \o z
      BY <2>4, <3>1, <3>2, Zenon DEF Joins
    <3>4. <<>> \o z = z
      BY <1>10, NothingMore
    <3> QED
      BY <3>3, <3>4, Zenon
  <2>7. Len(x) = Len(y) + Len(z)
    BY <1>11 DEF GoesOn
  <2>8. Clear(path, x, Len(x) - Len(z) + 1)
    BY <2>2, <2>5, <2>6, Zenon
  <2>9. Len(x) - Len(z) + 1 = Len(y) + 1
    BY <2>1, <2>7
  <2> QED
    BY <2>8, <2>9, Zenon
<1>13. PICK xx, yy, zz : /\ xx = ReplaceIn(x, path, p) /\ yy = ReplaceIn(y, path, p)
                         /\ zz = ReplaceIn(z, path, p)
  OBVIOUS
<1>14. xx \in Seq(S) /\ yy \in Seq(S) /\ zz \in Seq(S) /\ Joins(xx, yy, zz)
  BY <1>1, <1>10, <1>11, <1>12, <1>13, ReplacedApart
<1>15. v = xx /\ w = yy
  BY <1>2, <1>3, <1>4, <1>9, <1>13, Zenon DEF Redact
<1>16. xx = yy \o zz
  BY <1>14 DEF Joins
<1>17. GoesOn(xx, Len(yy), zz) /\ BeginsWith(xx, yy)
  BY <1>14, <1>16, ConcatGoesOn
<1>18. Len(yy) <= Len(xx)
  <2>1. Len(yy) \in Nat /\ Len(zz) \in Nat /\ Len(xx) = Len(yy) + Len(zz)
    BY <1>14, <1>17 DEF GoesOn
  <2> QED
    BY <2>1
<1> QED
  BY <1>14, <1>15, <1>17, <1>18, Zenon

----------------------------------------------------------------------------
(* How much shorter redaction makes a text *)

\* A text weighs at least w when every letter of a mark weighs c and every other one weighs d:
\* m[j] is what the first j letters of it weigh.
Weighs(x, marks, c, d, w) ==
  \E m : /\ \A j \in 0 .. Len(x) : m[j] \in Int
         /\ m[0] = 0 /\ m[Len(x)] >= w
         /\ \A j \in 1 .. Len(x) : m[j] <= m[j - 1] + (IF x[j] \in marks THEN c ELSE d)

LEMMA NothingWeighs == ASSUME NEW marks, NEW c, NEW d PROVE Weighs(<<>>, marks, c, d, 0)
<1> DEFINE m == [j \in {0} |-> 0]
<1>1. Len(<<>>) = 0 /\ m[0] = 0 /\ \A j \in 0 .. 0 : m[j] \in Int
  OBVIOUS
<1> HIDE DEF m
<1> QED
  BY <1>1 DEF Weighs

LEMMA WeighsLess ==
  ASSUME NEW x, NEW marks, NEW c, NEW d, NEW w \in Int, NEW v \in Int, w <= v,
         Len(x) \in Nat, Weighs(x, marks, c, d, v)
  PROVE  Weighs(x, marks, c, d, w)
<1>1. PICK m : /\ \A j \in 0 .. Len(x) : m[j] \in Int
               /\ m[0] = 0 /\ m[Len(x)] >= v
               /\ \A j \in 1 .. Len(x) : m[j] <= m[j - 1] + (IF x[j] \in marks THEN c ELSE d)
  BY DEF Weighs
<1>2. m[Len(x)] \in Int /\ m[Len(x)] >= w
  BY <1>1
<1> QED
  BY <1>1, <1>2 DEF Weighs

\* A text weighs as much as what it goes on with, and more by the letters before that.
LEMMA WeighsMore ==
  ASSUME NEW marks, NEW c \in Nat, NEW d \in Nat,
         NEW x, NEW t, NEW n \in Nat, GoesOn(x, n, t), Len(t) \in Nat,
         NEW w \in Int, Weighs(t, marks, c, d, w),
         NEW u, \A j \in 0 .. n : u[j] \in Int, u[0] = 0,
         \A j \in 1 .. n : u[j] <= u[j - 1] + (IF x[j] \in marks THEN c ELSE d)
  PROVE  Weighs(x, marks, c, d, u[n] + w)
<1>1. PICK m : /\ \A j \in 0 .. Len(t) : m[j] \in Int
               /\ m[0] = 0 /\ m[Len(t)] >= w
               /\ \A j \in 1 .. Len(t) : m[j] <= m[j - 1] + (IF t[j] \in marks THEN c ELSE d)
  BY DEF Weighs
<1>2. Len(x) = n + Len(t) /\ \A j \in 1 .. Len(t) : x[n + j] = t[j]
  BY DEF GoesOn
<1> DEFINE a == Len(t)
           mm == [j \in 0 .. n + a |-> IF j <= n THEN u[j] ELSE u[n] + m[j - n]]
<1>3. a \in Nat /\ u[n] \in Int
  OBVIOUS
<1>4. \A j \in 1 .. a : m[j] \in Int /\ m[j - 1] \in Int /\ j - 1 \in 0 .. a
  BY <1>1, <1>3
<1> HIDE DEF a
<1>5. \A j \in 0 .. n : mm[j] = u[j] /\ mm[j] \in Int
  BY <1>3
<1>6. \A j \in 1 .. a : n + j \in 0 .. n + a /\ mm[n + j] = u[n] + m[j] /\ mm[n + j] \in Int
  <2> SUFFICES ASSUME NEW j \in 1 .. a
               PROVE  n + j \in 0 .. n + a /\ mm[n + j] = u[n] + m[j] /\ mm[n + j] \in Int
    OBVIOUS
  <2>1. n + j \in 0 .. n + a /\ ~(n + j <= n) /\ n + j - n = j
    BY <1>3
  <2>2. mm[n + j] = u[n] + m[j]
    BY <2>1
  <2> QED
    BY <1>3, <1>4, <2>1, <2>2
<1> HIDE DEF mm
<1>7. \A j \in 0 .. n + a : j \in 0 .. n \/ (j - n \in 1 .. a /\ n + (j - n) = j)
  BY <1>3
<1>8. \A j \in 0 .. n + a : mm[j] \in Int
  <2> SUFFICES ASSUME NEW j \in 0 .. n + a PROVE mm[j] \in Int
    OBVIOUS
  <2>1. CASE j \in 0 .. n
    BY <1>5, <2>1
  <2>2. CASE j - n \in 1 .. a /\ n + (j - n) = j
    <3>1. mm[n + (j - n)] \in Int
      BY <1>6, <2>2
    <3> QED
      BY <2>2, <3>1
  <2> QED
    BY <1>7, <2>1, <2>2
<1>9. mm[0] = 0
  BY <1>5
<1>10. mm[n + a] = u[n] + m[a]
  <2>1. CASE a = 0
    <3>1. n + a = n /\ n \in 0 .. n
      BY <1>3, <2>1
    <3> QED
      BY <1>1, <1>3, <1>5, <2>1, <3>1
  <2>2. CASE a # 0
    <3>1. a \in 1 .. a
      BY <1>3, <2>2
    <3> QED
      BY <1>6, <3>1
  <2> QED
    BY <2>1, <2>2
<1>11. \A j \in 1 .. n + a : mm[j] <= mm[j - 1] + (IF x[j] \in marks THEN c ELSE d)
  <2> SUFFICES ASSUME NEW j \in 1 .. n + a
               PROVE  mm[j] <= mm[j - 1] + (IF x[j] \in marks THEN c ELSE d)
    OBVIOUS
  <2>1. CASE j \in 1 .. n
    <3>1. j \in 0 .. n /\ j - 1 \in 0 .. n
      BY <2>1
    <3>2. mm[j] = u[j] /\ mm[j - 1] = u[j - 1]
      BY <1>5, <3>1
    <3> QED
      BY <2>1, <3>2
  <2>2. CASE ~(j \in 1 .. n)
    <3>1. PICK k \in 1 .. a : n + k = j
      <4>1. j - n \in 1 .. a /\ n + (j - n) = j
        BY <1>3, <2>2
      <4> QED
        BY <4>1
    <3>2. mm[j] = u[n] + m[k] /\ x[j] = t[k]
      BY <1>2, <1>6, <3>1 DEF a
    <3>3. mm[j - 1] = u[n] + m[k - 1]
      <4>1. CASE k = 1
        <5>1. j - 1 = n /\ k - 1 = 0 /\ n \in 0 .. n
          BY <3>1, <4>1
        <5>2. mm[n] = u[n]
          BY <1>5, <5>1
        <5> QED
          BY <1>1, <1>3, <5>1, <5>2
      <4>2. CASE k # 1
        <5>1. k - 1 \in 1 .. a /\ n + (k - 1) = j - 1
          BY <1>3, <3>1, <4>2
        <5>2. mm[n + (k - 1)] = u[n] + m[k - 1]
          BY <1>6, <5>1
        <5> QED
          BY <5>1, <5>2
      <4> QED
        BY <4>1, <4>2
    <3>4. m[k] <= m[k - 1] + (IF t[k] \in marks THEN c ELSE d)
      BY <1>1 DEF a
    <3>5. m[k] \in Int /\ m[k - 1] \in Int
      BY <1>4
    <3>6. PICK p, q, r \in Int : p = u[n] /\ q = m[k - 1] /\ r = m[k]
      BY <1>3, <3>5
    <3>7. mm[j] = p + r /\ mm[j - 1] = p + q
      BY <3>2, <3>3, <3>6, Zenon
    <3>8. CASE t[k] \in marks
      <4>1. r <= q + c
        BY <3>4, <3>6, <3>8
      <4>2. p + r <= p + q + c
        BY <4>1
      <4> QED
        BY <3>2, <3>7, <3>8, <4>2
    <3>9. CASE t[k] \notin marks
      <4>1. r <= q + d
        BY <3>4, <3>6, <3>9
      <4>2. p + r <= p + q + d
        BY <4>1
      <4> QED
        BY <3>2, <3>7, <3>9, <4>2
    <3> QED
      BY <3>8, <3>9
  <2> QED
    BY <2>1, <2>2
<1>12. m[a] \in Int /\ m[a] >= w
  BY <1>1, <1>3 DEF a
<1>13. mm[n + a] >= u[n] + w
  BY <1>3, <1>10, <1>12
<1>14. Len(x) = n + a
  BY <1>2 DEF a
<1>15. /\ \A j \in 0 .. Len(x) : mm[j] \in Int
       /\ mm[0] = 0 /\ mm[Len(x)] >= u[n] + w
       /\ \A j \in 1 .. Len(x) : mm[j] <= mm[j - 1] + (IF x[j] \in marks THEN c ELSE d)
  BY <1>8, <1>9, <1>11, <1>13, <1>14
<1> QED
  BY <1>15 DEF Weighs

\* A mark weighs no less than what it replaces.
Outweighs(by, url, c, d) == d * Len(url) <= c * Len(by)

\* With the URL replaced, a text weighs what it weighed when a mark weighs as much as an URL.
LEMMA ReplacedWeighs ==
  ASSUME NEW S, NEW text \in Seq(S), NEW url \in Seq(S), url # <<>>, NEW by \in Seq(S),
         NEW f, Replaces(f, text, url, by),
         NEW marks, \A b \in 1 .. Len(by) : by[b] \in marks,
         NEW c \in Nat, NEW d \in Nat, d <= c, Outweighs(by, url, c, d)
  PROVE  \A i \in 1 .. Len(text) + 1 : Weighs(f[i], marks, c, d, d * (Len(text) + 1 - i))
<1> DEFINE n == Len(text)
           Lu == Len(url)
           Lb == Len(by)
           W(i) == d * (n + 1 - i)
<1>1. n \in Nat /\ Lu \in Nat \ {0} /\ Lb \in Nat
  OBVIOUS
<1>2. /\ \A i \in 1 .. n + 1 : f[i] \in Seq(S)
      /\ f[n + 1] = <<>>
      /\ \A i \in 1 .. n :
           /\ OccursAt(url, text, i) =>
                /\ i + Lu \in i + 1 .. n + 1
                /\ GoesOn(f[i], Lb, f[i + Lu])
                /\ \A p \in 1 .. Lb : f[i][p] = by[p]
           /\ ~OccursAt(url, text, i) => GoesOn(f[i], 1, f[i + 1]) /\ f[i][1] = text[i]
  BY ReplaceGoesOn
<1>3. \A i \in 1 .. n + 1 : Len(f[i]) \in Nat
  BY <1>2
<1>4. d * Lu <= c * Lb /\ \A b \in 1 .. Lb : by[b] \in marks
  BY DEF Outweighs
<1> HIDE DEF n, Lu, Lb
<1>5. \A i \in 1 .. n + 1 : W(i) \in Int
  <2> SUFFICES ASSUME NEW i \in 1 .. n + 1 PROVE W(i) \in Int
    OBVIOUS
  <2>1. PICK k \in Int : k = n + 1 - i
    BY <1>1
  <2>2. d * k \in Int
    BY <2>1
  <2> QED
    BY <2>1, <2>2
<1> DEFINE T == {i \in 1 .. n + 1 : Weighs(f[i], marks, c, d, W(i))}
<1>6. ASSUME NEW i \in 1 .. n + 1, \A j \in i + 1 .. n + 1 : Weighs(f[j], marks, c, d, W(j))
      PROVE  Weighs(f[i], marks, c, d, W(i))
  <2>1. CASE i = n + 1
    <3>1. W(i) = 0
      BY <1>1, <2>1
    <3> QED
      BY <1>2, <2>1, <3>1, NothingWeighs
  <2>2. CASE i # n + 1 /\ OccursAt(url, text, i)
    <3>1. i \in 1 .. n
      BY <1>1, <2>2
    <3>2. /\ i + Lu \in i + 1 .. n + 1
          /\ GoesOn(f[i], Lb, f[i + Lu])
          /\ \A p \in 1 .. Lb : f[i][p] = by[p]
      BY <1>2, <2>2, <3>1
    <3> DEFINE u == [j \in 0 .. Lb |-> c * j]
    <3>3. /\ \A j \in 0 .. Lb : u[j] \in Int
          /\ u[0] = 0 /\ u[Lb] = c * Lb
          /\ \A j \in 1 .. Lb : u[j] <= u[j - 1] + c
      <4>1. \A j \in 1 .. Lb : c * j = c * (j - 1) + c /\ j - 1 \in 0 .. Lb
        BY <1>1
      <4> QED
        BY <1>1, <4>1
    <3> HIDE DEF u, W
    <3>4. \A j \in 1 .. Lb : f[i][j] \in marks
      BY <1>4, <3>2
    <3>5. \A j \in 1 .. Lb : u[j] <= u[j - 1] + (IF f[i][j] \in marks THEN c ELSE d)
      BY <3>3, <3>4
    <3>6. PICK k : k = i + Lu /\ k \in 1 .. n + 1 /\ k \in i + 1 .. n + 1
      BY <1>1, <3>2
    <3>7. PICK w \in Int : w = W(k)
      BY <1>5, <3>6
    <3>8. Weighs(f[k], marks, c, d, w) /\ GoesOn(f[i], Lb, f[k]) /\ Len(f[k]) \in Nat
      BY <1>3, <1>6, <3>2, <3>6, <3>7
    <3>9. Weighs(f[i], marks, c, d, u[Lb] + w)
      BY <1>1, <3>3, <3>5, <3>8, WeighsMore
    <3>10. u[Lb] + w >= W(i)
      <4>1. d * (n + 1 - i) = d * Lu + d * (n + 1 - k)
        <5>1. n + 1 - i = Lu + (n + 1 - k)
          BY <1>1, <3>6
        <5> QED
          BY <1>1, <3>6, <5>1
      <4> QED
        BY <1>1, <1>4, <3>3, <3>6, <3>7, <4>1 DEF W
    <3>11. PICK v \in Int : v = u[Lb] + w
      BY <1>1, <3>3, <3>7
    <3>12. PICK z \in Int : z = W(i)
      BY <1>5
    <3>13. Weighs(f[i], marks, c, d, v) /\ z <= v /\ Len(f[i]) \in Nat
      BY <1>3, <3>9, <3>10, <3>11, <3>12
    <3>14. Weighs(f[i], marks, c, d, z)
      BY <3>13, WeighsLess
    <3> QED
      BY <3>12, <3>14
  <2>3. CASE i # n + 1 /\ ~OccursAt(url, text, i)
    <3>1. i \in 1 .. n
      BY <1>1, <2>3
    <3>2. GoesOn(f[i], 1, f[i + 1])
      BY <1>2, <2>3, <3>1
    <3> DEFINE u == [j \in 0 .. 1 |-> IF j = 0 THEN 0 ELSE d]
    <3>3. /\ \A j \in 0 .. 1 : u[j] \in Int
          /\ u[0] = 0 /\ u[1] = d
      OBVIOUS
    <3> HIDE DEF u, W
    <3>4. \A j \in 1 .. 1 : u[j] <= u[j - 1] + (IF f[i][j] \in marks THEN c ELSE d)
      BY <3>3
    <3>5. PICK k : k = i + 1 /\ k \in 1 .. n + 1 /\ k \in i + 1 .. n + 1
      BY <1>1, <3>1
    <3>6. PICK w \in Int : w = W(k)
      BY <1>5, <3>5
    <3>7. Weighs(f[k], marks, c, d, w) /\ GoesOn(f[i], 1, f[k]) /\ Len(f[k]) \in Nat
      BY <1>3, <1>6, <3>2, <3>5, <3>6
    <3>8. Weighs(f[i], marks, c, d, u[1] + w)
      BY <3>3, <3>4, <3>7, WeighsMore
    <3>9. u[1] + w = W(i)
      <4>1. d * (n + 1 - i) = d + d * (n + 1 - k)
        <5>1. n + 1 - i = 1 + (n + 1 - k)
          BY <1>1, <3>5
        <5> QED
          BY <1>1, <3>5, <5>1
      <4> QED
        BY <3>3, <3>6, <4>1 DEF W
    <3> QED
      BY <3>8, <3>9
  <2> QED
    BY <2>1, <2>2, <2>3
<1>7. 1 .. n + 1 \subseteq T
  <2>1. n + 1 \in Nat
    BY <1>1
  <2>2. \A i \in 1 .. n + 1 : (\A j \in i + 1 .. n + 1 : j \in T) => i \in T
    BY <1>6
  <2> HIDE DEF T
  <2> QED
    BY <2>1, <2>2, InductionDown
<1> QED
  BY <1>7 DEF n

LEMMA Distributes ==
  ASSUME NEW c \in Nat, NEW a \in Nat, NEW b \in Nat
  PROVE  c * (a + b) = c * a + c * b /\ c * a \in Nat /\ c * b \in Nat /\ c * 0 = 0 /\ c * 1 = c
OBVIOUS

\* With the path replaced as well, it is at least as long as its weight makes it.
LEMMA HeavyIsLong ==
  ASSUME NEW S, NEW text \in Seq(S), NEW path \in Seq(S), path # <<>>, NEW by \in Seq(S),
         NEW f, Replaces(f, text, path, by),
         NEW marks, \A j \in 1 .. Len(path) : path[j] \notin marks,
         NEW c \in Nat, NEW d \in Nat, d <= c, Outweighs(by, path, c, d),
         NEW w \in Int, Weighs(text, marks, c, d, w)
  PROVE  w <= c * Len(f[1])
<1> DEFINE n == Len(text)
           Lp == Len(path)
           Lb == Len(by)
           l(i) == Len(f[i])
<1>1. n \in Nat /\ Lp \in Nat \ {0} /\ Lb \in Nat /\ DOMAIN path = 1 .. Lp
  OBVIOUS
<1>2. /\ \A i \in 1 .. n + 1 : f[i] \in Seq(S)
      /\ f[n + 1] = <<>>
      /\ \A i \in 1 .. n :
           /\ OccursAt(path, text, i) =>
                /\ i + Lp \in i + 1 .. n + 1
                /\ GoesOn(f[i], Lb, f[i + Lp])
                /\ \A p \in 1 .. Lb : f[i][p] = by[p]
           /\ ~OccursAt(path, text, i) => GoesOn(f[i], 1, f[i + 1]) /\ f[i][1] = text[i]
  BY ReplaceGoesOn
<1>3. \A i \in 1 .. n + 1 : l(i) \in Nat
  BY <1>2
<1>4. PICK m : /\ \A j \in 0 .. n : m[j] \in Int
               /\ m[0] = 0 /\ m[n] >= w
               /\ \A j \in 1 .. n : m[j] <= m[j - 1] + (IF text[j] \in marks THEN c ELSE d)
  BY DEF Weighs
<1>5. d * Lp <= c * Lb
  BY DEF Outweighs
<1>6. l(n + 1) = 0
  BY <1>2
<1>7. \A i \in 1 .. n :
        /\ OccursAt(path, text, i) => i + Lp \in i + 1 .. n + 1 /\ l(i) = Lb + l(i + Lp)
        /\ ~OccursAt(path, text, i) => l(i) = 1 + l(i + 1)
  BY <1>2 DEF GoesOn
<1> HIDE DEF n, Lp, Lb, l
<1> DEFINE Good(i) == m[n] - m[i - 1] <= c * l(i)
           T == {i \in 1 .. n + 1 : Good(i)}
<1>8. ASSUME NEW i \in 1 .. n, OccursAt(path, text, i)
      PROVE  m[i + Lp - 1] <= m[i - 1] + d * Lp
  <2> DEFINE U == {k \in Nat : k <= Lp => m[i - 1 + k] <= m[i - 1] + d * k}
  <2>1. i + Lp \in i + 1 .. n + 1 /\ i - 1 \in 0 .. n
    BY <1>1, <1>7, <1>8
  <2>2. 0 \in U
    <3>1. i - 1 + 0 = i - 1 /\ d * 0 = 0 /\ m[i - 1] \in Int
      BY <1>4, <2>1
    <3> QED
      BY <3>1
  <2>3. ASSUME NEW k \in U PROVE k + 1 \in U
    <3> SUFFICES ASSUME k + 1 <= Lp PROVE m[i - 1 + (k + 1)] <= m[i - 1] + d * (k + 1)
      OBVIOUS
    <3>1. k \in Nat /\ k <= Lp /\ m[i - 1 + k] <= m[i - 1] + d * k
      BY <1>1
    <3>2. PICK j \in 1 .. n : j = i + k /\ j = i - 1 + (k + 1) /\ j - 1 = i - 1 + k /\ j - 1 \in 0 .. n
      BY <1>1, <2>1, <3>1
    <3>3. text[j] \notin marks
      <4>1. k + 1 \in 1 .. Lp /\ i + (k + 1) - 1 = j
        BY <1>1, <3>1, <3>2
      <4>2. text[i + (k + 1) - 1] = path[k + 1]
        BY <1>1, <1>8, <4>1 DEF OccursAt
      <4> QED
        BY <4>1, <4>2 DEF Lp
    <3>4. m[j] <= m[j - 1] + d
      BY <1>4, <3>2, <3>3
    <3>5. m[j] \in Int /\ m[j - 1] \in Int /\ m[i - 1] \in Int
      BY <1>4, <2>1, <3>2
    <3>6. d * (k + 1) = d * k + d /\ d * k \in Int
      <4>1. k \in Nat /\ 1 \in Nat
        BY <3>1
      <4>2. d * (k + 1) = d * k + d * 1 /\ d * k \in Nat /\ d * 1 = d
        BY <4>1, Distributes
      <4> QED
        BY <4>2
    <3>7. PICK x, y \in Int : x = d * k /\ y = d * (k + 1) /\ y = x + d
      BY <3>6
    <3> HIDE DEF U
    <3>8. m[i - 1 + k] <= m[i - 1] + x
      BY <3>1, <3>7, Zenon
    <3>9. m[j] <= m[i - 1] + y
      <4>1. PICK u, v, z \in Int : u = m[j] /\ v = m[i - 1 + k] /\ z = m[i - 1]
        BY <3>2, <3>5
      <4>2. u <= v + d /\ v <= z + x /\ y = x + d /\ x \in Int
        BY <3>2, <3>4, <3>7, <3>8, <4>1
      <4>3. u <= z + y
        BY <4>2
      <4> QED
        BY <4>1, <4>3, Zenon
    <3> QED
      BY <3>2, <3>7, <3>9, Zenon
  <2> HIDE DEF U
  <2>4. U = Nat
    <3>1. U \in SUBSET Nat
      BY DEF U
    <3> QED
      BY <2>2, <2>3, <3>1, Induction
  <2>5. m[i - 1 + Lp] <= m[i - 1] + d * Lp
    <3>1. Lp \in U
      BY <1>1, <2>4
    <3> QED
      BY <1>1, <3>1 DEF U
  <2>6. i - 1 + Lp = i + Lp - 1
    BY <1>1
  <2> QED
    BY <2>5, <2>6
<1>9. ASSUME NEW i \in 1 .. n + 1, \A j \in i + 1 .. n + 1 : Good(j)
      PROVE  Good(i)
  <2>0. m[n] \in Int /\ m[i - 1] \in Int
    BY <1>1, <1>4
  <2>1. CASE i = n + 1
    <3>1. i - 1 = n /\ l(i) = 0 /\ c * 0 = 0
      BY <1>1, <1>6, <2>1
    <3> QED
      BY <2>0, <3>1
  <2>2. CASE i # n + 1 /\ OccursAt(path, text, i)
    <3>1. i \in 1 .. n
      BY <1>1, <2>2
    <3>2. PICK k \in 1 .. n + 1 : k = i + Lp /\ k \in i + 1 .. n + 1 /\ l(i) = Lb + l(k) /\ k - 1 \in 0 .. n
      BY <1>1, <1>7, <2>2, <3>1
    <3>3. m[k - 1] <= m[i - 1] + d * Lp
      BY <1>1, <1>8, <2>2, <3>1, <3>2
    <3>4. m[n] - m[k - 1] <= c * l(k)
      BY <1>9, <3>2
    <3>5. c * (Lb + l(k)) = c * Lb + c * l(k) /\ c * Lb \in Nat /\ c * l(k) \in Nat
      <4>1. l(k) \in Nat
        BY <1>3
      <4> QED
        BY <1>1, <4>1, Distributes
    <3>6. m[k - 1] \in Int /\ d * Lp \in Int /\ c * Lb \in Int /\ c * l(k) \in Int
      <4>1. d * Lp \in Nat
        BY <1>1, Distributes
      <4>2. m[k - 1] \in Int
        BY <1>4, <3>2
      <4>3. \A v \in Nat : v \in Int
        OBVIOUS
      <4> QED
        BY <3>5, <4>1, <4>2, <4>3, Zenon
    <3>7. PICK p, q, r \in Int : p = d * Lp /\ q = c * Lb /\ r = c * l(k)
      BY <3>6
    <3>8. m[n] - m[i - 1] <= q + r
      <4>1. PICK u, v, z \in Int : u = m[n] /\ v = m[k - 1] /\ z = m[i - 1]
        BY <2>0, <3>6
      <4>2. v <= z + p /\ u - v <= r /\ p <= q
        BY <1>5, <3>3, <3>4, <3>7, <4>1, Zenon
      <4>3. u - z <= q + r
        BY <4>2
      <4> QED
        BY <4>1, <4>3, Zenon
    <3>9. c * l(i) = q + r
      BY <3>2, <3>5, <3>7, Zenon
    <3> QED
      BY <3>8, <3>9, Zenon
  <2>3. CASE i # n + 1 /\ ~OccursAt(path, text, i)
    <3>1. i \in 1 .. n
      BY <1>1, <2>3
    <3>2. PICK k \in 1 .. n + 1 : k = i + 1 /\ k \in i + 1 .. n + 1 /\ l(i) = 1 + l(k) /\ k - 1 = i
      BY <1>1, <1>7, <2>3, <3>1
    <3>3. m[i] <= m[i - 1] + c
      <4>1. m[i] \in Int
        BY <1>1, <1>4, <3>1
      <4>2. m[i] <= m[i - 1] + (IF text[i] \in marks THEN c ELSE d)
        BY <1>4, <3>1
      <4>3. CASE text[i] \in marks
        BY <2>0, <4>1, <4>2, <4>3
      <4>4. CASE text[i] \notin marks
        BY <2>0, <4>1, <4>2, <4>4
      <4> QED
        BY <4>3, <4>4
    <3>4. m[n] - m[i] <= c * l(k)
      BY <1>9, <3>2
    <3>5. c * (1 + l(k)) = c + c * l(k) /\ c * l(k) \in Nat
      <4>1. l(k) \in Nat /\ 1 \in Nat
        BY <1>3
      <4>2. c * (1 + l(k)) = c * 1 + c * l(k) /\ c * l(k) \in Nat /\ c * 1 = c
        BY <4>1, Distributes
      <4> QED
        BY <4>2
    <3>6. PICK r \in Int : r = c * l(k)
      BY <3>5
    <3>7. m[i] \in Int
      BY <1>1, <1>4, <3>1
    <3>8. m[n] - m[i - 1] <= c + r
      <4>1. PICK u, v, z \in Int : u = m[n] /\ v = m[i] /\ z = m[i - 1]
        BY <2>0, <3>7
      <4>2. v <= z + c /\ u - v <= r /\ r \in Int
        BY <3>3, <3>4, <3>6, <4>1, Zenon
      <4>3. u - z <= c + r
        BY <4>2
      <4> QED
        BY <4>1, <4>3, Zenon
    <3>9. c * l(i) = c + r
      BY <3>2, <3>5, <3>6, Zenon
    <3> QED
      BY <3>8, <3>9, Zenon
  <2> QED
    BY <2>1, <2>2, <2>3
<1>10. 1 .. n + 1 \subseteq T
  <2>1. n + 1 \in Nat
    BY <1>1
  <2>2. \A i \in 1 .. n + 1 : (\A j \in i + 1 .. n + 1 : j \in T) => i \in T
    BY <1>9
  <2> HIDE DEF T
  <2> QED
    BY <2>1, <2>2, InductionDown
<1>11. m[n] - m[0] <= c * l(1)
  <2>1. 1 \in 1 .. n + 1 /\ 1 - 1 = 0
    BY <1>1
  <2> QED
    BY <1>10, <2>1
<1>12. m[n] \in Int /\ c * l(1) \in Int
  <2>1. 1 \in 1 .. n + 1 /\ n \in 0 .. n
    BY <1>1
  <2> QED
    BY <1>3, <1>4, <2>1
<1> QED
  BY <1>4, <1>11, <1>12 DEF l

\* Redaction shortens a text by no more than the replacement of a whole echo does.
LEMMA RedactedIsLong ==
  ASSUME NEW S, Marks \subseteq S, NEW text \in Seq(S), NEW url \in Seq(S),
         IsUtf8(url), IsRedactable(url), NEW path, path = PathAndQuery(url),
         NEW c \in Nat, NEW d \in Nat, d <= c,
         Outweighs(UrlMark, url, c, d), Outweighs(PathMark, path, c, d)
  PROVE  d * Len(text) <= c * Len(Redact(text, url))
<1>1. path \in Seq(S) /\ path # <<>> /\ EndsWith(url, path) /\ url # <<>>
  BY RedactableIsLong
<1>2. Len(path) >= MinRedactablePath /\ \A i \in DOMAIN path : path[i] \notin {"<", ">"}
  BY DEF IsRedactable
<1>3. PICK u \in Seq(S) : u = UrlMark
  BY MarksAreText
<1>4. PICK p \in Seq(S) : p = PathMark
  BY MarksAreText
<1>5. PICK marks : marks = {"<", ">"}
  OBVIOUS
<1>6. \A b \in 1 .. Len(u) : u[b] \in marks
  <2>1. \A b \in DOMAIN u : u[b] \in {"<", ">"}
    BY <1>3, MarksAreText
  <2>2. DOMAIN u = 1 .. Len(u)
    OBVIOUS
  <2> QED
    BY <1>5, <2>1, <2>2
<1>7. \A j \in 1 .. Len(path) : path[j] \notin marks
  <2>1. DOMAIN path = 1 .. Len(path)
    BY <1>1
  <2> QED
    BY <1>2, <1>5, <2>1
<1>8. Outweighs(u, url, c, d) /\ Outweighs(p, path, c, d)
  BY <1>3, <1>4
<1>9. Len(text) \in Nat /\ Len(url) \in Nat \ {0} /\ Len(path) \in Nat \ {0}
  BY <1>1
<1>10. PICK x : x = ReplaceIn(text, url, u)
  OBVIOUS
<1>11. PICK f : Replaces(f, text, url, u) /\ x = f[1]
  BY <1>9, <1>10, ReplaceInIsRecursive
<1>12. 1 \in 1 .. Len(text) + 1
  BY <1>9
<1>13. x \in Seq(S)
  BY <1>1, <1>11, <1>12, ReplacedIsText
<1>14. Weighs(x, marks, c, d, d * (Len(text) + 1 - 1))
  BY <1>1, <1>6, <1>8, <1>11, <1>12, ReplacedWeighs
<1>15. PICK w \in Int : w = d * Len(text)
  <2>1. d * Len(text) \in Nat
    BY <1>9, Distributes
  <2> QED
    BY <2>1
<1>16. Weighs(x, marks, c, d, w)
  <2>1. Len(text) + 1 - 1 = Len(text)
    BY <1>9
  <2> QED
    BY <1>14, <1>15, <2>1, Zenon
<1>17. PICK y : y = ReplaceIn(x, path, p)
  OBVIOUS
<1>18. Len(x) \in Nat
  BY <1>13
<1>19. PICK g : Replaces(g, x, path, p) /\ y = g[1]
  BY <1>9, <1>17, <1>18, ReplaceInIsRecursive
<1>20. w <= c * Len(g[1])
  BY <1>1, <1>7, <1>8, <1>13, <1>16, <1>19, HeavyIsLong
<1>21. Redact(text, url) = y
  BY <1>2, <1>3, <1>4, <1>10, <1>17, Zenon DEF Redact
<1> QED
  BY <1>15, <1>19, <1>20, <1>21, Zenon

----------------------------------------------------------------------------
(* What is shown of a text that the capture cuts *)

\* A place of a text: no echo ends behind it, and before it the key is in whole echoes only.
IsCutAt(path, url, text, a) ==
  /\ a \in 0 .. Len(text)
  /\ Within(path, text, a + 1)
  /\ Apart(path, text)
  /\ ApartFrom(path, url, text)
  /\ \A p \in 1 .. a :
       text[p] = "k" => \E e \in Occurrences(path, text) : e <= p /\ p < e + Len(path)

LEMMA TruncatedIsText ==
  ASSUME NEW S, Marks \subseteq S
  PROVE  Truncated \in Seq(S) /\ ~HasKey(Truncated)
<1>1. "..." \in S
  BY DEF Marks
<1> QED
  BY <1>1 DEF Truncated, HasKey

\* What is shown of a text that goes on behind it.
LEMMA BoundedShowsTheHead ==
  ASSUME NEW S, Marks \subseteq S, NEW x \in Seq(S), NEW y \in Seq(S), Len(y) <= Len(x),
         BeginsWith(x, y), ~HasKey(y), NEW cap \in Nat, cap <= Len(y)
  PROVE  ~HasKey(Bounded(x, cap))
<1>1. /\ Len(x) \in Nat /\ DOMAIN x = 1 .. Len(x) /\ Len(y) \in Nat /\ DOMAIN y = 1 .. Len(y)
  OBVIOUS
<1>2. \A p \in 1 .. Len(y) : x[p] = y[p] /\ x[p] # "k"
  BY <1>1 DEF BeginsWith, HasKey
<1>3. CASE Len(x) <= cap
  <2>1. Bounded(x, cap) = x
    BY <1>3 DEF Bounded
  <2>2. \A p \in DOMAIN x : p \in 1 .. Len(y)
    BY <1>1, <1>3
  <2>3. ~HasKey(x)
    BY <1>2, <2>2 DEF HasKey
  <2> QED
    BY <2>1, <2>3
<1>4. CASE ~(Len(x) <= cap)
  <2> DEFINE cuts == {cut \in 0 .. cap : IsBoundary(x, cut)}
  <2>1. 0 \in cuts /\ cuts \in SUBSET (0 .. cap)
    BY DEF IsBoundary
  <2>2. Max(cuts) \in cuts
    <3> HIDE DEF cuts
    <3> QED
      BY <2>1, GreatestIsMax
  <2>3. PICK c : c = Max(cuts)
    OBVIOUS
  <2>4. c \in 0 .. cap
    BY <2>2, <2>3
  <2>5. Bounded(x, cap) = SubSeq(x, 1, c) \o Truncated
    BY <1>4, <2>3 DEF Bounded
  <2> HIDE DEF cuts
  <2>6. PICK h : h = SubSeq(x, 1, c)
    OBVIOUS
  <2>7. h \in Seq(S) /\ ~HasKey(h)
    <3>1. c \in 0 .. Len(x) /\ \A p \in 1 .. c : p \in 1 .. Len(y)
      BY <1>1, <1>4, <2>4
    <3>2. h \in Seq(S) /\ DOMAIN h = 1 .. c /\ \A p \in 1 .. c : h[p] = x[p]
      BY <2>6, <3>1
    <3> QED
      BY <1>2, <3>1, <3>2 DEF HasKey
  <2>8. PICK t \in Seq(S) : t = Truncated /\ ~HasKey(t)
    BY TruncatedIsText, Zenon
  <2>9. PICK z : z = h \o t
    OBVIOUS
  <2>10. ~HasKey(z)
    BY <2>7, <2>8, <2>9, ConcatHasNoKey
  <2> QED
    BY <2>5, <2>6, <2>8, <2>9, <2>10
<1> QED
  BY <1>3, <1>4

\* What precedes the place has the key in whole echoes only.
LEMMA HeadHasWholeEchoes ==
  ASSUME NEW S, NEW text \in Seq(S), NEW url \in Seq(S), NEW path \in Seq(S), path # <<>>,
         EndsWith(url, path), path = PathAndQuery(url),
         NEW a, IsCutAt(path, url, text, a),
         NEW head \in Seq(S), Len(head) = a, BeginsWith(text, head)
  PROVE  KeyOnlyInEchoes(head, url)
<1>1. /\ Len(text) \in Nat /\ Len(path) \in Nat \ {0} /\ Len(url) \in Nat
      /\ DOMAIN head = 1 .. a /\ a \in 0 .. Len(text)
      /\ DOMAIN text = 1 .. Len(text)
  BY DEF IsCutAt
<1>2. \A p \in 1 .. a : head[p] = text[p]
  BY <1>1 DEF BeginsWith
<1>3. ASSUME NEW s \in Seq(S), s # <<>>, NEW e \in Occurrences(s, head)
      PROVE  e \in Occurrences(s, text)
  <2>1. e \in 1 .. Len(head) /\ e \in 1 .. Len(text) /\ OccursAt(s, head, e)
    BY <1>1, <1>3 DEF Occurrences
  <2>2. e + Len(s) <= Len(head) + 1
    BY <2>1 DEF OccursAt
  <2>3. Len(head) <= Len(text)
    BY <1>1
  <2>4. OccursAt(s, text, e)
    BY <2>1, <2>2, <2>3, OccursBefore
  <2> QED
    BY <1>1, <2>1, <2>4 DEF Occurrences
<1>4. ASSUME NEW e \in Occurrences(path, text)
      PROVE  e \in Occurrences(path, head)
  <2>1. e \in 1 .. Len(text) /\ OccursAt(path, text, e)
    BY <1>1 DEF Occurrences
  <2>2. e + Len(path) <= a + 1
    BY DEF IsCutAt, Within
  <2>3. e \in 1 .. Len(head) /\ e + Len(path) <= Len(head) + 1 /\ Len(head) <= Len(text)
    BY <1>1, <2>1, <2>2
  <2>4. OccursAt(path, head, e)
    BY <2>1, <2>3, OccursBefore
  <2> QED
    BY <1>1, <2>3, <2>4 DEF Occurrences
<1>5. url # <<>>
  BY DEF EndsWith
<1>6. ASSUME NEW p \in DOMAIN head, head[p] = "k"
      PROVE  \E e \in Occurrences(path, head) : e <= p /\ p < e + Len(path)
  <2>1. p \in 1 .. a /\ text[p] = "k"
    BY <1>1, <1>2, <1>6
  <2>2. PICK e \in Occurrences(path, text) : e <= p /\ p < e + Len(path)
    BY <2>1 DEF IsCutAt
  <2> QED
    BY <1>4, <2>2
<1>7. ASSUME NEW e \in Occurrences(path, head), NEW o \in Occurrences(path, head) \cup Occurrences(url, head),
             e < o
      PROVE  e + Len(path) <= o
  <2>1. e \in Occurrences(path, text)
    BY <1>3
  <2>2. CASE o \in Occurrences(path, head)
    <3>1. o \in Occurrences(path, text)
      BY <1>3, <2>2
    <3> QED
      BY <1>7, <2>1, <3>1 DEF IsCutAt, Apart
  <2>3. CASE o \in Occurrences(url, head)
    <3>1. o \in Occurrences(url, text)
      BY <1>3, <1>5, <2>3
    <3> QED
      BY <1>7, <2>1, <3>1 DEF IsCutAt, ApartFrom
  <2> QED
    BY <2>2, <2>3
<1> QED
  BY <1>6, <1>7 DEF KeyOnlyInEchoes

LEMMA Multiplied ==
  ASSUME NEW c \in Nat, NEW a \in Nat, NEW b \in Nat, a <= b
  PROVE  c * a <= c * b /\ c * a \in Nat /\ c * b \in Nat
<1>1. PICK m \in Nat : b = a + m
  <2>1. b - a \in Nat /\ b = a + (b - a)
    OBVIOUS
  <2> QED
    BY <2>1
<1>2. c * b = c * a + c * m /\ c * a \in Nat /\ c * m \in Nat
  BY <1>1, Distributes
<1> QED
  BY <1>2

\* The bytes that are captured before an echo is cut are more than those that are shown.
LEMMA MoreIsUncut ==
  ASSUME NEW S, NEW url \in Seq(S), url # <<>>, NEW path \in Seq(S), path # <<>>,
         path = PathAndQuery(url), CaptureSuffices(url),
         NEW c, c = CaptureStderr - Len(path) + 1
  PROVE  /\ c \in Nat \ {0} /\ MaxStderr <= c
         /\ Outweighs(UrlMark, url, c, MaxStderr) /\ Outweighs(PathMark, path, c, MaxStderr)
<1>1. PICK d \in Nat \ {0} : d = MaxStderr
  BY RedactionAssumption
<1>2. PICK L \in Nat \ {0} : L = Len(path)
  OBVIOUS
<1>3. c \in Int /\ c = 4 * d - L + 1
  BY <1>1, <1>2 DEF CaptureStderr
<1>4. Len(UrlMark) = 2 /\ Len(PathMark) = 3
  BY DEF UrlMark, PathMark
<1>5. d * Len(url) <= c * Len(UrlMark) /\ d * L <= c * Len(PathMark)
  BY <1>1, <1>2 DEF CaptureSuffices
<1>6. d * L <= c * 3
  BY <1>4, <1>5
<1>7. d * L \in Nat /\ d * 1 = d /\ (3 <= L => d * 3 <= d * L)
  <2>1. d \in Nat /\ L \in Nat /\ 3 \in Nat
    BY <1>1, <1>2
  <2>2. d * L \in Nat /\ d * 1 = d
    BY <2>1, Distributes
  <2> QED
    BY <2>1, <2>2, Multiplied
<1>8. d <= c
  <2>1. PICK w \in Nat : w = d * L
    BY <1>7
  <2>2. w <= c * 3 /\ (3 <= L => d * 3 <= w)
    BY <1>6, <1>7, <2>1
  <2> QED
    BY <1>1, <1>2, <1>3, <2>2
<1> QED
  BY <1>1, <1>2, <1>3, <1>5, <1>8 DEF Outweighs

LEMMA NoShorter ==
  ASSUME NEW c \in Nat \ {0}, NEW d \in Nat, NEW a \in Nat, NEW r \in Nat,
         c <= a, d * a <= c * r
  PROVE  d <= r
<1> SUFFICES ASSUME r + 1 <= d PROVE FALSE
  OBVIOUS
<1>1. PICK p \in Nat : p = c * r
  BY Distributes
<1>2. c * (r + 1) = p + c
  <2>1. c \in Nat /\ 1 \in Nat
    OBVIOUS
  <2>2. c * (r + 1) = c * r + c * 1 /\ c * 1 = c
    BY <2>1, Distributes
  <2> QED
    BY <1>1, <2>2
<1>3. PICK q \in Nat : q = c * d
  BY Distributes
<1>4. p + c <= q
  <2>1. r + 1 \in Nat /\ c \in Nat
    OBVIOUS
  <2>2. c * (r + 1) <= c * d
    BY <2>1, Multiplied
  <2> QED
    BY <1>2, <1>3, <2>2
<1>5. q <= d * a
  <2>1. d * c <= d * a
    BY Multiplied
  <2>2. d * c = c * d
    OBVIOUS
  <2> QED
    BY <1>3, <2>1, <2>2
<1>6. d * a \in Nat
  BY Distributes
<1>7. PICK s \in Nat : s = d * a
  BY <1>6
<1>8. q <= s /\ s <= p
  BY <1>1, <1>5, <1>7
<1> QED
  BY <1>1, <1>4, <1>8

\* What is shown of a text with an echo cut at its end has no part of the key.
LEMMA CutIsNotShown ==
  ASSUME NEW S, Marks \subseteq S, NEW text \in Seq(S), IsUtf8(text), NEW url \in Seq(S),
         IsUtf8(url), IsRedactable(url), CaptureSuffices(url),
         NEW path, path = PathAndQuery(url),
         NEW a, IsCutAt(path, url, text, a),
         NEW c, c = CaptureStderr - Len(path) + 1, a = Len(text) \/ c <= a
  PROVE  ~HasKey(Bounded(Redact(text, url), MaxStderr))
<1>1. path \in Seq(S) /\ path # <<>> /\ EndsWith(url, path) /\ url # <<>>
  BY RedactableIsLong
<1>2. a \in 0 .. Len(text) /\ Within(path, text, a + 1) /\ ApartFrom(path, url, text)
  BY DEF IsCutAt
<1>3. PICK head, tail \in Seq(S) : /\ head = SubSeq(text, 1, a) /\ Len(head) = a
                                   /\ GoesOn(text, a, tail) /\ BeginsWith(text, head)
  BY <1>2, HeadAndTail
<1>4. KeyOnlyInEchoes(head, url)
  BY <1>1, <1>3, HeadHasWholeEchoes
<1>5. PICK x, y : x = Redact(text, url) /\ y = Redact(head, url)
  OBVIOUS
<1>6. ~HasKey(y)
  BY <1>3, <1>4, <1>5, RedactHidesTheKey
<1>7. x \in Seq(S) /\ y \in Seq(S) /\ Len(y) <= Len(x) /\ BeginsWith(x, y)
  <2>1. Len(head) = a /\ GoesOn(text, a, tail) /\ BeginsWith(text, head)
    BY <1>3
  <2> QED
    BY <1>2, <1>5, <2>1, RedactedInTwoParts
<1>8. MaxStderr \in Nat
  BY RedactionAssumption
<1>9. CASE a = Len(text)
  <2>1. head = text
    BY <1>3, <1>9
  <2>2. x = y
    BY <1>5, <2>1
  <2>3. IsUtf8(x)
    BY <1>1, <1>5, RedactIsText
  <2>4. PICK z : z = Bounded(x, MaxStderr)
    OBVIOUS
  <2>5. ~HasKey(x) => ~HasKey(z)
    BY <1>7, <1>8, <2>3, <2>4, BoundedIsText
  <2> QED
    BY <1>5, <1>6, <2>2, <2>4, <2>5, Zenon
<1>10. CASE a # Len(text)
  <2>1. /\ c \in Nat \ {0} /\ MaxStderr <= c
        /\ Outweighs(UrlMark, url, c, MaxStderr) /\ Outweighs(PathMark, path, c, MaxStderr)
    BY <1>1, MoreIsUncut
  <2>2. MaxStderr * Len(head) <= c * Len(y)
    BY <1>3, <1>5, <1>8, <2>1, RedactedIsLong
  <2>3. c <= Len(head) /\ Len(head) \in Nat /\ Len(y) \in Nat
    <3>1. c <= a
      BY <1>10
    <3> QED
      BY <1>3, <1>7, <3>1
  <2>4. MaxStderr <= Len(y)
    BY <1>8, <2>1, <2>2, <2>3, NoShorter
  <2>5. ~HasKey(Bounded(x, MaxStderr))
    BY <1>6, <1>7, <1>8, <2>4, BoundedShowsTheHead
  <2> QED
    BY <1>5, <2>5
<1> QED
  BY <1>9, <1>10

\* The echoes in what is captured are those of the text that end in it.
LEMMA EchoesOfHead ==
  ASSUME NEW S, NEW text \in Seq(S), NEW head \in Seq(S), NEW pattern \in Seq(S), pattern # <<>>,
         Len(head) <= Len(text), BeginsWith(text, head)
  PROVE  \A e : e \in Occurrences(pattern, head) <=>
                  e \in Occurrences(pattern, text) /\ e + Len(pattern) <= Len(head) + 1
<1>1. /\ Len(text) \in Nat /\ Len(head) \in Nat /\ Len(pattern) \in Nat \ {0}
      /\ DOMAIN text = 1 .. Len(text) /\ DOMAIN head = 1 .. Len(head)
  OBVIOUS
<1>2. ASSUME NEW e \in Occurrences(pattern, head)
      PROVE  e \in Occurrences(pattern, text) /\ e + Len(pattern) <= Len(head) + 1
  <2>1. e \in 1 .. Len(head) /\ e \in 1 .. Len(text) /\ OccursAt(pattern, head, e)
    BY <1>1 DEF Occurrences
  <2>2. e + Len(pattern) <= Len(head) + 1
    BY <1>1, <2>1 DEF OccursAt
  <2>3. OccursAt(pattern, text, e)
    BY <2>1, <2>2, OccursBefore
  <2> QED
    BY <1>1, <2>1, <2>2, <2>3 DEF Occurrences
<1>3. ASSUME NEW e \in Occurrences(pattern, text), e + Len(pattern) <= Len(head) + 1
      PROVE  e \in Occurrences(pattern, head)
  <2>1. e \in 1 .. Len(text) /\ OccursAt(pattern, text, e)
    BY <1>1 DEF Occurrences
  <2>2. e \in 1 .. Len(head)
    BY <1>1, <1>3, <2>1
  <2>3. OccursAt(pattern, head, e)
    BY <1>3, <2>1, <2>2, OccursBefore
  <2> QED
    BY <1>1, <2>2, <2>3 DEF Occurrences
<1> QED
  BY <1>2, <1>3

\* The capture cuts one echo at most: what precedes it has whole echoes only.
LEMMA CapturedIsCut ==
  ASSUME NEW S, NEW text \in Seq(S), NEW url \in Seq(S), url # <<>>,
         NEW path \in Seq(S), path # <<>>,
         Covered(path, text), Apart(path, text), ApartFrom(path, url, text),
         NEW head \in Seq(S), Len(head) <= Len(text), BeginsWith(text, head)
  PROVE  \E a : /\ IsCutAt(path, url, head, a)
                /\ \/ a = Len(head)
                   \/ Len(head) < Len(text) /\ Len(head) - Len(path) + 1 <= a
<1> DEFINE n == Len(head)
           L == Len(path)
           Cut(s) == s \in Occurrences(path, text) /\ s <= n /\ n + 1 < s + L
<1>1. /\ Len(text) \in Nat /\ n \in Nat /\ n <= Len(text) /\ L \in Nat \ {0}
      /\ DOMAIN text = 1 .. Len(text) /\ DOMAIN head = 1 .. n
  OBVIOUS
<1>2. \A e : e \in Occurrences(path, head) <=> e \in Occurrences(path, text) /\ e + L <= n + 1
  BY EchoesOfHead
<1>3. \A o : o \in Occurrences(url, head) => o \in Occurrences(url, text)
  BY EchoesOfHead
<1>4. \A e \in Occurrences(path, text) : e \in 1 .. Len(text) /\ e + L <= Len(text) + 1
  BY <1>1 DEF Occurrences, OccursAt
<1>5. \A e, o \in Occurrences(path, text) : e < o => e + L <= o
  BY DEF Apart
<1>6. \A p \in 1 .. n : head[p] = text[p]
  BY DEF BeginsWith
<1>7. \A p \in 1 .. n : text[p] = "k" => \E e \in Occurrences(path, text) : e <= p /\ p < e + L
  BY <1>1 DEF Covered
<1>8. Apart(path, head)
  BY <1>2, <1>5 DEF Apart
<1>9. ApartFrom(path, url, head)
  BY <1>2, <1>3 DEF ApartFrom
<1> HIDE DEF n, L
<1>10. \E a \in 0 .. n :
         /\ \A e \in Occurrences(path, text) : e + L <= n + 1 => e + L <= a + 1
         /\ \A e \in Occurrences(path, text) : e <= a => e + L <= n + 1
         /\ a = n \/ (n < Len(text) /\ n - L + 1 <= a)
  <2>1. CASE \E s : Cut(s)
    <3>1. PICK s : Cut(s)
      BY <2>1
    <3>2. s \in 1 .. Len(text) /\ s + L <= Len(text) + 1
      BY <1>4, <3>1
    <3>3. s - 1 \in 0 .. n /\ n < Len(text) /\ n - L + 1 <= s - 1
      BY <1>1, <3>1, <3>2
    <3>4. ASSUME NEW e \in Occurrences(path, text), e + L <= n + 1
          PROVE  e + L <= s - 1 + 1
      <4>1. e < s
        BY <1>1, <1>4, <3>1, <3>2, <3>4
      <4> QED
        BY <1>1, <1>4, <1>5, <3>1, <3>2, <4>1
    <3>5. ASSUME NEW e \in Occurrences(path, text), e <= s - 1
          PROVE  e + L <= n + 1
      <4>1. e < s
        BY <1>4, <3>2, <3>5
      <4>2. e + L <= s
        BY <1>5, <3>1, <4>1
      <4> QED
        BY <1>1, <1>4, <3>1, <3>2, <4>2
    <3> HIDE DEF Cut
    <3> QED
      BY <3>3, <3>4, <3>5
  <2>2. CASE ~\E s : Cut(s)
    <3>1. n \in 0 .. n
      BY <1>1
    <3>2. \A e \in Occurrences(path, text) : e <= n => e + L <= n + 1
      BY <1>1, <1>4, <2>2
    <3> HIDE DEF Cut
    <3> QED
      BY <3>1, <3>2
  <2> QED
    BY <2>1, <2>2
<1>11. PICK a \in 0 .. n :
         /\ \A e \in Occurrences(path, text) : e + L <= n + 1 => e + L <= a + 1
         /\ \A e \in Occurrences(path, text) : e <= a => e + L <= n + 1
         /\ a = n \/ (n < Len(text) /\ n - L + 1 <= a)
  BY <1>10
<1>12. \A e \in Occurrences(path, head) : e + L <= a + 1
  BY <1>2, <1>11
<1>13. ASSUME NEW p \in 1 .. a, head[p] = "k"
       PROVE  \E e \in Occurrences(path, head) : e <= p /\ p < e + L
  <2>1. p \in 1 .. n /\ p <= a
    BY <1>1, <1>11
  <2>2. PICK e \in Occurrences(path, text) : e <= p /\ p < e + L
    BY <1>6, <1>7, <1>13, <2>1
  <2>3. e + L <= n + 1
    <3>1. e <= a
      BY <1>1, <1>4, <1>11, <2>1, <2>2
    <3> QED
      BY <1>11, <3>1
  <2> QED
    BY <1>2, <2>2, <2>3
<1>14. IsCutAt(path, url, head, a)
  BY <1>8, <1>9, <1>11, <1>12, <1>13 DEF IsCutAt, Within, n, L
<1> QED
  BY <1>11, <1>14 DEF n, L

----------------------------------------------------------------------------
(* Where the bytes are in the text that they decode to *)

\* What one byte decodes to.
DecodesTo(byte, l) ==
  /\ byte \notin {"hi", "lo"} => Len(l) = 1 /\ l[1] = byte
  /\ byte \in {"hi", "lo"} => Len(l) \in Nat \ {0} /\ \A p \in 1 .. Len(l) : l[p] \in {"hi", "lo"}

LEMMA DecodedByte ==
  ASSUME NEW S, "hi" \in S, "lo" \in S, NEW bytes \in Seq(S), NEW f, Decodes(f, bytes)
  PROVE  \A i \in 1 .. Len(bytes) : \E l \in Seq(S) : f[i] = l \o f[i + 1] /\ DecodesTo(bytes[i], l)
<1>1. Len(bytes) \in Nat /\ \A i \in 1 .. Len(bytes) : bytes[i] \in S
  OBVIOUS
<1>2. \A i \in 1 .. Len(bytes) :
        /\ HalfAt(bytes, i) => f[i] = <<"hi", "lo">> \o f[i + 1]
        /\ ~HalfAt(bytes, i) => f[i] = <<bytes[i]>> \o f[i + 1]
  BY <1>1, DecodeStep
<1>3. PICK w \in Seq(S) : w = <<"hi", "lo">> /\ Len(w) = 2 /\ w[1] = "hi" /\ w[2] = "lo"
  <2>1. <<"hi", "lo">> \in Seq(S)
    OBVIOUS
  <2> QED
    BY <2>1
<1> SUFFICES ASSUME NEW i \in 1 .. Len(bytes)
             PROVE  \E l \in Seq(S) : f[i] = l \o f[i + 1] /\ DecodesTo(bytes[i], l)
  OBVIOUS
<1>4. CASE HalfAt(bytes, i)
  <2>1. bytes[i] \in {"hi", "lo"}
    BY <1>4 DEF HalfAt
  <2>2. DecodesTo(bytes[i], w)
    BY <1>3, <2>1 DEF DecodesTo
  <2>3. f[i] = w \o f[i + 1]
    BY <1>2, <1>3, <1>4, Zenon
  <2> QED
    BY <2>2, <2>3
<1>5. CASE ~HalfAt(bytes, i)
  <2>1. PICK a \in S : a = bytes[i]
    BY <1>1
  <2>2. PICK s \in Seq(S) : s = <<a>> /\ Len(s) = 1 /\ s[1] = a
    BY <2>1, Singleton
  <2>3. DecodesTo(a, s)
    BY <2>2 DEF DecodesTo
  <2>4. f[i] = s \o f[i + 1]
    BY <1>2, <1>5, <2>1, <2>2, Zenon
  <2> QED
    BY <2>1, <2>3, <2>4
<1> QED
  BY <1>4, <1>5

\* Where the letters are that each byte decodes to.
Places(pos, bytes, text) ==
  /\ \A i \in 1 .. Len(bytes) + 1 : pos[i] \in Nat
  /\ pos[1] = 1 /\ pos[Len(bytes) + 1] = Len(text) + 1
  /\ \A i \in 1 .. Len(bytes) :
       /\ bytes[i] \notin {"hi", "lo"} => pos[i + 1] = pos[i] + 1 /\ text[pos[i]] = bytes[i]
       /\ bytes[i] \in {"hi", "lo"} =>
            pos[i] < pos[i + 1] /\ \A x \in pos[i] .. pos[i + 1] - 1 : text[x] \in {"hi", "lo"}

LEMMA GoesFurtherOn ==
  ASSUME NEW S, NEW x \in Seq(S), NEW d \in Nat, NEW s \in Seq(S), NEW t \in Seq(S),
         NEW u, Joins(u, s, t), GoesOn(x, d, u)
  PROVE  GoesOn(x, d + Len(s), t) /\ \A p \in 1 .. Len(s) : x[d + p] = s[p]
<1>1. u \in Seq(S) /\ GoesOn(u, Len(s), t) /\ BeginsWith(u, s)
  BY ConcatGoesOn DEF Joins
<1>2. /\ Len(x) \in Nat /\ Len(s) \in Nat /\ Len(t) \in Nat /\ Len(x) = d + Len(u)
      /\ Len(u) = Len(s) + Len(t)
      /\ \A p \in 1 .. Len(u) : x[d + p] = u[p]
      /\ \A p \in 1 .. Len(t) : u[Len(s) + p] = t[p]
      /\ \A p \in 1 .. Len(s) : u[p] = s[p]
  BY <1>1 DEF GoesOn, BeginsWith
<1>3. ASSUME NEW p \in 1 .. Len(t) PROVE x[d + Len(s) + p] = t[p]
  <2>1. Len(s) + p \in 1 .. Len(u) /\ d + (Len(s) + p) = d + Len(s) + p
    BY <1>2
  <2> QED
    BY <1>2, <2>1
<1>4. ASSUME NEW p \in 1 .. Len(s) PROVE x[d + p] = s[p]
  <2>1. p \in 1 .. Len(u)
    BY <1>2
  <2> QED
    BY <1>2, <2>1
<1>5. Len(x) = d + Len(s) + Len(t)
  BY <1>2
<1> QED
  BY <1>3, <1>4, <1>5 DEF GoesOn

LEMMA LossyPlaces ==
  ASSUME NEW S, "hi" \in S, "lo" \in S, NEW bytes \in Seq(S), NEW text \in Seq(S), text = Lossy(bytes)
  PROVE  \E pos : Places(pos, bytes, text)
<1> DEFINE n == Len(bytes)
<1>1. n \in Nat /\ Len(text) \in Nat
  OBVIOUS
<1>2. PICK f : Decodes(f, bytes) /\ text = f[1]
  BY <1>1, LossyIsRecursive
<1>3. f[n + 1] = <<>>
  BY <1>1, <1>2, DecodeStep
<1>4. \A i \in 1 .. n : \E l \in Seq(S) : f[i] = l \o f[i + 1] /\ DecodesTo(bytes[i], l)
  BY <1>2, DecodedByte
<1> HIDE DEF n
<1> DEFINE T == {i \in 1 .. n + 1 : f[i] \in Seq(S)}
<1>5. \A i \in 1 .. n + 1 : f[i] \in Seq(S)
  <2>1. ASSUME NEW i \in 1 .. n + 1, \A j \in i + 1 .. n + 1 : j \in T
        PROVE  f[i] \in Seq(S)
    <3>1. CASE i = n + 1
      <4>1. <<>> \in Seq(S)
        OBVIOUS
      <4> QED
        BY <1>3, <3>1, <4>1, Zenon
    <3>2. CASE i # n + 1
      <4>1. i \in 1 .. n /\ i + 1 \in i + 1 .. n + 1
        BY <1>1, <3>2
      <4>2. PICK l \in Seq(S) : f[i] = l \o f[i + 1]
        BY <1>4, <4>1
      <4>3. PICK t \in Seq(S) : t = f[i + 1]
        BY <2>1, <4>1
      <4> QED
        BY <4>2, <4>3, ConcatGoesOn
    <3> QED
      BY <3>1, <3>2
  <2>2. n + 1 \in Nat
    BY <1>1
  <2>3. \A i \in 1 .. n + 1 : (\A j \in i + 1 .. n + 1 : j \in T) => i \in T
    BY <2>1
  <2>4. 1 .. n + 1 \subseteq T
    <3> HIDE DEF T
    <3> QED
      BY <2>2, <2>3, InductionDown
  <2> QED
    BY <2>4
<1> DEFINE d(i) == Len(text) - Len(f[i])
           U == {i \in 1 .. n + 1 : d(i) \in Nat /\ GoesOn(text, d(i), f[i])}
<1>6. ASSUME NEW i \in 1 .. n, NEW l \in Seq(S), f[i] = l \o f[i + 1],
             d(i) \in Nat, GoesOn(text, d(i), f[i])
      PROVE  /\ d(i + 1) = d(i) + Len(l) /\ d(i + 1) \in Nat
             /\ GoesOn(text, d(i + 1), f[i + 1])
             /\ \A p \in 1 .. Len(l) : text[d(i) + p] = l[p]
  <2>1. PICK t \in Seq(S) : t = f[i + 1]
    BY <1>1, <1>5
  <2>2. PICK u \in Seq(S) : u = f[i]
    BY <1>1, <1>5
  <2>3. PICK e \in Nat : e = d(i)
    BY <1>6
  <2>4. Joins(u, l, t) /\ GoesOn(text, e, u)
    BY <1>6, <2>1, <2>2, <2>3, Zenon DEF Joins
  <2>5. GoesOn(text, e + Len(l), t) /\ \A p \in 1 .. Len(l) : text[e + p] = l[p]
    BY <2>4, GoesFurtherOn
  <2>6. Len(text) = e + Len(l) + Len(t) /\ Len(t) \in Nat /\ Len(l) \in Nat
    BY <2>5 DEF GoesOn
  <2>7. d(i + 1) = Len(text) - Len(t)
    BY <2>1, Zenon
  <2>8. d(i + 1) = e + Len(l)
    <3> HIDE DEF d
    <3> QED
      BY <1>1, <2>6, <2>7
  <2> HIDE DEF d
  <2>9. GoesOn(text, d(i + 1), f[i + 1])
    BY <2>1, <2>5, <2>8, Zenon
  <2>10. \A p \in 1 .. Len(l) : text[d(i) + p] = l[p]
    BY <2>3, <2>5
  <2>11. d(i + 1) = d(i) + Len(l) /\ d(i + 1) \in Nat
    BY <2>3, <2>6, <2>8
  <2> QED
    BY <2>9, <2>10, <2>11
<1>7. 1 .. n + 1 \subseteq U
  <2>1. 1 \in U
    <3>1. d(1) = 0
      BY <1>1, <1>2
    <3>2. GoesOn(text, 0, text)
      BY <1>1 DEF GoesOn
    <3>3. 1 \in 1 .. n + 1
      BY <1>1
    <3> HIDE DEF d
    <3> QED
      BY <1>2, <3>1, <3>2, <3>3
  <2>2. ASSUME NEW m \in 1 .. n, m \in U PROVE m + 1 \in U
    <3>1. m \in 1 .. n /\ m + 1 \in 1 .. n + 1
      BY <1>1
    <3>2. PICK l \in Seq(S) : f[m] = l \o f[m + 1]
      BY <1>4, <3>1
    <3>3. d(m) \in Nat /\ GoesOn(text, d(m), f[m])
      BY <2>2
    <3> HIDE DEF d
    <3> QED
      BY <1>6, <3>1, <3>2, <3>3
  <2>3. PICK N \in Nat : N = n + 1
    BY <1>1
  <2> HIDE DEF U
  <2>4. 1 \in U /\ \A m \in 1 .. N - 1 : m \in U => m + 1 \in U
    BY <1>1, <2>1, <2>2, <2>3
  <2>5. 1 .. N \subseteq U
    BY <2>4, InductionUpTo
  <2> QED
    BY <2>3, <2>5
<1> DEFINE pos == [i \in 1 .. n + 1 |-> d(i) + 1]
<1>8. \A i \in 1 .. n + 1 : pos[i] = d(i) + 1 /\ d(i) \in Nat /\ GoesOn(text, d(i), f[i])
  <2> HIDE DEF d
  <2> QED
    BY <1>7
<1>9. d(1) = 0 /\ d(n + 1) = Len(text)
  <2>1. Len(f[n + 1]) = 0
    BY <1>3
  <2> QED
    BY <1>1, <1>2, <2>1
<1> HIDE DEF d, pos
<1>10. (\A i \in 1 .. n + 1 : pos[i] \in Nat) /\ pos[1] = 1 /\ pos[n + 1] = Len(text) + 1
  <2>1. 1 \in 1 .. n + 1 /\ n + 1 \in 1 .. n + 1
    BY <1>1
  <2> QED
    BY <1>8, <1>9, <2>1
<1>11. ASSUME NEW i \in 1 .. n
       PROVE  /\ bytes[i] \notin {"hi", "lo"} => pos[i + 1] = pos[i] + 1 /\ text[pos[i]] = bytes[i]
              /\ bytes[i] \in {"hi", "lo"} =>
                   pos[i] < pos[i + 1] /\ \A x \in pos[i] .. pos[i + 1] - 1 : text[x] \in {"hi", "lo"}
  <2>1. PICK l \in Seq(S) : f[i] = l \o f[i + 1] /\ DecodesTo(bytes[i], l)
    BY <1>4
  <2>2. i \in 1 .. n + 1 /\ i + 1 \in 1 .. n + 1
    BY <1>1
  <2>3. d(i + 1) = d(i) + Len(l) /\ \A p \in 1 .. Len(l) : text[d(i) + p] = l[p]
    BY <1>6, <1>8, <2>1, <2>2
  <2>4. PICK e \in Nat : e = d(i)
    BY <1>8, <2>2
  <2>5. pos[i] = e + 1 /\ pos[i + 1] = e + Len(l) + 1
    BY <1>8, <2>2, <2>3, <2>4
  <2>6. \A p \in 1 .. Len(l) : text[e + p] = l[p]
    BY <2>3, <2>4
  <2>7. Len(l) \in Nat
    OBVIOUS
  <2>8. ASSUME bytes[i] \notin {"hi", "lo"}
        PROVE  pos[i + 1] = pos[i] + 1 /\ text[pos[i]] = bytes[i]
    <3>1. Len(l) = 1 /\ l[1] = bytes[i]
      BY <2>1, <2>8 DEF DecodesTo
    <3> QED
      BY <2>5, <2>6, <3>1
  <2>9. ASSUME bytes[i] \in {"hi", "lo"}
        PROVE  pos[i] < pos[i + 1] /\ \A x \in pos[i] .. pos[i + 1] - 1 : text[x] \in {"hi", "lo"}
    <3>1. Len(l) \in Nat \ {0} /\ \A p \in 1 .. Len(l) : l[p] \in {"hi", "lo"}
      BY <2>1, <2>9 DEF DecodesTo
    <3>2. ASSUME NEW x \in pos[i] .. pos[i + 1] - 1 PROVE text[x] \in {"hi", "lo"}
      <4>1. x - e \in 1 .. Len(l) /\ e + (x - e) = x
        BY <2>5, <2>7
      <4> QED
        BY <2>6, <3>1, <4>1
    <3> QED
      BY <2>5, <3>1, <3>2
  <2> QED
    BY <2>8, <2>9
<1>12. Places(pos, bytes, text)
  BY <1>10, <1>11 DEF Places, n
<1> QED
  BY <1>12

\* A byte further on is a letter further on at least.
LEMMA PlacesGrow ==
  ASSUME NEW S, NEW bytes \in Seq(S), NEW text \in Seq(S), NEW pos, Places(pos, bytes, text)
  PROVE  /\ \A i \in 1 .. Len(bytes) + 1 : pos[i] \in i .. Len(text) + 1
         /\ \A i, j \in 1 .. Len(bytes) + 1 : i < j => pos[i] < pos[j]
<1> DEFINE n == Len(bytes)
<1>1. n \in Nat /\ Len(text) \in Nat
  OBVIOUS
<1>2. /\ \A i \in 1 .. n + 1 : pos[i] \in Nat
      /\ pos[1] = 1 /\ pos[n + 1] = Len(text) + 1
  BY DEF Places
<1>3. \A i \in 1 .. n : pos[i] < pos[i + 1]
  <2> SUFFICES ASSUME NEW i \in 1 .. n PROVE pos[i] < pos[i + 1]
    OBVIOUS
  <2>1. pos[i] \in Nat
    BY <1>1, <1>2
  <2>2. pos[i + 1] = pos[i] + 1 \/ pos[i] < pos[i + 1]
    BY DEF Places
  <2> QED
    BY <2>1, <2>2
<1> HIDE DEF n
<1>4. ASSUME NEW i \in 1 .. n + 1
      PROVE  \A k \in Nat : i + k <= n + 1 => pos[i] + k <= pos[i + k]
  <2> DEFINE T == {k \in Nat : i + k <= n + 1 => pos[i] + k <= pos[i + k]}
  <2>1. 0 \in T
    <3>1. i + 0 = i /\ pos[i] \in Nat /\ pos[i] + 0 = pos[i]
      BY <1>1, <1>2
    <3> QED
      BY <3>1
  <2>2. ASSUME NEW k \in T PROVE k + 1 \in T
    <3> SUFFICES ASSUME i + (k + 1) <= n + 1 PROVE pos[i] + (k + 1) <= pos[i + (k + 1)]
      OBVIOUS
    <3>1. i + k \in 1 .. n /\ i + k \in 1 .. n + 1 /\ i + (k + 1) \in 1 .. n + 1 /\ i + (k + 1) = i + k + 1
      BY <1>1
    <3>2. pos[i] + k <= pos[i + k]
      BY <3>1
    <3>3. pos[i + k] < pos[i + k + 1]
      BY <1>3, <3>1
    <3>4. pos[i] \in Nat /\ pos[i + k] \in Nat /\ pos[i + k + 1] \in Nat
      BY <1>2, <3>1
    <3> QED
      BY <3>1, <3>2, <3>3, <3>4
  <2>3. T \in SUBSET Nat
    OBVIOUS
  <2> HIDE DEF T
  <2>4. T = Nat
    BY <2>1, <2>2, <2>3, Induction
  <2> QED
    BY <2>4 DEF T
<1>5. ASSUME NEW i \in 1 .. n + 1, NEW j \in 1 .. n + 1, i <= j
      PROVE  pos[i] + (j - i) <= pos[j]
  <2>1. PICK k \in Nat : k = j - i /\ i + k = j /\ i + k <= n + 1
    BY <1>1, <1>5
  <2>2. pos[i] + k <= pos[i + k]
    BY <1>4, <2>1
  <2> QED
    BY <2>1, <2>2
<1>6. ASSUME NEW i \in 1 .. n + 1 PROVE pos[i] \in i .. Len(text) + 1
  <2>1. PICK a \in 1 .. n + 1, b \in 1 .. n + 1 : a = 1 /\ b = n + 1 /\ a <= i /\ i <= b
    BY <1>1
  <2>2. pos[a] + (i - a) <= pos[i]
    BY <1>5, <2>1
  <2>3. pos[i] + (b - i) <= pos[b]
    BY <1>5, <2>1
  <2>4. pos[a] = 1 /\ pos[b] = Len(text) + 1 /\ pos[i] \in Nat
    BY <1>2, <2>1
  <2> QED
    BY <1>1, <2>1, <2>2, <2>3, <2>4
<1>7. ASSUME NEW i \in 1 .. n + 1, NEW j \in 1 .. n + 1, i < j
      PROVE  pos[i] < pos[j]
  <2>1. i <= j /\ j - i \in Nat \ {0} /\ pos[i] \in Nat /\ pos[j] \in Nat
    BY <1>1, <1>2, <1>7
  <2>2. pos[i] + (j - i) <= pos[j]
    BY <1>5, <2>1
  <2> QED
    BY <2>1, <2>2
<1> QED
  BY <1>6, <1>7 DEF n

\* A letter that is no half of one is where its byte is.
LEMMA PlaceOfLetter ==
  ASSUME NEW S, NEW bytes \in Seq(S), NEW text \in Seq(S), NEW pos, Places(pos, bytes, text),
         NEW x \in 1 .. Len(text), text[x] \notin {"hi", "lo"}
  PROVE  \E i \in 1 .. Len(bytes) : x = pos[i] /\ bytes[i] = text[x] /\ pos[i + 1] = x + 1
<1> DEFINE n == Len(bytes)
<1>1. n \in Nat /\ Len(text) \in Nat
  OBVIOUS
<1>2. /\ \A i \in 1 .. n + 1 : pos[i] \in Nat
      /\ pos[1] = 1 /\ pos[n + 1] = Len(text) + 1
      /\ \A i \in 1 .. n :
           /\ bytes[i] \notin {"hi", "lo"} => pos[i + 1] = pos[i] + 1 /\ text[pos[i]] = bytes[i]
           /\ bytes[i] \in {"hi", "lo"} =>
                pos[i] < pos[i + 1] /\ \A y \in pos[i] .. pos[i + 1] - 1 : text[y] \in {"hi", "lo"}
  BY DEF Places
<1> HIDE DEF n
<1>3. \E i \in 1 .. n : pos[i] <= x /\ x < pos[i + 1]
  <2> SUFFICES ASSUME \A i \in 1 .. n : pos[i] <= x => pos[i + 1] <= x
               PROVE  FALSE
    BY <1>1, <1>2
  <2> DEFINE T == {i \in 1 .. n + 1 : pos[i] <= x}
  <2>1. 1 \in T
    BY <1>1, <1>2
  <2>2. ASSUME NEW m \in 1 .. n, m \in T PROVE m + 1 \in T
    BY <1>1, <2>2
  <2>3. PICK N \in Nat : N = n + 1
    BY <1>1
  <2> HIDE DEF T
  <2>4. 1 \in T /\ \A m \in 1 .. N - 1 : m \in T => m + 1 \in T
    BY <1>1, <2>1, <2>2, <2>3
  <2>5. 1 .. N \subseteq T
    BY <2>4, InductionUpTo
  <2>6. n + 1 \in T
    BY <1>1, <2>3, <2>5
  <2> QED
    BY <1>1, <1>2, <2>6 DEF T
<1>4. PICK i \in 1 .. n : pos[i] <= x /\ x < pos[i + 1]
  BY <1>3
<1>5. pos[i] \in Nat /\ pos[i + 1] \in Nat
  BY <1>1, <1>2
<1>6. bytes[i] \notin {"hi", "lo"}
  <2> SUFFICES ASSUME bytes[i] \in {"hi", "lo"} PROVE FALSE
    OBVIOUS
  <2>1. \A y \in pos[i] .. pos[i + 1] - 1 : text[y] \in {"hi", "lo"}
    BY <1>2
  <2>2. x \in pos[i] .. pos[i + 1] - 1
    BY <1>4, <1>5
  <2> QED
    BY <2>1, <2>2
<1>7. pos[i + 1] = pos[i] + 1 /\ text[pos[i]] = bytes[i]
  BY <1>2, <1>6
<1>8. x = pos[i]
  BY <1>4, <1>5, <1>7
<1> QED
  BY <1>7, <1>8 DEF n

\* An echo in the bytes is one in the text.
LEMMA EchoIsDecoded ==
  ASSUME NEW S, NEW bytes \in Seq(S), NEW text \in Seq(S), NEW pos, Places(pos, bytes, text),
         NEW pattern \in Seq(S), pattern # <<>>, IsAscii(pattern),
         NEW e \in Occurrences(pattern, bytes)
  PROVE  /\ e \in 1 .. Len(bytes) /\ e + Len(pattern) \in 1 .. Len(bytes) + 1
         /\ pos[e + Len(pattern)] = pos[e] + Len(pattern)
         /\ pos[e] \in Occurrences(pattern, text)
<1> DEFINE n == Len(bytes)
           L == Len(pattern)
<1>1. /\ n \in Nat /\ Len(text) \in Nat /\ L \in Nat \ {0} /\ DOMAIN pattern = 1 .. L
      /\ DOMAIN bytes = 1 .. n /\ DOMAIN text = 1 .. Len(text)
  OBVIOUS
<1>2. e \in 1 .. n /\ e + L - 1 <= n /\ \A j \in 1 .. L : bytes[e + j - 1] = pattern[j]
  BY <1>1 DEF Occurrences, OccursAt
<1>3. \A j \in 1 .. L : pattern[j] \notin {"hi", "lo"}
  BY <1>1 DEF IsAscii
<1>4. \A i \in 1 .. n : bytes[i] \notin {"hi", "lo"} => pos[i + 1] = pos[i] + 1 /\ text[pos[i]] = bytes[i]
  BY DEF Places
<1>5. \A i \in 1 .. n + 1 : pos[i] \in i .. Len(text) + 1
  BY PlacesGrow
<1> HIDE DEF n, L
<1> DEFINE T == {k \in Nat : k <= L => pos[e + k] = pos[e] + k}
<1>6. ASSUME NEW k \in Nat, k + 1 <= L, pos[e + k] = pos[e] + k
      PROVE  pos[e + (k + 1)] = pos[e] + (k + 1) /\ text[pos[e] + k] = pattern[k + 1]
  <2>1. k + 1 \in 1 .. L /\ e + k \in 1 .. n /\ e + (k + 1) - 1 = e + k /\ e + (k + 1) = e + k + 1
    BY <1>1, <1>2, <1>6
  <2>2. bytes[e + k] = pattern[k + 1] /\ pattern[k + 1] \notin {"hi", "lo"}
    BY <1>2, <1>3, <2>1
  <2>3. pos[e + k + 1] = pos[e + k] + 1 /\ text[pos[e + k]] = bytes[e + k]
    BY <1>4, <2>1, <2>2
  <2>4. pos[e] \in Nat
    BY <1>1, <1>2, <1>5
  <2>5. PICK y \in Nat : y = pos[e] /\ pos[e + k] = y + k
    BY <1>6, <2>4
  <2>6. y + k + 1 = y + (k + 1)
    BY <1>6
  <2>7. pos[e + (k + 1)] = y + (k + 1)
    BY <2>1, <2>3, <2>5, <2>6, Zenon
  <2>8. text[y + k] = pattern[k + 1]
    BY <2>2, <2>3, <2>5, Zenon
  <2> QED
    BY <2>5, <2>7, <2>8, Zenon
<1>7. \A k \in 0 .. L : pos[e + k] = pos[e] + k
  <2>1. 0 \in T
    <3>1. e + 0 = e /\ pos[e] + 0 = pos[e]
      BY <1>1, <1>2, <1>5
    <3> QED
      BY <3>1
  <2>2. ASSUME NEW k \in T PROVE k + 1 \in T
    <3> SUFFICES ASSUME k + 1 <= L PROVE pos[e + (k + 1)] = pos[e] + (k + 1)
      OBVIOUS
    <3>1. k \in Nat /\ k <= L
      BY <1>1
    <3> QED
      BY <1>6, <3>1
  <2>3. T \in SUBSET Nat
    OBVIOUS
  <2> HIDE DEF T
  <2>4. T = Nat
    BY <2>1, <2>2, <2>3, Induction
  <2>5. \A k \in 0 .. L : k \in Nat /\ k <= L
    BY <1>1
  <2> QED
    BY <2>4, <2>5 DEF T
<1>8. e + L \in 1 .. n + 1 /\ pos[e + L] = pos[e] + L
  <2>1. L \in 0 .. L
    BY <1>1
  <2> QED
    BY <1>1, <1>2, <1>7, <2>1
<1>9. pos[e] \in Nat \ {0} /\ pos[e] + L - 1 <= Len(text)
  BY <1>1, <1>2, <1>5, <1>8
<1>10. \A j \in 1 .. L : text[pos[e] + j - 1] = pattern[j]
  <2> SUFFICES ASSUME NEW j \in 1 .. L PROVE text[pos[e] + j - 1] = pattern[j]
    OBVIOUS
  <2>1. PICK k \in Nat : k + 1 <= L /\ j = k + 1 /\ k \in 0 .. L
    <3>1. j - 1 \in Nat /\ j - 1 + 1 = j /\ j - 1 <= L
      BY <1>1
    <3> QED
      BY <1>1, <3>1
  <2>2. text[pos[e] + k] = pattern[k + 1]
    BY <1>6, <1>7, <2>1
  <2>3. pos[e] + j - 1 = pos[e] + k
    BY <1>9, <2>1
  <2> QED
    BY <2>1, <2>2, <2>3
<1>11. pos[e] \in Occurrences(pattern, text)
  <2>1. pos[e] \in 1 .. Len(text)
    BY <1>1, <1>9
  <2> QED
    BY <1>1, <1>9, <1>10, <2>1 DEF Occurrences, OccursAt, L
<1> QED
  BY <1>2, <1>8, <1>11 DEF n, L

\* And an echo in the text is one in the bytes.
LEMMA EchoWasThere ==
  ASSUME NEW S, NEW bytes \in Seq(S), NEW text \in Seq(S), NEW pos, Places(pos, bytes, text),
         NEW pattern \in Seq(S), pattern # <<>>, IsAscii(pattern),
         NEW x \in Occurrences(pattern, text)
  PROVE  \E e \in Occurrences(pattern, bytes) : x = pos[e]
<1> DEFINE n == Len(bytes)
           L == Len(pattern)
<1>1. /\ n \in Nat /\ Len(text) \in Nat /\ L \in Nat \ {0} /\ DOMAIN pattern = 1 .. L
      /\ DOMAIN bytes = 1 .. n /\ DOMAIN text = 1 .. Len(text)
  OBVIOUS
<1>2. x \in 1 .. Len(text) /\ x + L - 1 <= Len(text) /\ \A j \in 1 .. L : text[x + j - 1] = pattern[j]
  BY <1>1 DEF Occurrences, OccursAt
<1>3. \A j \in 1 .. L : pattern[j] \notin {"hi", "lo"}
  BY <1>1 DEF IsAscii
<1>4. \A i, j \in 1 .. n + 1 : i < j => pos[i] < pos[j]
  BY PlacesGrow
<1>5. \A i \in 1 .. n + 1 : pos[i] \in i .. Len(text) + 1
  BY PlacesGrow
<1>6. pos[n + 1] = Len(text) + 1
  BY DEF Places
<1>7. \A y \in 1 .. Len(text) : text[y] \notin {"hi", "lo"} =>
        \E i \in 1 .. Len(bytes) : y = pos[i] /\ bytes[i] = text[y] /\ pos[i + 1] = y + 1
  BY PlaceOfLetter
<1>8. \A y \in 1 .. Len(text) : text[y] \notin {"hi", "lo"} =>
        \E i \in 1 .. n : y = pos[i] /\ bytes[i] = text[y] /\ pos[i + 1] = y + 1
  BY <1>7
<1> HIDE DEF n, L
<1>9. \A k \in Nat : k + 1 <= L =>
        \E i \in 1 .. n : x + k = pos[i] /\ bytes[i] = pattern[k + 1] /\ pos[i + 1] = x + k + 1
  <2> SUFFICES ASSUME NEW k \in Nat, k + 1 <= L
               PROVE  \E i \in 1 .. n : x + k = pos[i] /\ bytes[i] = pattern[k + 1] /\ pos[i + 1] = x + k + 1
    OBVIOUS
  <2>1. k + 1 \in 1 .. L /\ x + (k + 1) - 1 = x + k /\ x + k \in 1 .. Len(text)
    BY <1>1, <1>2
  <2>2. text[x + k] = pattern[k + 1] /\ pattern[k + 1] \notin {"hi", "lo"}
    BY <1>2, <1>3, <2>1
  <2> QED
    BY <1>8, <2>1, <2>2
<1>10. PICK e \in 1 .. n : x = pos[e] /\ bytes[e] = pattern[1] /\ pos[e + 1] = x + 1
  <2>1. 0 \in Nat /\ 0 + 1 <= L /\ x + 0 = x /\ 0 + 1 = 1
    BY <1>1, <1>2
  <2> QED
    BY <1>9, <2>1
<1> DEFINE T == {k \in Nat : k + 1 <= L => e + k \in 1 .. n /\ pos[e + k] = x + k}
<1>11. 0 \in T
  <2>1. e + 0 = e /\ x + 0 = x
    BY <1>1, <1>2
  <2> QED
    BY <1>10, <2>1
<1>12. ASSUME NEW k \in T PROVE k + 1 \in T
  <2> SUFFICES ASSUME k + 1 + 1 <= L PROVE e + (k + 1) \in 1 .. n /\ pos[e + (k + 1)] = x + (k + 1)
    OBVIOUS
  <2>1. k \in Nat /\ k + 1 <= L
    BY <1>1
  <2>2. e + k \in 1 .. n /\ pos[e + k] = x + k
    BY <2>1
  <2>3. PICK i \in 1 .. n : x + k = pos[i] /\ pos[i + 1] = x + k + 1
    BY <1>9, <2>1
  <2>4. i = e + k
    <3>1. i \in 1 .. n + 1 /\ e + k \in 1 .. n + 1 /\ i \in Int /\ e + k \in Int
      BY <1>1, <2>2
    <3>2. ~(i < e + k) /\ ~(e + k < i)
      <4>1. pos[i] = pos[e + k] /\ pos[i] \in Nat
        BY <1>1, <1>5, <2>2, <2>3, <3>1
      <4>2. ~(pos[i] < pos[e + k]) /\ ~(pos[e + k] < pos[i])
        BY <4>1
      <4> QED
        BY <1>4, <3>1, <4>2
    <3> QED
      BY <3>1, <3>2
  <2>5. pos[e + k + 1] = x + k + 1 /\ e + k + 1 = e + (k + 1) /\ x + k + 1 = x + (k + 1)
    BY <1>1, <1>2, <2>1, <2>3, <2>4
  <2>6. e + k + 1 # n + 1
    <3> SUFFICES ASSUME e + k + 1 = n + 1 PROVE FALSE
      OBVIOUS
    <3>1. pos[e + k + 1] = Len(text) + 1
      BY <1>6
    <3>2. x + k + 1 = Len(text) + 1
      BY <2>5, <3>1
    <3> QED
      BY <1>1, <1>2, <2>1, <3>2
  <2> QED
    BY <1>1, <2>2, <2>5, <2>6
<1>13. \A k \in Nat : k + 1 <= L => e + k \in 1 .. n /\ pos[e + k] = x + k
  <2>1. T \in SUBSET Nat
    OBVIOUS
  <2> HIDE DEF T
  <2>2. T = Nat
    BY <1>11, <1>12, <2>1, Induction
  <2> QED
    BY <2>2 DEF T
<1>14. \A k \in Nat : k + 1 <= L => bytes[e + k] = pattern[k + 1]
  <2> SUFFICES ASSUME NEW k \in Nat, k + 1 <= L PROVE bytes[e + k] = pattern[k + 1]
    OBVIOUS
  <2>1. e + k \in 1 .. n /\ pos[e + k] = x + k
    BY <1>13
  <2>2. PICK i \in 1 .. n : x + k = pos[i] /\ bytes[i] = pattern[k + 1]
    BY <1>9
  <2>3. i \in 1 .. n + 1 /\ e + k \in 1 .. n + 1 /\ i \in Int /\ e + k \in Int
    BY <1>1, <2>1
  <2>4. ~(i < e + k) /\ ~(e + k < i)
    <3>1. pos[i] = pos[e + k] /\ pos[i] \in Nat
      BY <1>1, <1>5, <2>1, <2>2, <2>3
    <3>2. ~(pos[i] < pos[e + k]) /\ ~(pos[e + k] < pos[i])
      BY <3>1
    <3> QED
      BY <1>4, <2>3, <3>2
  <2>5. i = e + k
    BY <2>3, <2>4
  <2> QED
    BY <2>2, <2>5
<1>15. \A j \in 1 .. L : bytes[e + j - 1] = pattern[j]
  <2> SUFFICES ASSUME NEW j \in 1 .. L PROVE bytes[e + j - 1] = pattern[j]
    OBVIOUS
  <2>1. PICK k \in Nat : k + 1 <= L /\ j = k + 1 /\ e + j - 1 = e + k
    <3>1. j - 1 \in Nat /\ j - 1 + 1 = j /\ e + j - 1 = e + (j - 1)
      BY <1>1
    <3> QED
      BY <1>1, <3>1
  <2> QED
    BY <1>14, <2>1
<1>16. e + L - 1 <= n
  <2>1. PICK k \in Nat : k + 1 = L
    <3>1. L - 1 \in Nat /\ L - 1 + 1 = L
      BY <1>1
    <3> QED
      BY <3>1
  <2>2. k + 1 <= L
    BY <1>1, <2>1
  <2>3. e + k \in 1 .. n
    BY <1>13, <2>2
  <2> QED
    BY <1>1, <2>1, <2>3
<1>17. e \in Occurrences(pattern, bytes)
  BY <1>1, <1>15, <1>16 DEF Occurrences, OccursAt, n, L
<1> QED
  BY <1>10, <1>17

\* What precedes a place of the bytes precedes a place of the text, which is no nearer.
LEMMA CutIsDecoded ==
  ASSUME NEW S, NEW bytes \in Seq(S), NEW text \in Seq(S), NEW pos, Places(pos, bytes, text),
         NEW url \in Seq(S), url # <<>>, IsAscii(url),
         NEW path \in Seq(S), path # <<>>, IsAscii(path),
         NEW a, IsCutAt(path, url, bytes, a)
  PROVE  \E b \in Nat : IsCutAt(path, url, text, b) /\ a <= b /\ (a = Len(bytes) => b = Len(text))
<1> DEFINE n == Len(bytes)
           L == Len(path)
           b == pos[a + 1] - 1
<1>1. n \in Nat /\ Len(text) \in Nat /\ L \in Nat \ {0}
  OBVIOUS
<1>2. /\ a \in 0 .. n
      /\ \A e \in Occurrences(path, bytes) : e + L <= a + 1
      /\ \A e, o \in Occurrences(path, bytes) : e < o => e + L <= o
      /\ \A e \in Occurrences(path, bytes) : \A o \in Occurrences(url, bytes) : e < o => e + L <= o
      /\ \A p \in 1 .. a :
           bytes[p] = "k" => \E e \in Occurrences(path, bytes) : e <= p /\ p < e + L
  BY DEF IsCutAt, Within, Apart, ApartFrom
<1>3. \A i \in 1 .. n + 1 : pos[i] \in i .. Len(text) + 1
  BY PlacesGrow
<1>4. \A i, j \in 1 .. n + 1 : i < j => pos[i] < pos[j]
  BY PlacesGrow
<1>5. pos[n + 1] = Len(text) + 1
  BY DEF Places
<1>6. \A e \in Occurrences(path, bytes) :
        /\ e \in 1 .. n /\ e + L \in 1 .. n + 1
        /\ pos[e + L] = pos[e] + L
        /\ pos[e] \in Occurrences(path, text)
  BY EchoIsDecoded
<1>7. \A x \in Occurrences(path, text) : \E e \in Occurrences(path, bytes) : x = pos[e]
  BY EchoWasThere
<1>8. \A x \in Occurrences(url, text) : \E o \in Occurrences(url, bytes) : x = pos[o]
  BY EchoWasThere
<1>9. \A o \in Occurrences(url, bytes) : o \in 1 .. n
  BY DEF Occurrences
<1>10. \A x \in 1 .. Len(text) : text[x] = "k" => \E i \in 1 .. n : x = pos[i] /\ bytes[i] = "k"
  <2> SUFFICES ASSUME NEW x \in 1 .. Len(text), text[x] = "k"
               PROVE  \E i \in 1 .. n : x = pos[i] /\ bytes[i] = "k"
    OBVIOUS
  <2>1. text[x] \notin {"hi", "lo"}
    OBVIOUS
  <2>2. \E i \in 1 .. Len(bytes) : x = pos[i] /\ bytes[i] = text[x] /\ pos[i + 1] = x + 1
    BY <2>1, PlaceOfLetter
  <2> QED
    BY <2>2
<1> HIDE DEF n, L
<1>11. \A i, j \in 1 .. n + 1 : /\ i <= j => pos[i] <= pos[j]
                                /\ pos[i] < pos[j] => i < j
  <2> SUFFICES ASSUME NEW i \in 1 .. n + 1, NEW j \in 1 .. n + 1
               PROVE  (i <= j => pos[i] <= pos[j]) /\ (pos[i] < pos[j] => i < j)
    OBVIOUS
  <2>1. pos[i] \in Nat /\ pos[j] \in Nat
    BY <1>1, <1>3
  <2>2. (i < j => pos[i] < pos[j]) /\ (j < i => pos[j] < pos[i])
    BY <1>4
  <2>3. i < j \/ i = j \/ j < i
    BY <1>1
  <2>4. CASE i < j
    BY <1>1, <2>1, <2>2, <2>4
  <2>5. CASE j < i
    BY <1>1, <2>1, <2>2, <2>5
  <2>6. CASE i = j
    BY <1>1, <2>1, <2>6
  <2> QED
    BY <2>3, <2>4, <2>5, <2>6
<1>12. a + 1 \in 1 .. n + 1 /\ b + 1 = pos[a + 1] /\ b \in a .. Len(text) /\ b \in Nat
  <2>1. a + 1 \in 1 .. n + 1
    BY <1>1, <1>2
  <2>2. pos[a + 1] \in a + 1 .. Len(text) + 1
    BY <1>3, <2>1
  <2> QED
    BY <1>1, <1>2, <2>1, <2>2
<1> HIDE DEF b
<1>13. ASSUME NEW x \in Occurrences(path, text) PROVE x + L <= b + 1
  <2>1. PICK e \in Occurrences(path, bytes) : x = pos[e]
    BY <1>7
  <2>2. pos[e + L] <= pos[a + 1]
    BY <1>2, <1>6, <1>11, <1>12
  <2>3. pos[e + L] = x + L
    BY <1>6, <2>1
  <2> QED
    BY <1>12, <2>2, <2>3
<1>14. ASSUME NEW x \in Occurrences(path, text), NEW y,
              NEW o \in 1 .. n, y = pos[o], x < y,
              \A e \in Occurrences(path, bytes) : e < o => e + L <= o
       PROVE  x + L <= y
  <2>1. PICK e \in Occurrences(path, bytes) : x = pos[e]
    BY <1>7
  <2>2. e \in 1 .. n + 1 /\ o \in 1 .. n + 1 /\ e + L \in 1 .. n + 1 /\ pos[e + L] = x + L
    BY <1>1, <1>6, <2>1
  <2>3. e < o
    BY <1>11, <1>14, <2>1, <2>2
  <2>4. pos[e + L] <= pos[o]
    BY <1>11, <1>14, <2>2, <2>3
  <2> QED
    BY <1>14, <2>2, <2>4
<1>15. ASSUME NEW x \in Occurrences(path, text), NEW y \in Occurrences(path, text), x < y
       PROVE  x + L <= y
  <2>1. PICK o \in Occurrences(path, bytes) : y = pos[o]
    BY <1>7
  <2>2. o \in 1 .. n /\ \A e \in Occurrences(path, bytes) : e < o => e + L <= o
    BY <1>2, <1>6
  <2> QED
    BY <1>14, <1>15, <2>1, <2>2
<1>16. ASSUME NEW x \in Occurrences(path, text), NEW y \in Occurrences(url, text), x < y
       PROVE  x + L <= y
  <2>1. PICK o \in Occurrences(url, bytes) : y = pos[o]
    BY <1>8
  <2>2. o \in 1 .. n /\ \A e \in Occurrences(path, bytes) : e < o => e + L <= o
    BY <1>2, <1>9
  <2> QED
    BY <1>14, <1>16, <2>1, <2>2
<1>17. ASSUME NEW x \in 1 .. b, text[x] = "k"
       PROVE  \E y \in Occurrences(path, text) : y <= x /\ x < y + L
  <2>1. x \in 1 .. Len(text) /\ x < b + 1
    BY <1>1, <1>12
  <2>2. PICK i \in 1 .. n : x = pos[i] /\ bytes[i] = "k"
    BY <1>10, <1>17, <2>1
  <2>3. i \in 1 .. n + 1
    BY <1>1
  <2>4. i < a + 1
    BY <1>11, <1>12, <2>1, <2>2, <2>3
  <2>5. i \in 1 .. a
    BY <1>2, <2>4
  <2>6. PICK e \in Occurrences(path, bytes) : e <= i /\ i < e + L
    BY <1>2, <2>2, <2>5
  <2>7. e \in 1 .. n + 1 /\ e + L \in 1 .. n + 1 /\ pos[e + L] = pos[e] + L
    BY <1>1, <1>6
  <2>8. pos[e] <= x
    BY <1>11, <2>2, <2>3, <2>6, <2>7
  <2>9. x < pos[e + L]
    BY <1>4, <2>2, <2>3, <2>6, <2>7
  <2> QED
    BY <1>6, <2>7, <2>8, <2>9
<1>18. IsCutAt(path, url, text, b)
  <2>1. b \in 0 .. Len(text)
    BY <1>1, <1>2, <1>12
  <2>2. Within(path, text, b + 1) /\ Apart(path, text) /\ ApartFrom(path, url, text)
    BY <1>13, <1>15, <1>16 DEF Within, Apart, ApartFrom, L
  <2> QED
    BY <1>17, <2>1, <2>2 DEF IsCutAt, L
<1>19. a <= b
  BY <1>1, <1>2, <1>12
<1>20. a = n => b = Len(text)
  BY <1>1, <1>5, <1>12
<1> QED
  BY <1>12, <1>18, <1>19, <1>20 DEF n

LEMMA AsciiIsUtf8 ==
  ASSUME NEW S, NEW url \in Seq(S), IsAscii(url)
  PROVE  IsUtf8(url)
<1>1. Len(url) \in Nat /\ DOMAIN url = 1 .. Len(url)
  OBVIOUS
<1> SUFFICES ASSUME NEW i \in 1 .. Len(url) + 1
             PROVE  (i > 1 /\ url[i - 1] = "hi") <=> (i <= Len(url) /\ url[i] = "lo")
  BY DEF IsUtf8
<1>2. (i > 1 => i - 1 \in 1 .. Len(url)) /\ (i <= Len(url) => i \in 1 .. Len(url))
  BY <1>1
<1> QED
  BY <1>1, <1>2 DEF IsAscii

LEMMA EndOfAscii ==
  ASSUME NEW S, NEW url \in Seq(S), NEW path \in Seq(S), EndsWith(url, path), IsAscii(url)
  PROVE  IsAscii(path)
<1>1. /\ Len(url) \in Nat /\ DOMAIN url = 1 .. Len(url)
      /\ Len(path) \in Nat /\ DOMAIN path = 1 .. Len(path)
  OBVIOUS
<1>2. Len(path) <= Len(url) /\ \A j \in 1 .. Len(path) : url[Len(url) - Len(path) + j] = path[j]
  BY DEF EndsWith
<1>3. ASSUME NEW j \in 1 .. Len(path) PROVE path[j] \notin {"hi", "lo"}
  <2>1. Len(url) - Len(path) + j \in 1 .. Len(url)
    BY <1>1, <1>2
  <2>2. url[Len(url) - Len(path) + j] \notin {"hi", "lo"}
    BY <1>1, <2>1 DEF IsAscii
  <2> QED
    BY <1>2, <2>2
<1> QED
  BY <1>1, <1>3 DEF IsAscii

\* The report of a failed toolkit shows no part of the key, wherever the capture cuts what the
\* child writes (redact_child_stderr, toolkit.rs:114, CAPTURE_TOOLKIT_STDERR_BYTES): where it
\* cuts an echo, what precedes the echo is all that is shown.
THEOREM StderrHidesTheKey ==
  ASSUME NEW Letter, NEW stderr \in Seq(Letter), NEW url \in Seq(Letter),
         IsAscii(url), IsRedactable(url), CaptureSuffices(url), KeyOnlyInEchoes(stderr, url)
  PROVE  IsFitToShow(RedactChildStderr(stderr, url), MaxStderr)
<1>1. PICK S : S = Letter \cup Marks \cup {"hi", "lo"}
  OBVIOUS
<1>2. Marks \subseteq S /\ "hi" \in S /\ "lo" \in S /\ stderr \in Seq(S) /\ url \in Seq(S)
  <2>1. \A s \in Seq(Letter) : s \in Seq(S)
    BY <1>1
  <2> QED
    BY <1>1, <2>1
<1>3. IsUtf8(url)
  BY <1>2, AsciiIsUtf8
<1>4. PICK path : path = PathAndQuery(url)
  OBVIOUS
<1>5. path \in Seq(S) /\ path # <<>> /\ EndsWith(url, path) /\ url # <<>>
  BY <1>2, <1>3, <1>4, RedactableIsLong
<1>6. IsAscii(path)
  BY <1>2, <1>5, EndOfAscii
<1>7. Covered(path, stderr) /\ Apart(path, stderr) /\ ApartFrom(path, url, stderr)
  BY <1>4 DEF KeyOnlyInEchoes, Covered, Apart, ApartFrom
<1>8. PICK captured : captured = SubSeq(stderr, 1, Min({Len(stderr), CaptureStderr}))
  OBVIOUS
<1>9. /\ captured \in Seq(S) /\ Len(captured) <= Len(stderr) /\ BeginsWith(stderr, captured)
      /\ Len(captured) < Len(stderr) => Len(captured) = CaptureStderr
  BY <1>2, <1>8, CapturedBegins
<1>10. PICK a : /\ IsCutAt(path, url, captured, a)
                /\ \/ a = Len(captured)
                   \/ /\ Len(captured) < Len(stderr)
                      /\ Len(captured) - Len(path) + 1 <= a
  BY <1>2, <1>5, <1>7, <1>9, CapturedIsCut
<1>11. PICK text : text = Lossy(captured)
  OBVIOUS
<1>12. text \in Seq(S) /\ IsUtf8(text)
  BY <1>2, <1>9, <1>11, LossyIsUtf8
<1>13. PICK pos : Places(pos, captured, text)
  BY <1>2, <1>9, <1>11, <1>12, LossyPlaces
<1>14. PICK b \in Nat : IsCutAt(path, url, text, b) /\ a <= b /\ (a = Len(captured) => b = Len(text))
  <2>1. IsCutAt(path, url, captured, a)
    BY <1>10
  <2> QED
    BY <1>2, <1>5, <1>6, <1>9, <1>12, <1>13, <2>1, CutIsDecoded
<1>15. PICK c : c = CaptureStderr - Len(path) + 1
  OBVIOUS
<1>16. b = Len(text) \/ c <= b
  <2>1. a \in Nat /\ c \in Int
    BY <1>5, <1>9, <1>10, <1>15, RedactionAssumption DEF IsCutAt, CaptureStderr
  <2>2. a = Len(captured) \/ c <= a
    BY <1>9, <1>10, <1>15
  <2> QED
    BY <1>14, <2>1, <2>2
<1>17. ~HasKey(Bounded(Redact(text, url), MaxStderr))
  BY <1>2, <1>3, <1>4, <1>12, <1>14, <1>15, <1>16, CutIsNotShown
<1>18. PICK shown : shown = RedactChildStderr(stderr, url)
  OBVIOUS
<1>19. shown = Bounded(Redact(text, url), MaxStderr)
  BY <1>8, <1>11, <1>18 DEF RedactChildStderr
<1>20. IsUtf8(shown) /\ Len(shown) <= MaxStderr + Len(Truncated)
  <2>1. url # <<>> /\ IsUtf8(url)
    BY <1>3, <1>5
  <2> QED
    BY <1>8, <1>18, <2>1, StderrIsFitToShow
<1>21. ~HasKey(shown)
  BY <1>17, <1>19
<1> QED
  BY <1>18, <1>20, <1>21 DEF IsFitToShow, HasKey
=============================================================================
