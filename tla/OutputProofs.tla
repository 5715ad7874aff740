---------------------------- MODULE OutputProofs ----------------------------
(***************************************************************************)
(* No line of the console shows a secret, whatever the values, the texts   *)
(* commands print and the order in which they reach the console.  First    *)
(* the helpers on text: what replacing, cutting and registering do.        *)
(***************************************************************************)
EXTENDS Output, FiniteSetTheorems, WellFoundedInduction, TLAPS

-----------------------------------------------------------------------------
(* Induction, with a set for the numbers that satisfy the claim.           *)

LEMMA Induction ==
    ASSUME NEW T, 0 \in T, \A n \in Nat : n \in T => n + 1 \in T
    PROVE  \A n \in Nat : n \in T
<1> SUFFICES ASSUME Nat \ T # {}
             PROVE  FALSE
  OBVIOUS
<1>1. PICK x \in Nat \ T : \A y \in Nat \ T : ~ (<<y, x>> \in OpToRel(<, Nat))
  BY NatLessThanWellFounded, WFMin
<1>2. x # 0 /\ x - 1 \in Nat /\ x - 1 < x
  OBVIOUS
<1>3. <<x - 1, x>> \in OpToRel(<, Nat)
  BY <1>2 DEF OpToRel
<1>4. x - 1 \in T
  BY <1>1, <1>2, <1>3
<1> QED
  BY <1>2, <1>4

-----------------------------------------------------------------------------
(* Replacing                                                               *)

\* v is nowhere in s.
Free(v, s) == \A j \in 0..Len(s) : ~ OccursAt(v, s, j)

\* What x ends with, back to its last placeholder, is what the first i symbols of s end with.
Tracks(x, s, i) ==
    \A k \in 1..Len(x) :
        (\A m \in 1..k : x[Len(x) - k + m] # Filtered) =>
            k <= i /\ \A m \in 1..k : x[Len(x) - k + m] = s[i - k + m]

\* The recursion of Replace is well defined.
LEMMA ReplaceRecursion ==
    ASSUME NEW s, Len(s) \in Nat, NEW sec
    PROVE  \E out : out = [i \in 0..Len(s) |->
                             IF i = 0 THEN <<>> ELSE ReplaceLast(Append(out[i - 1], s[i]), sec)]
<1> DEFINE T == {n \in Nat : \E out : out = [i \in 0..n |->
                   IF i = 0 THEN <<>> ELSE ReplaceLast(Append(out[i - 1], s[i]), sec)]}
<1>1. 0 \in T
  <2>1. [i \in 0..0 |-> <<>>] = [i \in 0..0 |->
           IF i = 0 THEN <<>> ELSE ReplaceLast(Append([j \in 0..0 |-> <<>>][i - 1], s[i]), sec)]
    OBVIOUS
  <2> QED
    BY <2>1
<1>2. ASSUME NEW n \in Nat, n \in T
      PROVE  n + 1 \in T
  <2>1. PICK g : g = [i \in 0..n |->
                   IF i = 0 THEN <<>> ELSE ReplaceLast(Append(g[i - 1], s[i]), sec)]
    BY <1>2
  <2> DEFINE h == [i \in 0..(n + 1) |->
                     IF i = n + 1 THEN ReplaceLast(Append(g[n], s[n + 1]), sec) ELSE g[i]]
  <2>2. ASSUME NEW i \in 0..(n + 1)
        PROVE  h[i] = IF i = 0 THEN <<>> ELSE ReplaceLast(Append(h[i - 1], s[i]), sec)
    <3>1. CASE i = n + 1
      BY <3>1
    <3>2. CASE i # n + 1
      <4>1. i \in 0..n /\ (i # 0 => i - 1 \in 0..n /\ i - 1 # n + 1)
        BY <3>2
      <4> QED
        BY <2>1, <4>1
    <3> QED
      BY <3>1, <3>2
  <2>3. h = [i \in 0..(n + 1) |->
               IF i = 0 THEN <<>> ELSE ReplaceLast(Append(h[i - 1], s[i]), sec)]
    BY <2>2
  <2> HIDE DEF h
  <2> QED
    BY <2>3
<1> HIDE DEF T
<1>3. Len(s) \in T
  BY <1>1, <1>2, Induction
<1> QED
  BY <1>3 DEF T

ReplaceSteps(s, sec, out) ==
    /\ Replace(s, sec) = out[Len(s)]
    /\ out[0] = <<>>
    /\ \A i \in 1..Len(s) : out[i] = ReplaceLast(Append(out[i - 1], s[i]), sec)

LEMMA ReplaceEquation ==
    ASSUME NEW s, Len(s) \in Nat, NEW sec
    PROVE  \E out : ReplaceSteps(s, sec, out)
<1> DEFINE f == CHOOSE out : out = [i \in 0..Len(s) |->
                             IF i = 0 THEN <<>> ELSE ReplaceLast(Append(out[i - 1], s[i]), sec)]
<1>1. f = [i \in 0..Len(s) |-> IF i = 0 THEN <<>> ELSE ReplaceLast(Append(f[i - 1], s[i]), sec)]
  BY ReplaceRecursion, ZenonT(60)
<1>2. Replace(s, sec) = f[Len(s)]
  BY DEF Replace
<1> HIDE DEF f
<1>3. /\ f[0] = <<>>
      /\ \A i \in 1..Len(s) : f[i] = ReplaceLast(Append(f[i - 1], s[i]), sec)
  BY <1>1
<1>4. ReplaceSteps(s, sec, f)
  BY <1>2, <1>3 DEF ReplaceSteps
<1> QED
  BY <1>4

\* A value that masking can hide.
Plain(v) == v # <<>> /\ Filtered \notin Range(v)

\* Appending a symbol and a sequence: what SMT needs to know of them.
LEMMA AppendFacts ==
    ASSUME NEW S, NEW x \in Seq(S), NEW c \in S
    PROVE  /\ Append(x, c) \in Seq(S) /\ Len(x) \in Nat /\ Len(Append(x, c)) = Len(x) + 1
           /\ \A m \in 1..Len(x) : Append(x, c)[m] = x[m] /\ x[m] \in S
           /\ Append(x, c)[Len(x) + 1] = c
  OBVIOUS

LEMMA ConcatFacts ==
    ASSUME NEW S, NEW x \in Seq(S), NEW y \in Seq(S)
    PROVE  /\ x \o y \in Seq(S) /\ Len(x) \in Nat /\ Len(y) \in Nat /\ Len(x \o y) = Len(x) + Len(y)
           /\ \A m \in 1..Len(x) : (x \o y)[m] = x[m]
           /\ \A m \in 1..Len(y) : (x \o y)[Len(x) + m] = y[m]
  OBVIOUS

\* r is known with v after its first n members.
Inserted(W, known, v, n, r) ==
    /\ r \in Seq(W) /\ Len(r) = Len(known) + 1
    /\ r[n + 1] = v
    /\ \A i \in 1..n : r[i] = known[i]
    /\ \A i \in (n + 1)..Len(known) : r[i + 1] = known[i]

LEMMA InsertFacts ==
    ASSUME NEW W, NEW known \in Seq(W), NEW v \in W, NEW n \in 0..Len(known)
    PROVE  Inserted(W, known, v, n,
                    SubSeq(known, 1, n) \o <<v>> \o SubSeq(known, n + 1, Len(known)))
<1> DEFINE a == SubSeq(known, 1, n)
           c == SubSeq(known, n + 1, Len(known))
<1>1. Len(known) \in Nat
  OBVIOUS
<1>2. a \in Seq(W) /\ Len(a) = n /\ \A i \in 1..n : a[i] = known[i]
  BY <1>1
<1>3. /\ c \in Seq(W) /\ Len(c) = Len(known) - n
      /\ \A i \in 1..(Len(known) - n) : c[i] = known[n + i]
  BY <1>1
<1> DEFINE one == <<v>>
<1>4. one \in Seq(W) /\ Len(one) = 1 /\ one[1] = v
  OBVIOUS
<1> HIDE DEF a, c, one
<1> DEFINE b == a \o one
<1>5. /\ b \in Seq(W) /\ Len(b) = n + 1 /\ b[n + 1] = v
      /\ \A i \in 1..n : b[i] = known[i]
  <2>1. /\ b \in Seq(W) /\ Len(b) = Len(a) + Len(one)
        /\ \A m \in 1..Len(a) : b[m] = a[m]
        /\ \A m \in 1..Len(one) : b[Len(a) + m] = one[m]
    <3>1. a \in Seq(W) /\ one \in Seq(W)
      BY <1>2, <1>4
    <3> QED
      BY <3>1, ConcatFacts
  <2>2. b[n + 1] = one[1]
    BY <1>2, <1>4, <2>1
  <2> QED
    BY <1>2, <1>4, <2>1, <2>2
<1> HIDE DEF b
<1> DEFINE r == b \o c
<1>6. /\ r \in Seq(W) /\ Len(r) = Len(known) + 1
      /\ \A i \in 1..(n + 1) : r[i] = b[i]
      /\ \A i \in 1..(Len(known) - n) : r[n + 1 + i] = c[i]
  BY <1>1, <1>3, <1>5, ConcatFacts
<1> HIDE DEF r
<1>7. ASSUME NEW i \in (n + 1)..Len(known)
      PROVE  r[i + 1] = known[i]
  <2>1. PICK k \in 1..(Len(known) - n) : i = n + k
    <3>1. i - n \in 1..(Len(known) - n) /\ i = n + (i - n)
      BY <1>1
    <3> QED
      BY <3>1
  <2>2. n + 1 + k = i + 1
    BY <1>1, <2>1
  <2> QED
    BY <1>3, <1>6, <2>1, <2>2
<1>8. /\ r \in Seq(W) /\ Len(r) = Len(known) + 1
      /\ r[n + 1] = v
      /\ \A i \in 1..n : r[i] = known[i]
      /\ \A i \in (n + 1)..Len(known) : r[i + 1] = known[i]
  BY <1>1, <1>5, <1>6, <1>7
<1>9. Inserted(W, known, v, n, r)
  BY <1>8 DEF Inserted
<1> QED
  BY <1>4, <1>9 DEF a, b, c, r

\* v before f and q after it.
LEMMA EnclosedFacts ==
    ASSUME NEW X, NEW v \in X, NEW f \in Seq(X), NEW q \in X
    PROVE  LET vs == <<v>> \o f \o <<q>>
           IN  /\ vs \in Seq(X) /\ Len(vs) = Len(f) + 2
               /\ \A n \in 1..Len(f) : vs[n + 1] = f[n]
               /\ vs[Len(f) + 2] = q
<1> DEFINE o == <<v>>
           t == o \o f
<1>1. o \in Seq(X) /\ Len(o) = 1 /\ Len(f) \in Nat
  OBVIOUS
<1> HIDE DEF o
<1>2. t \in Seq(X) /\ Len(t) = Len(f) + 1 /\ \A n \in 1..Len(f) : t[1 + n] = f[n]
  BY <1>1, ConcatFacts
<1>3. t \o <<q>> = Append(t, q)
  BY <1>2
<1> HIDE DEF t
<1> DEFINE u == Append(t, q)
<1>4. /\ u \in Seq(X) /\ Len(u) = Len(t) + 1 /\ u[Len(t) + 1] = q
      /\ \A n \in 1..Len(t) : u[n] = t[n]
  BY <1>2, AppendFacts
<1> HIDE DEF u
<1>5. ASSUME NEW n \in 1..Len(f)
      PROVE  u[n + 1] = f[n]
  <2>1. n + 1 \in 1..Len(t) /\ n + 1 = 1 + n
    BY <1>1, <1>2
  <2> QED
    BY <1>2, <1>4, <2>1
<1>6. Len(u) = Len(f) + 2 /\ u[Len(f) + 2] = q
  BY <1>1, <1>2, <1>4
<1> QED
  BY <1>3, <1>4, <1>5, <1>6 DEF o, t, u

\* One step of Replace: y is x with c copied and, if that completes sec, with sec replaced.
LEMMA ReplaceStep ==
    ASSUME NEW S, NEW V, Filtered \in S, NEW x \in Seq(S), NEW s \in Seq(S), NEW i \in 1..Len(s),
           NEW sec \in Seq(V), sec # <<>>, Filtered \notin Range(sec),
           NEW w \in Seq(V), w # <<>>, Filtered \notin Range(w),
           Tracks(x, s, i - 1), Free(sec, x), Free(w, s) => Free(w, x)
    PROVE  LET y == ReplaceLast(Append(x, s[i]), sec)
           IN  /\ y \in Seq(S) /\ y # <<>> /\ y[Len(y)] \in {s[i], Filtered}
               /\ Tracks(y, s, i) /\ Free(sec, y)
               /\ Free(w, s) => Free(w, y)
<1> DEFINE z == Append(x, s[i])
           y == ReplaceLast(z, sec)
<1>1. s[i] \in S /\ Len(s) \in Nat /\ Len(x) \in Nat
  OBVIOUS
<1>2. /\ z \in Seq(S) /\ Len(z) = Len(x) + 1
      /\ \A m \in 1..Len(x) : z[m] = x[m]
      /\ z[Len(x) + 1] = s[i]
  BY <1>1, AppendFacts
<1>3. /\ Len(sec) \in Nat \ {0} /\ DOMAIN sec = 1..Len(sec) /\ \A k \in 1..Len(sec) : sec[k] # Filtered
      /\ Len(w) \in Nat \ {0} /\ DOMAIN w = 1..Len(w) /\ \A k \in 1..Len(w) : w[k] # Filtered
  BY DEF Range
<1> HIDE DEF z
<1>4. CASE ~ IsSuffixOf(sec, z)
  <2>1. y = z
    BY <1>4 DEF ReplaceLast
  <2>2. Tracks(z, s, i)
    <3> SUFFICES ASSUME NEW k \in 1..Len(z), \A m \in 1..k : z[Len(z) - k + m] # Filtered
                 PROVE  k <= i /\ \A m \in 1..k : z[Len(z) - k + m] = s[i - k + m]
      BY DEF Tracks
    <3>1. \A m \in 1..(k - 1) : z[Len(z) - k + m] = x[Len(x) - (k - 1) + m]
      <4> TAKE m \in 1..(k - 1)
      <4>1. Len(z) - k + m = Len(x) - (k - 1) + m /\ Len(x) - (k - 1) + m \in 1..Len(x)
        BY <1>1, <1>2
      <4> QED
        BY <1>2, <4>1
    <3>2. \A m \in 1..(k - 1) : x[Len(x) - (k - 1) + m] # Filtered
      <4> TAKE m \in 1..(k - 1)
      <4>1. m \in 1..k
        BY <1>1, <1>2
      <4> QED
        BY <3>1, <4>1
    <3>3. k - 1 \in 1..Len(x) \/ k = 1
      BY <1>1, <1>2
    <3>4. k <= i /\ \A m \in 1..(k - 1) : x[Len(x) - (k - 1) + m] = s[i - k + m]
      <4>1. CASE k - 1 \in 1..Len(x)
        <5>1. k - 1 <= i - 1 /\ \A m \in 1..(k - 1) : x[Len(x) - (k - 1) + m] = s[(i - 1) - (k - 1) + m]
          BY <3>2, <4>1 DEF Tracks
        <5>2. \A m \in 1..(k - 1) : (i - 1) - (k - 1) + m = i - k + m
          BY <4>1
        <5> QED
          BY <4>1, <5>1, <5>2
      <4> QED
        BY <3>3, <4>1
    <3>5. z[Len(z) - k + k] = s[i - k + k]
      BY <1>1, <1>2
    <3>6. \A m \in 1..k : m = k \/ m \in 1..(k - 1)
      BY <1>1, <1>2
    <3> QED
      BY <3>1, <3>4, <3>5, <3>6
  <2>3. ASSUME NEW v \in Seq(V), NEW j \in 0..Len(z), OccursAt(v, z, j), v # <<>>, Free(v, x)
        PROVE  j + Len(v) = Len(z)
    <3>1. Len(v) \in Nat \ {0} /\ DOMAIN v = 1..Len(v)
      BY <2>3
    <3>2. CASE j + Len(v) <= Len(x)
      <4>1. \A k \in 1..Len(v) : j + k \in 1..Len(x)
        BY <1>1, <3>1, <3>2
      <4>2. OccursAt(v, x, j)
        BY <1>2, <2>3, <3>1, <3>2, <4>1 DEF OccursAt
      <4> QED
        BY <1>1, <2>3, <3>1, <3>2, <4>2 DEF Free
    <3> QED
      BY <1>1, <1>2, <2>3, <3>1, <3>2 DEF OccursAt
  <2>4. Free(sec, z)
    <3> SUFFICES ASSUME NEW j \in 0..Len(z), OccursAt(sec, z, j)
                 PROVE  FALSE
      BY DEF Free
    <3>1. j + Len(sec) = Len(z)
      BY <2>3
    <3>2. j = Len(z) - Len(sec) /\ Len(sec) <= Len(z)
      BY <1>1, <1>2, <1>3, <3>1
    <3> QED
      BY <1>4, <3>2 DEF IsSuffixOf
  <2>5. ASSUME Free(w, s)
        PROVE  Free(w, z)
    <3> SUFFICES ASSUME NEW j \in 0..Len(z), OccursAt(w, z, j)
                 PROVE  FALSE
      BY DEF Free
    <3>1. j + Len(w) = Len(z)
      BY <2>3, <2>5
    <3>2. \A m \in 1..Len(w) : z[Len(z) - Len(w) + m] = w[m]
      <4>1. j = Len(z) - Len(w)
        BY <1>1, <1>2, <1>3, <3>1
      <4> QED
        BY <1>3, <4>1 DEF OccursAt
    <3>3. Len(w) \in 1..Len(z) /\ \A m \in 1..Len(w) : z[Len(z) - Len(w) + m] # Filtered
      BY <1>1, <1>2, <1>3, <3>1, <3>2
    <3>4. Len(w) <= i /\ \A m \in 1..Len(w) : z[Len(z) - Len(w) + m] = s[i - Len(w) + m]
      BY <2>2, <3>3 DEF Tracks
    <3>5. OccursAt(w, s, i - Len(w)) /\ i - Len(w) \in 0..Len(s)
      <4>1. i - Len(w) \in 0..Len(s) /\ Len(w) \in Nat
        BY <1>1, <1>3, <3>4
      <4>2. \A m \in 1..Len(w) : s[i - Len(w) + m] = w[m]
        BY <3>2, <3>4
      <4>3. i - Len(w) + Len(w) <= Len(s)
        BY <1>1, <4>1
      <4> QED
        BY <1>3, <4>1, <4>2, <4>3 DEF OccursAt
    <3> QED
      BY <2>5, <3>5 DEF Free
  <2> QED
    BY <2>1, <2>2, <2>4, <2>5, <1>2 DEF z
<1>5. CASE IsSuffixOf(sec, z)
  <2> DEFINE n == Len(z) - Len(sec)
             p == SubSeq(z, 1, n)
  <2>1. y = Append(p, Filtered)
    BY <1>5 DEF ReplaceLast
  <2>2. n \in 0..Len(x)
    BY <1>1, <1>2, <1>3, <1>5 DEF IsSuffixOf
  <2>3. p \in Seq(S) /\ Len(p) = n /\ \A m \in 1..n : p[m] = x[m]
    BY <1>1, <1>2, <2>2
  <2> HIDE DEF n, p
  <2>4. /\ y \in Seq(S) /\ Len(y) = n + 1 /\ y[n + 1] = Filtered
        /\ \A m \in 1..n : y[m] = x[m]
    BY <2>1, <2>2, <2>3, AppendFacts
  <2>5. Tracks(y, s, i)
    <3> SUFFICES ASSUME NEW k \in 1..Len(y), \A m \in 1..k : y[Len(y) - k + m] # Filtered
                 PROVE  FALSE
      BY DEF Tracks
    <3>1. k \in 1..k /\ Len(y) - k + k = n + 1
      BY <2>2, <2>4
    <3> QED
      BY <2>4, <3>1
  <2>6. ASSUME NEW v \in Seq(V), v # <<>>, Filtered \notin Range(v), Free(v, x)
        PROVE  Free(v, y)
    <3> SUFFICES ASSUME NEW j \in 0..Len(y), OccursAt(v, y, j)
                 PROVE  FALSE
      BY DEF Free
    <3>1. Len(v) \in Nat \ {0} /\ DOMAIN v = 1..Len(v) /\ \A k \in 1..Len(v) : v[k] # Filtered
      BY <2>6 DEF Range
    <3>2. j + Len(v) <= n + 1 /\ \A k \in 1..Len(v) : y[j + k] = v[k]
      BY <2>4, <3>1 DEF OccursAt
    <3>3. y[j + Len(v)] # Filtered
      <4>1. Len(v) \in 1..Len(v)
        BY <3>1
      <4> QED
        BY <3>1, <3>2, <4>1
    <3>4. j + Len(v) <= n
      BY <2>2, <2>4, <3>1, <3>2, <3>3
    <3>5. \A k \in 1..Len(v) : j + k \in 1..n
      <4>1. j \in Nat /\ n \in Nat
        BY <2>2, <2>4
      <4> QED
        BY <3>1, <3>4, <4>1
    <3>6. OccursAt(v, x, j) /\ j \in 0..Len(x)
      <4>1. j \in 0..Len(x) /\ j + Len(v) <= Len(x)
        BY <1>1, <2>2, <2>4, <3>1, <3>4
      <4>2. \A k \in 1..Len(v) : x[j + k] = v[k]
        BY <2>4, <3>2, <3>5
      <4> QED
        BY <3>1, <4>1, <4>2 DEF OccursAt
    <3> QED
      BY <2>6, <3>6 DEF Free
  <2>7. y # <<>> /\ y[Len(y)] = Filtered
    BY <2>2, <2>4
  <2> QED
    BY <1>3, <2>4, <2>5, <2>6, <2>7 DEF z
<1> QED
  BY <1>4, <1>5 DEF z

\* What Replace promises: sec is gone, nothing new has appeared, and a text ends as it did,
\* or with a placeholder.
LEMMA ReplaceHides ==
    ASSUME NEW S, NEW V, Filtered \in S, NEW s \in Seq(S),
           NEW sec \in Seq(V), Plain(sec), NEW w \in Seq(V), Plain(w)
    PROVE  LET y == Replace(s, sec)
           IN  /\ y \in Seq(S) /\ Free(sec, y)
               /\ Free(w, s) => Free(w, y)
               /\ s = <<>> => y = <<>>
               /\ s # <<>> => y # <<>> /\ y[Len(y)] \in {s[Len(s)], Filtered}
<1>1. Len(s) \in Nat
  OBVIOUS
<1>0. PICK out : ReplaceSteps(s, sec, out)
  BY <1>1, ReplaceEquation
<1>2. /\ Replace(s, sec) = out[Len(s)]
      /\ out[0] = <<>>
      /\ \A i \in 1..Len(s) : out[i] = ReplaceLast(Append(out[i - 1], s[i]), sec)
  BY <1>0 DEF ReplaceSteps
<1> DEFINE T == {i \in Nat : i <= Len(s) =>
                   /\ out[i] \in Seq(S) /\ Tracks(out[i], s, i) /\ Free(sec, out[i])
                   /\ Free(w, s) => Free(w, out[i])
                   /\ i # 0 => out[i] # <<>> /\ out[i][Len(out[i])] \in {s[i], Filtered}}
<1>3. 0 \in T
  <2>1. out[0] \in Seq(S) /\ Len(out[0]) = 0
    BY <1>2
  <2>2. Tracks(out[0], s, 0)
    BY <2>1 DEF Tracks
  <2>3. \A v \in Seq(V) : v # <<>> => Free(v, out[0])
    <3> SUFFICES ASSUME NEW v \in Seq(V), v # <<>>, NEW j \in 0..0, OccursAt(v, out[0], j)
                 PROVE  FALSE
      BY <2>1 DEF Free
    <3>1. Len(v) \in Nat \ {0}
      OBVIOUS
    <3> QED
      BY <2>1, <3>1 DEF OccursAt
  <2> QED
    BY <2>1, <2>2, <2>3 DEF Plain
<1>4. ASSUME NEW n \in Nat, n \in T
      PROVE  n + 1 \in T
  <2> SUFFICES ASSUME n + 1 <= Len(s)
               PROVE  /\ out[n + 1] \in Seq(S) /\ Tracks(out[n + 1], s, n + 1) /\ Free(sec, out[n + 1])
                      /\ Free(w, s) => Free(w, out[n + 1])
                      /\ out[n + 1] # <<>> /\ out[n + 1][Len(out[n + 1])] \in {s[n + 1], Filtered}
    OBVIOUS
  <2>1. n + 1 \in 1..Len(s) /\ (n + 1) - 1 = n /\ n <= Len(s)
    BY <1>1
  <2>2. out[n + 1] = ReplaceLast(Append(out[n], s[n + 1]), sec)
    BY <1>2, <2>1
  <2>3. /\ out[n] \in Seq(S) /\ Tracks(out[n], s, (n + 1) - 1) /\ Free(sec, out[n])
        /\ Free(w, s) => Free(w, out[n])
    BY <1>4, <2>1
  <2>4. /\ Filtered \notin Range(sec) /\ sec # <<>>
        /\ Filtered \notin Range(w) /\ w # <<>>
    BY DEF Plain
  <2>5. LET y == ReplaceLast(Append(out[n], s[n + 1]), sec)
        IN  /\ y \in Seq(S) /\ y # <<>> /\ y[Len(y)] \in {s[n + 1], Filtered}
            /\ Tracks(y, s, n + 1) /\ Free(sec, y)
            /\ Free(w, s) => Free(w, y)
    BY <2>1, <2>3, <2>4, ReplaceStep
  <2> QED
    BY <2>2, <2>5
<1> HIDE DEF T
<1>5. Len(s) \in T
  BY <1>1, <1>3, <1>4, Induction
<1>6. s = <<>> <=> Len(s) = 0
  OBVIOUS
<1> QED
  BY <1>1, <1>2, <1>5, <1>6 DEF T

\* The recursion of ReplaceEach is well defined.
LEMMA EachRecursion ==
    ASSUME NEW known, Len(known) \in Nat, NEW s
    PROVE  \E out : out = [i \in 0..Len(known) |-> IF i = 0 THEN s ELSE Replace(out[i - 1], known[i])]
<1> DEFINE T == {n \in Nat : \E out : out = [i \in 0..n |->
                   IF i = 0 THEN s ELSE Replace(out[i - 1], known[i])]}
<1>1. 0 \in T
  <2>1. [i \in 0..0 |-> s] = [i \in 0..0 |->
           IF i = 0 THEN s ELSE Replace([j \in 0..0 |-> s][i - 1], known[i])]
    OBVIOUS
  <2> QED
    BY <2>1
<1>2. ASSUME NEW n \in Nat, n \in T
      PROVE  n + 1 \in T
  <2>1. PICK g : g = [i \in 0..n |-> IF i = 0 THEN s ELSE Replace(g[i - 1], known[i])]
    BY <1>2
  <2> DEFINE h == [i \in 0..(n + 1) |-> IF i = n + 1 THEN Replace(g[n], known[n + 1]) ELSE g[i]]
  <2>2. ASSUME NEW i \in 0..(n + 1)
        PROVE  h[i] = IF i = 0 THEN s ELSE Replace(h[i - 1], known[i])
    <3>1. CASE i = n + 1
      BY <3>1
    <3>2. CASE i # n + 1
      <4>1. i \in 0..n /\ (i # 0 => i - 1 \in 0..n /\ i - 1 # n + 1)
        BY <3>2
      <4> QED
        BY <2>1, <4>1
    <3> QED
      BY <3>1, <3>2
  <2>3. h = [i \in 0..(n + 1) |-> IF i = 0 THEN s ELSE Replace(h[i - 1], known[i])]
    BY <2>2
  <2> HIDE DEF h
  <2> QED
    BY <2>3
<1> HIDE DEF T
<1>3. Len(known) \in T
  BY <1>1, <1>2, Induction
<1> QED
  BY <1>3 DEF T

EachSteps(known, s, out) ==
    /\ ReplaceEach(known, s) = out[Len(known)]
    /\ out[0] = s
    /\ \A i \in 1..Len(known) : out[i] = Replace(out[i - 1], known[i])

LEMMA EachEquation ==
    ASSUME NEW known, Len(known) \in Nat, NEW s
    PROVE  \E out : EachSteps(known, s, out)
<1> DEFINE f == CHOOSE out : out = [i \in 0..Len(known) |-> IF i = 0 THEN s ELSE Replace(out[i - 1], known[i])]
<1>1. f = [i \in 0..Len(known) |-> IF i = 0 THEN s ELSE Replace(f[i - 1], known[i])]
  BY EachRecursion
<1>2. ReplaceEach(known, s) = f[Len(known)]
  BY DEF ReplaceEach
<1> HIDE DEF f
<1>3. f[0] = s /\ \A i \in 1..Len(known) : f[i] = Replace(f[i - 1], known[i])
  BY <1>1
<1>4. EachSteps(known, s, f)
  BY <1>2, <1>3 DEF EachSteps
<1> QED
  BY <1>4

\* Masking: no value is left, and a text ends as it did, or with a placeholder.
LEMMA EachHides ==
    ASSUME NEW S, NEW V, Filtered \in S, NEW s \in Seq(S), NEW W, NEW known \in Seq(W),
           \A v \in W : v \in Seq(V) /\ Plain(v)
    PROVE  LET y == ReplaceEach(known, s)
           IN  /\ y \in Seq(S)
               /\ \A k \in 1..Len(known) : Free(known[k], y)
               /\ s = <<>> => y = <<>>
               /\ s # <<>> => y # <<>> /\ y[Len(y)] \in {s[Len(s)], Filtered}
<1>1. Len(known) \in Nat
  OBVIOUS
<1>0. PICK out : EachSteps(known, s, out)
  BY <1>1, EachEquation
<1>2. /\ ReplaceEach(known, s) = out[Len(known)]
      /\ out[0] = s
      /\ \A i \in 1..Len(known) : out[i] = Replace(out[i - 1], known[i])
  BY <1>0 DEF EachSteps
<1> DEFINE T == {i \in Nat : i <= Len(known) =>
                   /\ out[i] \in Seq(S)
                   /\ \A k \in 1..i : Free(known[k], out[i])
                   /\ s = <<>> => out[i] = <<>>
                   /\ s # <<>> => out[i] # <<>> /\ out[i][Len(out[i])] \in {s[Len(s)], Filtered}}
<1>3. 0 \in T
  BY <1>2
<1>4. ASSUME NEW n \in Nat, n \in T
      PROVE  n + 1 \in T
  <2> DEFINE x == out[n]
             y == out[n + 1]
             sec == known[n + 1]
  <2> SUFFICES ASSUME n + 1 <= Len(known)
               PROVE  /\ y \in Seq(S)
                      /\ \A k \in 1..(n + 1) : Free(known[k], y)
                      /\ s = <<>> => y = <<>>
                      /\ s # <<>> => y # <<>> /\ y[Len(y)] \in {s[Len(s)], Filtered}
    OBVIOUS
  <2>1. n + 1 \in 1..Len(known) /\ (n + 1) - 1 = n /\ n <= Len(known)
    BY <1>1
  <2>2. y = Replace(x, sec)
    BY <1>2, <2>1
  <2>3. /\ x \in Seq(S)
        /\ \A k \in 1..n : Free(known[k], x)
        /\ s = <<>> => x = <<>>
        /\ s # <<>> => x # <<>> /\ x[Len(x)] \in {s[Len(s)], Filtered}
    BY <1>4, <2>1
  <2>4. /\ sec \in Seq(V) /\ Plain(sec)
        /\ \A k \in 1..n : known[k] \in Seq(V) /\ Plain(known[k])
    BY <2>1
  <2> HIDE DEF x, y, sec
  <2>5. ASSUME NEW w \in Seq(V), Plain(w)
        PROVE  /\ y \in Seq(S) /\ Free(sec, y)
               /\ Free(w, x) => Free(w, y)
               /\ x = <<>> => y = <<>>
               /\ x # <<>> => y # <<>> /\ y[Len(y)] \in {x[Len(x)], Filtered}
    <3>1. x \in Seq(S)
      BY <2>3
    <3>2. sec \in Seq(V) /\ Plain(sec)
      BY <2>4
    <3> HIDE <2>2, <2>3
    <3>3. LET z == Replace(x, sec)
           IN  /\ z \in Seq(S) /\ Free(sec, z)
               /\ Free(w, x) => Free(w, z)
               /\ x = <<>> => z = <<>>
               /\ x # <<>> => z # <<>> /\ z[Len(z)] \in {x[Len(x)], Filtered}
      BY <2>5, <3>1, <3>2, ReplaceHides
    <3> QED
      BY <2>2, <3>3
  <2>6. \A k \in 1..n : Free(known[k], y)
    BY <2>3, <2>4, <2>5
  <2>7. \A k \in 1..(n + 1) : k = n + 1 \/ k \in 1..n
    OBVIOUS
  <2> QED
    BY <2>3, <2>4, <2>5, <2>6, <2>7 DEF sec
<1> HIDE DEF T
<1>5. Len(known) \in T
  BY <1>1, <1>3, <1>4, Induction
<1> QED
  BY <1>1, <1>2, <1>5 DEF T

-----------------------------------------------------------------------------
(* Cutting                                                                 *)

\* The recursion of Cut is well defined.
LEMMA CutRecursion ==
    ASSUME NEW b, Len(b) \in Nat, NEW ends, NEW z
    PROVE  \E out : out = [i \in 0..Len(b) |-> IF i = 0 THEN z ELSE CutAt(out[i - 1], b[i], ends)]
<1> DEFINE T == {n \in Nat : \E out : out = [i \in 0..n |->
                   IF i = 0 THEN z ELSE CutAt(out[i - 1], b[i], ends)]}
<1>1. 0 \in T
  <2>1. [i \in 0..0 |-> z] = [i \in 0..0 |->
           IF i = 0 THEN z ELSE CutAt([j \in 0..0 |-> z][i - 1], b[i], ends)]
    OBVIOUS
  <2> QED
    BY <2>1
<1>2. ASSUME NEW n \in Nat, n \in T
      PROVE  n + 1 \in T
  <2>1. PICK g : g = [i \in 0..n |-> IF i = 0 THEN z ELSE CutAt(g[i - 1], b[i], ends)]
    BY <1>2
  <2> DEFINE h == [i \in 0..(n + 1) |-> IF i = n + 1 THEN CutAt(g[n], b[n + 1], ends) ELSE g[i]]
  <2>2. ASSUME NEW i \in 0..(n + 1)
        PROVE  h[i] = IF i = 0 THEN z ELSE CutAt(h[i - 1], b[i], ends)
    <3>1. CASE i = n + 1
      BY <3>1
    <3>2. CASE i # n + 1
      <4>1. i \in 0..n /\ (i # 0 => i - 1 \in 0..n /\ i - 1 # n + 1)
        BY <3>2
      <4> QED
        BY <2>1, <4>1
    <3> QED
      BY <3>1, <3>2
  <2>3. h = [i \in 0..(n + 1) |-> IF i = 0 THEN z ELSE CutAt(h[i - 1], b[i], ends)]
    BY <2>2
  <2> HIDE DEF h
  <2> QED
    BY <2>3
<1> HIDE DEF T
<1>3. Len(b) \in T
  BY <1>1, <1>2, Induction
<1> QED
  BY <1>3 DEF T

LEMMA CutEquation ==
    ASSUME NEW b, Len(b) \in Nat, NEW ends
    PROVE  \E out : /\ Cut(b, ends) = out[Len(b)]
                    /\ out[0] = <<<<>>, <<>>>>
                    /\ \A i \in 1..Len(b) : out[i] = CutAt(out[i - 1], b[i], ends)
<1> DEFINE z == <<<<>>, <<>>>>
<1> DEFINE f == CHOOSE out : out = [i \in 0..Len(b) |-> IF i = 0 THEN z ELSE CutAt(out[i - 1], b[i], ends)]
<1> HIDE DEF z
<1>1. f = [i \in 0..Len(b) |-> IF i = 0 THEN z ELSE CutAt(f[i - 1], b[i], ends)]
  BY CutRecursion
<1>2. Cut(b, ends) = f[Len(b)]
  BY DEF Cut, z
<1> HIDE DEF f
<1>3. f[0] = z /\ \A i \in 1..Len(b) : f[i] = CutAt(f[i - 1], b[i], ends)
  BY <1>1
<1> QED
  BY <1>2, <1>3 DEF z

\* Sequences that agree everywhere are the same.
LEMMA SameSequence ==
    ASSUME NEW S, NEW x \in Seq(S), NEW y \in Seq(S), Len(x) = Len(y), \A m \in 1..Len(y) : x[m] = y[m]
    PROVE  x = y
  OBVIOUS

\* A line of b from its place a with its end at e.
LineAt(b, ends, a, e) ==
    /\ a <= e /\ b[e] \in ends
    /\ \A k \in a..(e - 1) : b[k] \notin ends
    /\ a = 1 \/ b[a - 1] \in ends

\* r is how the first i symbols of b are cut.
CutOf(S, b, ends, i, r) ==
    /\ r[1] \in Seq(Seq(S)) /\ r[2] \in Seq(S)
    /\ Len(r[2]) <= i
    /\ \A m \in 1..Len(r[2]) : r[2][m] = b[i - Len(r[2]) + m] /\ r[2][m] \notin ends
    /\ Len(r[2]) = i \/ b[i - Len(r[2])] \in ends
    /\ \A n \in 1..Len(r[1]) : r[1][n] # <<>> /\ r[1][n][Len(r[1][n])] \in ends
    /\ \A a, e \in 1..i : LineAt(b, ends, a, e) => \E n \in 1..Len(r[1]) : r[1][n] = SubSeq(b, a, e)

LEMMA CutStep ==
    ASSUME NEW S, NEW b \in Seq(S), NEW ends, NEW i \in Nat, i + 1 <= Len(b), NEW r, CutOf(S, b, ends, i, r)
    PROVE  CutOf(S, b, ends, i + 1, CutAt(r, b[i + 1], ends))
<1> DEFINE c == b[i + 1]
           p == r[1]
           q == r[2]
           t == Append(q, c)
<1>1. /\ c \in S /\ Len(b) \in Nat /\ Len(q) \in Nat /\ Len(p) \in Nat
      /\ p \in Seq(Seq(S)) /\ q \in Seq(S)
  BY DEF CutOf
<1>2. /\ t \in Seq(S) /\ Len(t) = Len(q) + 1 /\ t[Len(q) + 1] = c
      /\ \A m \in 1..Len(q) : t[m] = q[m]
  BY <1>1, AppendFacts
<1>3. /\ Len(q) <= i
      /\ \A m \in 1..Len(q) : q[m] = b[i - Len(q) + m] /\ q[m] \notin ends
      /\ Len(q) = i \/ b[i - Len(q)] \in ends
      /\ \A n \in 1..Len(p) : p[n] # <<>> /\ p[n][Len(p[n])] \in ends
      /\ \A a, e \in 1..i : LineAt(b, ends, a, e) => \E n \in 1..Len(p) : p[n] = SubSeq(b, a, e)
  BY DEF CutOf
<1> HIDE DEF c, p, q, t
<1>4. \A m \in 1..Len(t) : t[m] = b[(i + 1) - Len(t) + m]
  <2> TAKE m \in 1..Len(t)
  <2>1. CASE m = Len(t)
    BY <1>1, <1>2, <2>1 DEF c
  <2>2. CASE m # Len(t)
    <3>1. m \in 1..Len(q) /\ (i + 1) - Len(t) + m = i - Len(q) + m
      BY <1>1, <1>2, <2>2
    <3> QED
      BY <1>2, <1>3, <3>1
  <2> QED
    BY <2>1, <2>2
<1>5. CASE c \in ends
  <2>1. CutAt(r, c, ends) = <<Append(p, t), <<>>>>
    BY <1>5 DEF CutAt, p, q, t
  <2> DEFINE o == Append(p, t)
  <2>2. /\ o \in Seq(Seq(S)) /\ Len(o) = Len(p) + 1 /\ o[Len(p) + 1] = t
        /\ \A n \in 1..Len(p) : o[n] = p[n]
    BY <1>1, <1>2, AppendFacts
  <2> HIDE DEF o
  <2>3. \A n \in 1..Len(o) : o[n] # <<>> /\ o[n][Len(o[n])] \in ends
    <3> TAKE n \in 1..Len(o)
    <3>1. n \in 1..Len(p) \/ n = Len(p) + 1
      BY <1>1, <2>2
    <3>2. t # <<>> /\ t[Len(t)] \in ends
      BY <1>1, <1>2, <1>5
    <3> QED
      BY <1>3, <2>2, <3>1, <3>2
  <2>4. ASSUME NEW a \in 1..(i + 1), NEW e \in 1..(i + 1), LineAt(b, ends, a, e)
        PROVE  \E n \in 1..Len(o) : o[n] = SubSeq(b, a, e)
    <3>1. CASE e <= i
      <4>1. a \in 1..i /\ e \in 1..i
        BY <2>4, <3>1 DEF LineAt
      <4>2. PICK n \in 1..Len(p) : p[n] = SubSeq(b, a, e)
        BY <1>3, <2>4, <4>1
      <4>3. n \in 1..Len(o)
        BY <1>1, <2>2
      <4> QED
        BY <2>2, <4>2, <4>3
    <3>2. CASE e = i + 1
      <4>1. a = i - Len(q) + 1
        <5>1. ~ (a < i - Len(q) + 1)
          <6> SUFFICES ASSUME a < i - Len(q) + 1
                       PROVE  FALSE
            OBVIOUS
          <6>1. b[i - Len(q)] \in ends /\ i - Len(q) \in a..(e - 1)
            BY <1>1, <1>3, <3>2
          <6> QED
            BY <2>4, <6>1 DEF LineAt
        <5>2. ~ (a > i - Len(q) + 1)
          <6> SUFFICES ASSUME a > i - Len(q) + 1
                       PROVE  FALSE
            OBVIOUS
          <6> DEFINE m == a - 1 - (i - Len(q))
          <6>1. m \in 1..Len(q) /\ i - Len(q) + m = a - 1 /\ a # 1
            BY <1>1, <1>3
          <6> HIDE DEF m
          <6>2. b[a - 1] \notin ends
            <7>1. q[m] = b[i - Len(q) + m] /\ q[m] \notin ends
              BY <1>3, <6>1
            <7> QED
              BY <6>1, <7>1
          <6> QED
            BY <2>4, <6>1, <6>2 DEF LineAt
        <5> QED
          BY <1>1, <5>1, <5>2
      <4>2. /\ SubSeq(b, a, e) \in Seq(S) /\ Len(SubSeq(b, a, e)) = Len(t)
            /\ \A m \in 1..Len(t) : SubSeq(b, a, e)[m] = b[a + m - 1]
        BY <1>1, <1>2, <1>3, <3>2, <4>1
      <4>3. \A m \in 1..Len(t) : a + m - 1 = (i + 1) - Len(t) + m
        BY <1>1, <1>2, <4>1
      <4>4. \A m \in 1..Len(t) : SubSeq(b, a, e)[m] = t[m]
        BY <1>4, <4>2, <4>3
      <4>5. SubSeq(b, a, e) = t
        BY <1>2, <4>2, <4>4, SameSequence
      <4>6. Len(p) + 1 \in 1..Len(o)
        BY <1>1, <2>2
      <4> QED
        BY <2>2, <4>5, <4>6
    <3> QED
      BY <3>1, <3>2
  <2>5. <<>> \in Seq(S) /\ Len(<<>>) = 0 /\ 0 <= i + 1 /\ (i + 1) - 0 = i + 1
    OBVIOUS
  <2>6. CutOf(S, b, ends, i + 1, <<o, <<>>>>)
    BY <1>5, <2>2, <2>3, <2>4, <2>5 DEF CutOf, c
  <2> QED
    BY <2>1, <2>6 DEF o, c
<1>6. CASE c \notin ends
  <2>1. CutAt(r, c, ends) = <<p, t>>
    BY <1>6 DEF CutAt, p, q, t
  <2>2. \A m \in 1..Len(t) : t[m] \notin ends
    <3> TAKE m \in 1..Len(t)
    <3>1. m \in 1..Len(q) \/ m = Len(q) + 1
      BY <1>1, <1>2
    <3> QED
      BY <1>2, <1>3, <1>6, <3>1
  <2>3. Len(t) <= i + 1 /\ (Len(t) = i + 1 \/ b[(i + 1) - Len(t)] \in ends)
    <3>1. (i + 1) - Len(t) = i - Len(q)
      BY <1>1, <1>2
    <3> QED
      BY <1>1, <1>2, <1>3, <3>1
  <2>4. ASSUME NEW a \in 1..(i + 1), NEW e \in 1..(i + 1), LineAt(b, ends, a, e)
        PROVE  \E n \in 1..Len(p) : p[n] = SubSeq(b, a, e)
    <3>1. e # i + 1
      BY <1>6, <2>4 DEF LineAt, c
    <3>2. a \in 1..i /\ e \in 1..i
      BY <2>4, <3>1 DEF LineAt
    <3> QED
      BY <1>3, <2>4, <3>2
  <2>5. CutOf(S, b, ends, i + 1, <<p, t>>)
    <3> DEFINE u == <<p, t>>
    <3>1. u[1] = p /\ u[2] = t
      OBVIOUS
    <3>2. /\ p \in Seq(Seq(S)) /\ t \in Seq(S)
          /\ \A n \in 1..Len(p) : p[n] # <<>> /\ p[n][Len(p[n])] \in ends
      BY <1>1, <1>2, <1>3
    <3>3. \A m \in 1..Len(t) : t[m] = b[(i + 1) - Len(t) + m] /\ t[m] \notin ends
      BY <1>4, <2>2
    <3> HIDE DEF p, t, u
    <3> QED
      BY <2>3, <2>4, <3>1, <3>2, <3>3 DEF CutOf
  <2> QED
    BY <2>1, <2>5 DEF c
<1> QED
  BY <1>5, <1>6

\* What Cut gives: lines with their ends, and the beginning of a line.
LEMMA CutGives ==
    ASSUME NEW S, NEW b \in Seq(S), NEW ends
    PROVE  CutOf(S, b, ends, Len(b), Cut(b, ends))
<1>1. Len(b) \in Nat
  OBVIOUS
<1>2. PICK out : /\ Cut(b, ends) = out[Len(b)]
                 /\ out[0] = <<<<>>, <<>>>>
                 /\ \A i \in 1..Len(b) : out[i] = CutAt(out[i - 1], b[i], ends)
  BY <1>1, CutEquation
<1> DEFINE T == {i \in Nat : i <= Len(b) => CutOf(S, b, ends, i, out[i])}
<1>3. 0 \in T
  <2> DEFINE none == <<>>
  <2>1. out[0][1] = none /\ out[0][2] = none
    BY <1>2
  <2>2. none \in Seq(S) /\ none \in Seq(Seq(S)) /\ Len(none) = 0
    OBVIOUS
  <2> HIDE DEF none
  <2>3. CutOf(S, b, ends, 0, out[0])
    BY <2>1, <2>2 DEF CutOf
  <2> QED
    BY <2>3
<1>4. ASSUME NEW n \in Nat, n \in T
      PROVE  n + 1 \in T
  <2> SUFFICES ASSUME n + 1 <= Len(b)
               PROVE  CutOf(S, b, ends, n + 1, out[n + 1])
    OBVIOUS
  <2>1. n + 1 \in 1..Len(b) /\ (n + 1) - 1 = n /\ n <= Len(b)
    BY <1>1
  <2>2. out[n + 1] = CutAt(out[n], b[n + 1], ends)
    BY <1>2, <2>1
  <2>3. CutOf(S, b, ends, n, out[n])
    BY <1>4, <2>1
  <2> QED
    BY <2>2, <2>3, CutStep
<1> HIDE DEF T
<1>5. Len(b) \in T
  BY <1>1, <1>3, <1>4, Induction
<1> QED
  BY <1>1, <1>2, <1>5 DEF T

-----------------------------------------------------------------------------
(* Registering                                                             *)

\* What is known stays known, and v is known now if it is long enough.
LEMMA WithSecretAdds ==
    ASSUME NEW W, NEW known \in Seq(W), NEW v, Len(v) \in Nat, Len(v) >= MinSecretLen => v \in W
    PROVE  LET r == WithSecret(known, v)
           IN  /\ r \in Seq(W) /\ Range(known) \subseteq Range(r)
               /\ Len(v) >= MinSecretLen => v \in Range(r)
<1> DEFINE r == WithSecret(known, v)
           I == {i \in DOMAIN known : Len(known[i]) >= Len(v)}
           n == Cardinality(I)
<1>1. MinSecretLen \in Nat /\ Len(known) \in Nat /\ DOMAIN known = 1..Len(known)
  BY OutputAssumption
<1>2. CASE Len(v) < MinSecretLen \/ v \in Range(known)
  <2>1. r = known
    BY <1>2 DEF WithSecret
  <2>2. ~ (Len(v) < MinSecretLen /\ Len(v) >= MinSecretLen)
    BY <1>1
  <2> QED
    BY <1>2, <2>1, <2>2
<1>3. CASE ~ (Len(v) < MinSecretLen \/ v \in Range(known))
  <2>1. r = SubSeq(known, 1, n) \o <<v>> \o SubSeq(known, n + 1, Len(known))
    BY <1>3 DEF WithSecret
  <2>2. n \in 0..Len(known)
    <3>1. IsFiniteSet(1..Len(known)) /\ Cardinality(1..Len(known)) = Len(known)
      <4>1. 1 \in Int /\ Len(known) \in Int /\ Len(known) - 1 + 1 = Len(known)
            /\ (1 > Len(known) => Len(known) = 0)
        BY <1>1
      <4> DEFINE l == Len(known)
      <4> HIDE DEF l
      <4>2. IsFiniteSet(1..l) /\ Cardinality(1..l) = IF 1 > l THEN 0 ELSE l - 1 + 1
        BY <4>1, FS_Interval DEF l
      <4> QED
        BY <4>1, <4>2 DEF l
    <3>2. I \in SUBSET (1..Len(known))
      BY <1>1
    <3> HIDE DEF I
    <3>3. IsFiniteSet(I) /\ n <= Len(known)
      BY <3>1, <3>2, FS_Subset
    <3>4. n \in Nat
      BY <3>3, FS_CardinalityType
    <3> QED
      BY <1>1, <3>3, <3>4
  <2> HIDE DEF n
  <2>3. v \in W
    BY <1>1, <1>3
  <2>7. /\ r \in Seq(W) /\ Len(r) = Len(known) + 1 /\ r[n + 1] = v
        /\ \A i \in 1..n : r[i] = known[i]
        /\ \A i \in (n + 1)..Len(known) : r[i + 1] = known[i]
    <3>1. Inserted(W, known, v, n, SubSeq(known, 1, n) \o <<v>> \o SubSeq(known, n + 1, Len(known)))
      <4> HIDE DEF I, r
      <4> QED
        BY <2>2, <2>3, InsertFacts
    <3>2. Inserted(W, known, v, n, r)
      BY <2>1, <3>1
    <3> HIDE DEF r
    <3> QED
      BY <3>2 DEF Inserted
  <2> HIDE DEF r
  <2>8. DOMAIN r = 1..(Len(known) + 1)
    BY <2>7
  <2>9. v \in Range(r)
    <3>1. n + 1 \in DOMAIN r /\ r[n + 1] = v
      BY <1>1, <2>2, <2>7, <2>8
    <3> QED
      BY <3>1 DEF Range
  <2>10. ASSUME NEW i \in DOMAIN known
         PROVE  known[i] \in Range(r)
    <3>1. CASE i <= n
      <4>1. i \in DOMAIN r /\ r[i] = known[i]
        BY <1>1, <2>2, <2>7, <2>8, <3>1
      <4> QED
        BY <4>1 DEF Range
    <3>2. CASE i > n
      <4>1. i \in (n + 1)..Len(known)
        BY <1>1, <2>2, <3>2
      <4>2. r[i + 1] = known[i]
        BY <2>7, <4>1
      <4>3. i + 1 \in DOMAIN r
        BY <1>1, <2>8
      <4> QED
        BY <4>2, <4>3 DEF Range
    <3> QED
      BY <1>1, <2>2, <3>1, <3>2
  <2> QED
    BY <2>7, <2>9, <2>10 DEF Range, r
<1> QED
  BY <1>2, <1>3

\* The recursion of WithSecrets is well defined.
LEMMA WithRecursion ==
    ASSUME NEW known, NEW vs, Len(vs) \in Nat
    PROVE  \E out : out = [i \in 0..Len(vs) |-> IF i = 0 THEN known ELSE WithSecret(out[i - 1], vs[i])]
<1> DEFINE T == {n \in Nat : \E out : out = [i \in 0..n |->
                   IF i = 0 THEN known ELSE WithSecret(out[i - 1], vs[i])]}
<1>1. 0 \in T
  <2>1. [i \in 0..0 |-> known] = [i \in 0..0 |->
           IF i = 0 THEN known ELSE WithSecret([j \in 0..0 |-> known][i - 1], vs[i])]
    OBVIOUS
  <2> QED
    BY <2>1
<1>2. ASSUME NEW n \in Nat, n \in T
      PROVE  n + 1 \in T
  <2>1. PICK g : g = [i \in 0..n |-> IF i = 0 THEN known ELSE WithSecret(g[i - 1], vs[i])]
    BY <1>2
  <2> DEFINE h == [i \in 0..(n + 1) |-> IF i = n + 1 THEN WithSecret(g[n], vs[n + 1]) ELSE g[i]]
  <2>2. ASSUME NEW i \in 0..(n + 1)
        PROVE  h[i] = IF i = 0 THEN known ELSE WithSecret(h[i - 1], vs[i])
    <3>1. CASE i = n + 1
      BY <3>1
    <3>2. CASE i # n + 1
      <4>1. i \in 0..n /\ (i # 0 => i - 1 \in 0..n /\ i - 1 # n + 1)
        BY <3>2
      <4> QED
        BY <2>1, <4>1
    <3> QED
      BY <3>1, <3>2
  <2>3. h = [i \in 0..(n + 1) |-> IF i = 0 THEN known ELSE WithSecret(h[i - 1], vs[i])]
    BY <2>2
  <2> HIDE DEF h
  <2> QED
    BY <2>3
<1> HIDE DEF T
<1>3. Len(vs) \in T
  BY <1>1, <1>2, Induction
<1> QED
  BY <1>3 DEF T

LEMMA WithEquation ==
    ASSUME NEW known, NEW vs, Len(vs) \in Nat
    PROVE  \E out : /\ WithSecrets(known, vs) = out[Len(vs)]
                    /\ out[0] = known
                    /\ \A i \in 1..Len(vs) : out[i] = WithSecret(out[i - 1], vs[i])
<1> DEFINE f == CHOOSE out : out = [i \in 0..Len(vs) |-> IF i = 0 THEN known ELSE WithSecret(out[i - 1], vs[i])]
<1>1. f = [i \in 0..Len(vs) |-> IF i = 0 THEN known ELSE WithSecret(f[i - 1], vs[i])]
  BY WithRecursion
<1>2. WithSecrets(known, vs) = f[Len(vs)]
  BY DEF WithSecrets
<1> HIDE DEF f
<1>3. f[0] = known /\ \A i \in 1..Len(vs) : f[i] = WithSecret(f[i - 1], vs[i])
  BY <1>1
<1> QED
  BY <1>2, <1>3

\* The same for several values.
LEMMA WithSecretsAdd ==
    ASSUME NEW W, NEW known \in Seq(W), NEW X, NEW vs \in Seq(X),
           \A v \in X : Len(v) \in Nat /\ (Len(v) >= MinSecretLen => v \in W)
    PROVE  LET r == WithSecrets(known, vs)
           IN  /\ r \in Seq(W) /\ Range(known) \subseteq Range(r)
               /\ \A k \in 1..Len(vs) : Len(vs[k]) >= MinSecretLen => vs[k] \in Range(r)
<1>1. Len(vs) \in Nat
  OBVIOUS
<1>2. PICK out : /\ WithSecrets(known, vs) = out[Len(vs)]
                 /\ out[0] = known
                 /\ \A i \in 1..Len(vs) : out[i] = WithSecret(out[i - 1], vs[i])
  BY <1>1, WithEquation
<1> DEFINE T == {i \in Nat : i <= Len(vs) =>
                   /\ out[i] \in Seq(W) /\ Range(known) \subseteq Range(out[i])
                   /\ \A k \in 1..i : Len(vs[k]) >= MinSecretLen => vs[k] \in Range(out[i])}
<1>3. 0 \in T
  BY <1>2
<1>4. ASSUME NEW n \in Nat, n \in T
      PROVE  n + 1 \in T
  <2> DEFINE x == out[n]
             y == out[n + 1]
             v == vs[n + 1]
  <2> SUFFICES ASSUME n + 1 <= Len(vs)
               PROVE  /\ y \in Seq(W) /\ Range(known) \subseteq Range(y)
                      /\ \A k \in 1..(n + 1) : Len(vs[k]) >= MinSecretLen => vs[k] \in Range(y)
    OBVIOUS
  <2>1. n + 1 \in 1..Len(vs) /\ (n + 1) - 1 = n /\ n <= Len(vs)
    BY <1>1
  <2>2. y = WithSecret(x, v)
    BY <1>2, <2>1
  <2>3. /\ x \in Seq(W) /\ Range(known) \subseteq Range(x)
        /\ \A k \in 1..n : Len(vs[k]) >= MinSecretLen => vs[k] \in Range(x)
    BY <1>4, <2>1
  <2>4. Len(v) \in Nat /\ (Len(v) >= MinSecretLen => v \in W)
    <3>1. v \in X
      BY <2>1
    <3> QED
      BY <3>1
  <2> HIDE DEF x, y
  <2>5. /\ y \in Seq(W) /\ Range(x) \subseteq Range(y)
        /\ Len(v) >= MinSecretLen => v \in Range(y)
    <3> HIDE DEF v
    <3>1. x \in Seq(W)
      BY <2>3
    <3> QED
      BY <2>2, <2>4, <3>1, WithSecretAdds
  <2>6. \A k \in 1..(n + 1) : k = n + 1 \/ k \in 1..n
    OBVIOUS
  <2> QED
    BY <2>3, <2>5, <2>6
<1> HIDE DEF T
<1>5. Len(vs) \in T
  BY <1>1, <1>3, <1>4, Induction
<1> QED
  BY <1>2, <1>5 DEF T

\* AddSecret registers every line that is long enough.
LEMMA AddSecretAdds ==
    ASSUME NEW V, NEW v \in Seq(V), NEW W, NEW known \in Seq(W),
           \A w \in Seq(V) : Len(w) >= MinSecretLen => w \in W
    PROVE  LET r == AddSecret(known, v)
           IN  /\ r \in Seq(W) /\ Range(known) \subseteq Range(r)
               /\ \A i, j \in 1..Len(v) : IsLine(v, i, j) => SubSeq(v, i, j) \in Range(r)
<1> DEFINE cut == Cut(v, Ends)
           p == cut[1]
           q == cut[2]
           X == Seq(V)
           fronts == [i \in DOMAIN p |-> Front(p[i])]
           vs == <<v>> \o fronts \o <<q>>
           r == AddSecret(known, v)
<1>1. CutOf(V, v, Ends, Len(v), cut)
  BY CutGives
<1> HIDE DEF cut
<1>2. /\ p \in Seq(X) /\ q \in X
      /\ \A n \in 1..Len(p) : p[n] # <<>> /\ p[n] \in X
      /\ \A a, e \in 1..Len(v) : LineAt(v, Ends, a, e) => \E n \in 1..Len(p) : p[n] = SubSeq(v, a, e)
      /\ Len(q) <= Len(v) /\ Len(q) \in Nat
      /\ \A m \in 1..Len(q) : q[m] = v[Len(v) - Len(q) + m] /\ q[m] \notin Ends
      /\ Len(q) = Len(v) \/ v[Len(v) - Len(q)] \in Ends
  <2>1. /\ p \in Seq(X) /\ q \in X
        /\ \A n \in 1..Len(p) : p[n] # <<>>
    BY <1>1 DEF CutOf
  <2>2. \A a, e \in 1..Len(v) : LineAt(v, Ends, a, e) => \E n \in 1..Len(p) : p[n] = SubSeq(v, a, e)
    BY <1>1 DEF CutOf
  <2>3. /\ Len(q) <= Len(v)
        /\ \A m \in 1..Len(q) : q[m] = v[Len(v) - Len(q) + m] /\ q[m] \notin Ends
        /\ Len(q) = Len(v) \/ v[Len(v) - Len(q)] \in Ends
    BY <1>1 DEF CutOf
  <2> HIDE DEF p, q
  <2>4. Len(q) \in Nat
    BY <2>1
  <2> HIDE DEF X
  <2>5. \A n \in 1..Len(p) : p[n] \in X
    BY <2>1
  <2> QED
    BY <2>1, <2>2, <2>3, <2>4, <2>5
<1>3. Len(v) \in Nat /\ Len(p) \in Nat /\ DOMAIN p = 1..Len(p) /\ MinSecretLen \in Nat \ {0}
  BY <1>2, OutputAssumption
<1>4. r = WithSecrets(known, vs)
  BY DEF AddSecret, cut
<1> HIDE DEF r, p, q
<1>5. \A n \in 1..Len(p) : Front(p[n]) \in X
  <2> SUFFICES ASSUME NEW n \in 1..Len(p), NEW x \in Seq(V), x = p[n], x # <<>>
               PROVE  Front(x) \in Seq(V)
    BY <1>2
  <2>1. Len(x) \in Nat \ {0}
    OBVIOUS
  <2> QED
    BY <2>1 DEF Front
<1>6. fronts \in Seq(X) /\ Len(fronts) = Len(p) /\ \A n \in 1..Len(p) : fronts[n] = Front(p[n])
  BY <1>3, <1>5
<1>7. v \in X /\ q \in X
  BY <1>2
<1> HIDE DEF X
<1>11. fronts \in Seq(X) /\ v \in X /\ q \in X
  BY <1>6, <1>7
<1> HIDE DEF fronts
<1>8. /\ vs \in Seq(X) /\ Len(vs) = Len(p) + 2
      /\ \A n \in 1..Len(p) : vs[n + 1] = fronts[n]
      /\ vs[Len(p) + 2] = q
  <2>1. /\ vs \in Seq(X) /\ Len(vs) = Len(fronts) + 2
        /\ \A n \in 1..Len(fronts) : vs[n + 1] = fronts[n]
        /\ vs[Len(fronts) + 2] = q
    BY <1>11, EnclosedFacts
  <2> HIDE DEF vs
  <2> QED
    BY <1>6, <2>1
<1> HIDE DEF vs
<1>9. \A w \in X : Len(w) \in Nat /\ (Len(w) >= MinSecretLen => w \in W)
  BY DEF X
<1>10. /\ r \in Seq(W) /\ Range(known) \subseteq Range(r)
       /\ \A k \in 1..Len(vs) : Len(vs[k]) >= MinSecretLen => vs[k] \in Range(r)
  BY <1>4, <1>8, <1>9, WithSecretsAdd
<1>12. ASSUME NEW i \in 1..Len(v), NEW j \in 1..Len(v), IsLine(v, i, j)
       PROVE  SubSeq(v, i, j) \in Range(r)
  <2> DEFINE l == SubSeq(v, i, j)
  <2>1. /\ j - i + 1 >= MinSecretLen
        /\ \A k \in i..j : v[k] \notin Ends
        /\ i = 1 \/ v[i - 1] \in Ends
        /\ j = Len(v) \/ v[j + 1] \in Ends
    BY <1>12 DEF IsLine
  <2>2. /\ l \in Seq(V) /\ Len(l) = j - i + 1
        /\ \A m \in 1..(j - i + 1) : l[m] = v[i + m - 1]
    BY <1>3, <2>1
  <2>3. \E k \in 1..Len(vs) : vs[k] = l
    <3>1. CASE j # Len(v)
      <4>1. j + 1 \in 1..Len(v) /\ i <= j + 1 /\ (j + 1) - 1 = j
        BY <1>3, <2>1, <3>1
      <4>2. LineAt(v, Ends, i, j + 1)
        BY <2>1, <3>1, <4>1 DEF LineAt
      <4>3. PICK n \in 1..Len(p) : p[n] = SubSeq(v, i, j + 1)
        BY <1>2, <4>1, <4>2
      <4>4. Front(SubSeq(v, i, j + 1)) = l
        <5> DEFINE x == SubSeq(v, i, j + 1)
        <5>1. x \in Seq(V) /\ Len(x) = j - i + 2 /\ \A m \in 1..(j - i + 2) : x[m] = v[i + m - 1]
          BY <1>3, <4>1
        <5> HIDE DEF x
        <5>2. /\ Front(x) \in Seq(V) /\ Len(Front(x)) = j - i + 1
              /\ \A m \in 1..(j - i + 1) : Front(x)[m] = x[m]
          BY <4>1, <5>1 DEF Front
        <5> HIDE DEF l
        <5>3. \A m \in 1..(j - i + 1) : Front(x)[m] = l[m]
          BY <2>2, <4>1, <5>1, <5>2
        <5>4. Front(x) = l
          BY <2>2, <5>2, <5>3, SameSequence
        <5> QED
          BY <5>4 DEF x
      <4>5. vs[n + 1] = l
        BY <1>6, <1>8, <4>3, <4>4
      <4>6. n + 1 \in 1..Len(vs)
        BY <1>3, <1>8
      <4> QED
        BY <4>5, <4>6
    <3>2. CASE j = Len(v)
      <4>1. i = Len(v) - Len(q) + 1
        <5>1. ~ (i < Len(v) - Len(q) + 1)
          <6> SUFFICES ASSUME i < Len(v) - Len(q) + 1
                       PROVE  FALSE
            OBVIOUS
          <6>1. v[Len(v) - Len(q)] \in Ends /\ Len(v) - Len(q) \in i..j
            BY <1>2, <1>3, <3>2
          <6> QED
            BY <2>1, <6>1
        <5>2. ~ (i > Len(v) - Len(q) + 1)
          <6> SUFFICES ASSUME i > Len(v) - Len(q) + 1
                       PROVE  FALSE
            OBVIOUS
          <6> DEFINE m == i - 1 - (Len(v) - Len(q))
          <6>1. m \in 1..Len(q) /\ Len(v) - Len(q) + m = i - 1 /\ i # 1
            BY <1>2, <1>3
          <6> HIDE DEF m
          <6>2. v[i - 1] \notin Ends
            <7>1. q[m] = v[Len(v) - Len(q) + m] /\ q[m] \notin Ends
              BY <1>2, <6>1
            <7> QED
              BY <6>1, <7>1
          <6> QED
            BY <2>1, <6>1, <6>2
        <5>3. Len(q) \in Nat /\ Len(v) \in Nat /\ i \in Int
          BY <1>2, <1>3
        <5> QED
          BY <5>1, <5>2, <5>3
      <4>2. Len(l) = Len(q) /\ \A m \in 1..Len(q) : l[m] = v[Len(v) - Len(q) + m]
        <5>1. \A m \in 1..Len(q) : i + m - 1 = Len(v) - Len(q) + m
          BY <1>2, <1>3, <4>1
        <5>2. j - i + 1 = Len(q)
          BY <1>2, <1>3, <3>2, <4>1
        <5> HIDE DEF l
        <5> QED
          BY <2>2, <5>1, <5>2
      <4> HIDE DEF l
      <4>3. q \in Seq(V)
        BY <1>7 DEF X
      <4>4. \A m \in 1..Len(q) : l[m] = q[m]
        BY <1>2, <4>2
      <4>5. l = q
        BY <2>2, <4>2, <4>3, <4>4, SameSequence
      <4>6. Len(p) + 2 \in 1..Len(vs)
        BY <1>3, <1>8
      <4> QED
        BY <1>8, <4>5, <4>6
    <3> QED
      BY <3>1, <3>2
  <2> HIDE DEF l
  <2>4. Len(l) >= MinSecretLen
    BY <1>3, <2>1, <2>2
  <2>5. l \in Range(r)
    BY <1>10, <2>3, <2>4
  <2> QED
    BY <2>5 DEF l
<1> QED
  BY <1>10, <1>12 DEF r

\* The recursion of Registered is well defined.
LEMMA RegisteredRecursion ==
    ASSUME Len(Values) \in Nat, NEW z
    PROVE  \E out : out = [i \in 0..Len(Values) |-> IF i = 0 THEN z ELSE AddSecret(out[i - 1], Values[i])]
<1> DEFINE T == {n \in Nat : \E out : out = [i \in 0..n |->
                   IF i = 0 THEN z ELSE AddSecret(out[i - 1], Values[i])]}
<1>1. 0 \in T
  <2>1. [i \in 0..0 |-> z] = [i \in 0..0 |->
           IF i = 0 THEN z ELSE AddSecret([j \in 0..0 |-> z][i - 1], Values[i])]
    OBVIOUS
  <2> QED
    BY <2>1
<1>2. ASSUME NEW n \in Nat, n \in T
      PROVE  n + 1 \in T
  <2>1. PICK g : g = [i \in 0..n |-> IF i = 0 THEN z ELSE AddSecret(g[i - 1], Values[i])]
    BY <1>2
  <2> DEFINE h == [i \in 0..(n + 1) |-> IF i = n + 1 THEN AddSecret(g[n], Values[n + 1]) ELSE g[i]]
  <2>2. ASSUME NEW i \in 0..(n + 1)
        PROVE  h[i] = IF i = 0 THEN z ELSE AddSecret(h[i - 1], Values[i])
    <3>1. CASE i = n + 1
      BY <3>1
    <3>2. CASE i # n + 1
      <4>1. i \in 0..n /\ (i # 0 => i - 1 \in 0..n /\ i - 1 # n + 1)
        BY <3>2
      <4> QED
        BY <2>1, <4>1
    <3> QED
      BY <3>1, <3>2
  <2>3. h = [i \in 0..(n + 1) |-> IF i = 0 THEN z ELSE AddSecret(h[i - 1], Values[i])]
    BY <2>2
  <2> HIDE DEF h
  <2> QED
    BY <2>3
<1> HIDE DEF T
<1>3. Len(Values) \in T
  BY <1>1, <1>2, Induction
<1> QED
  BY <1>3 DEF T

LEMMA RegisteredEquation ==
    ASSUME Len(Values) \in Nat
    PROVE  \E out : /\ Registered = out[Len(Values)]
                    /\ out[0] = <<>>
                    /\ \A i \in 1..Len(Values) : out[i] = AddSecret(out[i - 1], Values[i])
<1> DEFINE z == <<>>
<1> DEFINE f == CHOOSE out : out = [i \in 0..Len(Values) |-> IF i = 0 THEN z ELSE AddSecret(out[i - 1], Values[i])]
<1> HIDE DEF z
<1>1. f = [i \in 0..Len(Values) |-> IF i = 0 THEN z ELSE AddSecret(f[i - 1], Values[i])]
  BY RegisteredRecursion
<1>2. Registered = f[Len(Values)]
  BY DEF Registered, z
<1> HIDE DEF f
<1>3. f[0] = z /\ \A i \in 1..Len(Values) : f[i] = AddSecret(f[i - 1], Values[i])
  BY <1>1
<1> QED
  BY <1>2, <1>3 DEF z


\* The symbols of the values, and the texts over them that are long enough to be masked.
ValueSymbols == UNION {Range(v) : v \in Range(Values)}
Maskable == {w \in Seq(ValueSymbols) : Len(w) >= MinSecretLen}

\* No value contains a label or the placeholder.
ApartFromOutput == ValueSymbols \cap (Hosts \cup {Filtered}) = {}

\* Every line that must be hidden is registered.
LEMMA RegisteredHas ==
    Registered \in Seq(Maskable) /\ Promised \subseteq Range(Registered)
<1> DEFINE V == ValueSymbols
           W == Maskable
<1>1. Values \in Seq(Range(Values)) /\ Len(Values) \in Nat /\ MinSecretLen \in Nat \ {0}
  BY OutputAssumption
<1>2. ASSUME NEW i \in 1..Len(Values)
      PROVE  Values[i] \in Seq(V) /\ Values[i] \in Range(Values)
  <2> DEFINE v == Values[i]
  <2>1. v \in Range(Values)
    BY <1>1 DEF Range
  <2>2. v \in Seq(Range(v))
    BY <2>1, OutputAssumption
  <2>3. Range(v) \subseteq V
    BY <2>1 DEF ValueSymbols
  <2> HIDE DEF v, V
  <2>4. v \in Seq(V)
    <3>1. Len(v) \in Nat /\ v \in [1..Len(v) -> Range(v)]
      BY <2>2
    <3>2. v \in [1..Len(v) -> V]
      BY <2>3, <3>1
    <3> QED
      BY <3>1, <3>2
  <2> QED
    BY <2>1, <2>4 DEF v
<1>3. \A w \in Seq(V) : Len(w) >= MinSecretLen => w \in W
  BY DEF Maskable
<1> HIDE DEF V, W
<1>4. PICK out : /\ Registered = out[Len(Values)]
                 /\ out[0] = <<>>
                 /\ \A i \in 1..Len(Values) : out[i] = AddSecret(out[i - 1], Values[i])
  BY <1>1, RegisteredEquation
<1> DEFINE Has(r, v) == \A a, e \in 1..Len(v) : IsLine(v, a, e) => SubSeq(v, a, e) \in Range(r)
           T == {n \in Nat : n <= Len(Values) =>
                   out[n] \in Seq(W) /\ \A i \in 1..n : Has(out[n], Values[i])}
<1>5. 0 \in T
  <2> HIDE DEF Has
  <2>1. out[0] \in Seq(W)
    BY <1>4
  <2> QED
    BY <2>1
<1>6. ASSUME NEW n \in Nat, n \in T
      PROVE  n + 1 \in T
  <2> DEFINE x == out[n]
             y == out[n + 1]
             v == Values[n + 1]
  <2> HIDE DEF Has
  <2> SUFFICES ASSUME n + 1 <= Len(Values)
               PROVE  y \in Seq(W) /\ \A i \in 1..(n + 1) : Has(y, Values[i])
    OBVIOUS
  <2>1. n + 1 \in 1..Len(Values) /\ (n + 1) - 1 = n /\ n <= Len(Values)
    BY <1>1
  <2>2. y = AddSecret(x, v)
    BY <1>4, <2>1
  <2>3. x \in Seq(W) /\ \A i \in 1..n : Has(x, Values[i])
    BY <1>6, <2>1
  <2>4. v \in Seq(V)
    BY <1>2, <2>1
  <2> HIDE DEF x, y, v
  <2>5. y \in Seq(W) /\ Range(x) \subseteq Range(y) /\ Has(y, v)
    <3>1. x \in Seq(W)
      BY <2>3
    <3> USE DEF Has
    <3> QED
      BY <1>3, <2>2, <2>4, <3>1, AddSecretAdds
  <2>6. \A i \in 1..n : Has(y, Values[i])
    <3> TAKE i \in 1..n
    <3>1. Has(x, Values[i])
      BY <2>3
    <3> QED
      BY <2>5, <3>1 DEF Has
  <2>7. \A i \in 1..(n + 1) : i = n + 1 \/ i \in 1..n
    OBVIOUS
  <2> QED
    BY <2>5, <2>6, <2>7 DEF v
<1> HIDE DEF T
<1>7. Len(Values) \in T
  BY <1>1, <1>5, <1>6, Induction
<1>8. Registered \in Seq(W) /\ \A i \in 1..Len(Values) : Has(Registered, Values[i])
  BY <1>1, <1>4, <1>7 DEF T
<1>9. ASSUME NEW l \in Promised
      PROVE  l \in Range(Registered)
  <2>1. PICK v \in Range(Values) : \E a, e \in DOMAIN v : IsLine(v, a, e) /\ l = SubSeq(v, a, e)
    BY <1>9 DEF Promised
  <2>2. PICK i \in 1..Len(Values) : v = Values[i]
    <3>1. DOMAIN Values = 1..Len(Values)
      BY <1>1
    <3> QED
      BY <3>1 DEF Range
  <2>3. v \in Seq(V)
    BY <1>2, <2>2
  <2>4. DOMAIN v = 1..Len(v)
    BY <2>3
  <2> QED
    BY <1>8, <2>1, <2>2, <2>4
<1> QED
  BY <1>8, <1>9 DEF W

-----------------------------------------------------------------------------
(* Clean text                                                              *)

\* What no value contains: after it a value can only begin.
Stops == Ends \cup {Filtered} \cup Hosts

\* s shows no secret and does not end in the middle of one.
Ending(s) == s \in Seq(Symbols) /\ (s # <<>> => s[Len(s)] \in Stops)
Clean(s) == Ending(s) /\ \A v \in Promised : Free(v, s)

LEMMA PromisedFacts ==
    ASSUME ApartFromOutput, NEW v \in Promised
    PROVE  /\ v \in Seq(ValueSymbols) /\ Len(v) \in Nat \ {0} /\ DOMAIN v = 1..Len(v)
           /\ \A k \in 1..Len(v) : v[k] \notin Stops
<1>1. v \in Range(Registered) /\ Registered \in Seq(Maskable)
  BY RegisteredHas
<1>2. v \in Maskable
  <2>1. DOMAIN Registered = 1..Len(Registered)
    BY <1>1
  <2> QED
    BY <1>1, <2>1 DEF Range
<1>3. v \in Seq(ValueSymbols) /\ Len(v) >= MinSecretLen /\ MinSecretLen \in Nat \ {0}
  BY <1>2, OutputAssumption DEF Maskable
<1>4. Len(v) \in Nat \ {0} /\ DOMAIN v = 1..Len(v)
  BY <1>3
<1>5. PICK u \in Range(Values) : \E a, e \in DOMAIN u : IsLine(u, a, e) /\ v = SubSeq(u, a, e)
  BY DEF Promised
<1>6. PICK a \in DOMAIN u, e \in DOMAIN u : IsLine(u, a, e) /\ v = SubSeq(u, a, e)
  BY <1>5
<1>7. ASSUME NEW k \in 1..Len(v)
      PROVE  v[k] \notin Stops
  <2>1. v[k] \in ValueSymbols
    BY <1>3, <1>4
  <2>2. u \in Seq(Range(u))
    BY OutputAssumption
  <2> HIDE DEF ValueSymbols
  <2>3. /\ Len(u) \in Nat /\ DOMAIN u = 1..Len(u)
        /\ Len(v) = e - a + 1 /\ v[k] = u[a + k - 1]
    <3>1. DOMAIN u = 1..Len(u) /\ Len(u) \in Nat
      BY <2>2
    <3>2. a \in 1..(Len(u) + 1) /\ e \in 0..Len(u) /\ a <= e + 1
      BY <1>3, <1>6, <3>1 DEF IsLine
    <3>3. /\ Len(SubSeq(u, a, e)) = e - a + 1
          /\ \A m \in 1..(e - a + 1) : SubSeq(u, a, e)[m] = u[a + m - 1]
      <4> DEFINE U == Range(u)
      <4>1. u \in Seq(U)
        BY <2>2
      <4> HIDE DEF U
      <4>2. a \in Int /\ e \in Int
        BY <3>1
      <4> QED
        BY <3>2, <4>1, <4>2
    <3> QED
      BY <1>6, <3>1, <3>3
  <2>4. a + k - 1 \in a..e
    BY <1>4, <1>6, <2>3
  <2>5. v[k] \notin Ends
    BY <1>6, <2>3, <2>4 DEF IsLine
  <2> QED
    BY <2>1, <2>5 DEF ApartFromOutput, Stops
<1> QED
  BY <1>3, <1>4, <1>7

\* A value does not begin in one clean text and end in the next.
LEMMA CleanConcat ==
    ASSUME ApartFromOutput, NEW a, Clean(a), NEW b, Clean(b)
    PROVE  Clean(a \o b)
<1> DEFINE c == a \o b
<1>1. a \in Seq(Symbols) /\ b \in Seq(Symbols)
  BY DEF Clean, Ending
<1>2. /\ c \in Seq(Symbols) /\ Len(a) \in Nat /\ Len(b) \in Nat /\ Len(c) = Len(a) + Len(b)
      /\ \A m \in 1..Len(a) : c[m] = a[m]
      /\ \A m \in 1..Len(b) : c[Len(a) + m] = b[m]
  BY <1>1, ConcatFacts
<1>3. a = <<>> \/ (Len(a) > 0 /\ a[Len(a)] \in Stops)
  BY <1>1 DEF Clean, Ending
<1>4. b = <<>> \/ (Len(b) > 0 /\ b[Len(b)] \in Stops)
  BY <1>1 DEF Clean, Ending
<1> HIDE DEF c
<1>5. c # <<>> => c[Len(c)] \in Stops
  <2>1. CASE Len(b) > 0
    <3>1. Len(b) \in 1..Len(b) /\ b # <<>>
      BY <1>1, <1>2, <2>1
    <3> QED
      BY <1>2, <1>4, <3>1
  <2>2. CASE Len(b) = 0
    <3>1. CASE Len(a) > 0
      <4>1. Len(a) \in 1..Len(a) /\ Len(c) = Len(a) /\ a # <<>>
        BY <1>1, <1>2, <2>2, <3>1
      <4> QED
        BY <1>2, <1>3, <4>1
    <3>2. CASE Len(a) = 0
      BY <1>2, <2>2, <3>2
    <3> QED
      BY <1>2, <3>1, <3>2
  <2> QED
    BY <1>2, <2>1, <2>2
<1>6. ASSUME NEW v \in Promised, NEW j \in 0..Len(c), OccursAt(v, c, j)
      PROVE  FALSE
  <2>1. /\ v \in Seq(ValueSymbols) /\ Len(v) \in Nat \ {0} /\ DOMAIN v = 1..Len(v)
        /\ \A k \in 1..Len(v) : v[k] \notin Stops
    BY PromisedFacts
  <2>2. j + Len(v) <= Len(c) /\ \A k \in 1..Len(v) : c[j + k] = v[k]
    BY <1>6, <2>1 DEF OccursAt
  <2>3. Free(v, a) /\ Free(v, b)
    BY DEF Clean
  <2>4. CASE j + Len(v) <= Len(a)
    <3>1. \A k \in 1..Len(v) : j + k \in 1..Len(a)
      BY <1>2, <2>1, <2>4
    <3>2. \A k \in 1..Len(v) : a[j + k] = v[k]
      BY <1>2, <2>2, <3>1
    <3>3. j \in 0..Len(a)
      BY <1>2, <2>1, <2>4
    <3> QED
      BY <2>1, <2>3, <2>4, <3>2, <3>3 DEF Free, OccursAt
  <2>5. CASE j >= Len(a)
    <3> DEFINE i == j - Len(a)
    <3>1. i \in 0..Len(b) /\ i + Len(v) <= Len(b)
      BY <1>2, <2>1, <2>2, <2>5
    <3>2. \A k \in 1..Len(v) : i + k \in 1..Len(b) /\ Len(a) + (i + k) = j + k
      <4>1. i \in Int /\ j = Len(a) + i /\ Len(v) \in Nat /\ Len(a) \in Nat /\ Len(b) \in Nat
        BY <1>2, <2>1
      <4> HIDE DEF i
      <4> QED
        BY <3>1, <4>1
    <3> HIDE DEF i
    <3>3. \A k \in 1..Len(v) : b[i + k] = v[k]
      BY <1>2, <2>2, <3>2
    <3> QED
      BY <2>1, <2>3, <3>1, <3>3 DEF Free, OccursAt
  <2>6. CASE j < Len(a) /\ j + Len(v) > Len(a)
    <3> DEFINE k == Len(a) - j
    <3>1. k \in 1..Len(v) /\ j + k = Len(a) /\ Len(a) \in 1..Len(a) /\ a # <<>>
      BY <1>1, <1>2, <2>1, <2>6
    <3> HIDE DEF k
    <3>2. v[k] = a[Len(a)]
      BY <1>2, <2>2, <3>1
    <3> QED
      BY <1>3, <2>1, <3>1, <3>2
  <2> QED
    BY <1>2, <2>1, <2>4, <2>5, <2>6
<1> QED
  BY <1>2, <1>5, <1>6 DEF Clean, Ending, Free, c

\* What masking leaves is clean.
LEMMA MaskedClean ==
    ASSUME ApartFromOutput, secrets = Registered, NEW s, Ending(s)
    PROVE  Clean(Masked(s)) /\ (s = <<>> => Masked(s) = <<>>)
<1> DEFINE y == ReplaceEach(Registered, s)
           V == ValueSymbols
<1>1. Filtered \in Symbols /\ s \in Seq(Symbols) /\ (s # <<>> => s[Len(s)] \in Stops)
  BY DEF Symbols, Ending
<1>2. Registered \in Seq(Maskable) /\ Promised \subseteq Range(Registered)
  BY RegisteredHas
<1>3. ASSUME NEW v \in Maskable
      PROVE  v \in Seq(V) /\ Plain(v)
  <2>1. v \in Seq(V) /\ Len(v) >= MinSecretLen /\ MinSecretLen \in Nat \ {0}
    BY OutputAssumption DEF Maskable
  <2> HIDE DEF V
  <2>2. v # <<>>
    BY <2>1
  <2>3. Filtered \notin V
    BY DEF ApartFromOutput, V
  <2>4. Filtered \notin Range(v)
    BY <2>1, <2>3 DEF Range
  <2> QED
    BY <2>1, <2>2, <2>4 DEF Plain
<1> HIDE DEF V
<1>4. /\ y \in Seq(Symbols)
      /\ \A k \in 1..Len(Registered) : Free(Registered[k], y)
      /\ s = <<>> => y = <<>>
      /\ s # <<>> => y # <<>> /\ y[Len(y)] \in {s[Len(s)], Filtered}
  BY <1>1, <1>2, <1>3, EachHides
<1> HIDE DEF y
<1>5. Ending(y)
  BY <1>1, <1>4 DEF Ending, Stops
<1>6. ASSUME NEW v \in Promised
      PROVE  Free(v, y)
  <2>1. PICK k \in 1..Len(Registered) : v = Registered[k]
    <3>1. DOMAIN Registered = 1..Len(Registered)
      BY <1>2
    <3> QED
      BY <1>2, <3>1 DEF Range
  <2> QED
    BY <1>4, <2>1
<1> QED
  BY <1>4, <1>5, <1>6 DEF Clean, Masked, y

LEMMA EmptyClean ==
    ASSUME ApartFromOutput
    PROVE  Clean(<<>>)
<1> DEFINE e == <<>>
<1>1. e \in Seq(Symbols) /\ Len(e) = 0
  OBVIOUS
<1> SUFFICES Clean(e)
  OBVIOUS
<1>2. Ending(e)
  BY <1>1 DEF Ending
<1> HIDE DEF e
<1>3. ASSUME NEW v \in Promised
      PROVE  Free(v, e)
  <2>1. Len(v) \in Nat \ {0}
    BY PromisedFacts
  <2> QED
    BY <1>1, <2>1 DEF Free, OccursAt
<1> QED
  BY <1>2, <1>3 DEF Clean

Joined(x, y) == x \o y

\* The recursion of FlattenSeq is well defined.
LEMMA FlattenRecursion ==
    ASSUME NEW s, NEW n \in Nat
    PROVE  \E out : out = [i \in 1..n |-> IF i = 1 THEN s[i] ELSE Joined(out[i - 1], s[i])]
<1> DEFINE T == {m \in Nat : \E out : out = [i \in 1..m |->
                   IF i = 1 THEN s[i] ELSE Joined(out[i - 1], s[i])]}
<1>1. 0 \in T
  <2>1. [i \in 1..0 |-> s[i]] = [i \in 1..0 |->
           IF i = 1 THEN s[i] ELSE Joined([j \in 1..0 |-> s[j]][i - 1], s[i])]
    OBVIOUS
  <2> QED
    BY <2>1
<1>2. ASSUME NEW m \in Nat, m \in T
      PROVE  m + 1 \in T
  <2>1. PICK g : g = [i \in 1..m |-> IF i = 1 THEN s[i] ELSE Joined(g[i - 1], s[i])]
    BY <1>2
  <2> DEFINE top == IF m = 0 THEN s[1] ELSE Joined(g[m], s[m + 1])
  <2>4. top = IF m = 0 THEN s[1] ELSE Joined(g[m], s[m + 1])
    OBVIOUS
  <2> HIDE DEF top
  <2> DEFINE h == [i \in 1..(m + 1) |-> IF i = m + 1 THEN top ELSE g[i]]
  <2>2. ASSUME NEW i \in 1..(m + 1)
        PROVE  h[i] = IF i = 1 THEN s[i] ELSE Joined(h[i - 1], s[i])
    <3>1. CASE i = m + 1
      <4>1. CASE m = 0
        BY <2>4, <3>1, <4>1
      <4>2. CASE m # 0
        <5>1. i # 1 /\ i - 1 = m /\ m \in 1..(m + 1) /\ m # m + 1
          BY <3>1, <4>2
        <5>2. h[i - 1] = g[m] /\ h[i] = top
          BY <3>1, <5>1
        <5> QED
          BY <2>4, <3>1, <4>2, <5>1, <5>2
      <4> QED
        BY <4>1, <4>2
    <3>2. CASE i # m + 1
      <4>1. i \in 1..m /\ (i # 1 => i - 1 \in 1..m /\ i - 1 # m + 1)
        BY <3>2
      <4> QED
        BY <2>1, <4>1
    <3> QED
      BY <3>1, <3>2
  <2>3. h = [i \in 1..(m + 1) |-> IF i = 1 THEN s[i] ELSE Joined(h[i - 1], s[i])]
    BY <2>2
  <2> HIDE DEF h
  <2> QED
    BY <2>3
<1> HIDE DEF T
<1>3. n \in T
  BY <1>1, <1>2, Induction
<1> QED
  BY <1>3 DEF T

FlattenSteps(s, out) ==
    /\ FlattenSeq(s) = out[Len(s)]
    /\ out[1] = s[1]
    /\ \A i \in 2..Len(s) : out[i] = Joined(out[i - 1], s[i])

LEMMA FlattenEquation ==
    ASSUME NEW s, Len(s) \in Nat \ {0}
    PROVE  \E out : FlattenSteps(s, out)
<1> DEFINE f == CHOOSE out : out = [i \in 1..Len(s) |-> IF i = 1 THEN s[i] ELSE Joined(out[i - 1], s[i])]
<1>1. f = [i \in 1..Len(s) |-> IF i = 1 THEN s[i] ELSE Joined(f[i - 1], s[i])]
  BY FlattenRecursion
<1>2. FlattenSeq(s) = f[Len(s)]
  BY DEF FlattenSeq, Joined
<1> HIDE DEF f
<1>3. f[1] = s[1] /\ \A i \in 2..Len(s) : f[i] = Joined(f[i - 1], s[i])
  BY <1>1
<1>4. FlattenSteps(s, f)
  BY <1>2, <1>3 DEF FlattenSteps
<1> QED
  BY <1>4

\* Clean texts one after the other.
LEMMA CleanFlatten ==
    ASSUME ApartFromOutput, NEW n \in Nat, NEW s, s = [i \in 1..n |-> s[i]],
           \A i \in 1..n : Clean(s[i])
    PROVE  Clean(FlattenSeq(s))
<1>1. Len(s) = n
  OBVIOUS
<1>2. CASE n = 0
  <2>1. FlattenSeq(s) = s
    BY <1>1, <1>2 DEF FlattenSeq
  <2>2. s = <<>>
    BY <1>2
  <2> QED
    BY <2>1, <2>2, EmptyClean
<1>3. CASE n # 0
  <2>0. Len(s) \in Nat \ {0}
    BY <1>1, <1>3
  <2>a. PICK out : FlattenSteps(s, out)
    BY <2>0, FlattenEquation
  <2>1. /\ FlattenSeq(s) = out[n]
        /\ out[1] = s[1]
        /\ \A i \in 2..n : out[i] = Joined(out[i - 1], s[i])
    BY <1>1, <2>a DEF FlattenSteps
  <2> DEFINE T == {i \in Nat : i + 1 <= n => Clean(out[i + 1])}
  <2>2. 0 \in T
    BY <1>3, <2>1
  <2>3. ASSUME NEW i \in Nat, i \in T
        PROVE  i + 1 \in T
    <3> SUFFICES ASSUME (i + 1) + 1 <= n
                 PROVE  Clean(out[(i + 1) + 1])
      OBVIOUS
    <3>1. (i + 1) + 1 \in 2..n /\ ((i + 1) + 1) - 1 = i + 1 /\ i + 1 <= n
      OBVIOUS
    <3>2. Clean(out[i + 1]) /\ Clean(s[(i + 1) + 1])
      BY <2>3, <3>1
    <3>3. out[(i + 1) + 1] = Joined(out[i + 1], s[(i + 1) + 1])
      BY <2>1, <3>1
    <3> QED
      BY <3>2, <3>3, CleanConcat DEF Joined
  <2> HIDE DEF T
  <2>4. n - 1 \in Nat /\ n - 1 \in T
    BY <1>3, <2>2, <2>3, Induction
  <2>5. (n - 1) + 1 = n
    OBVIOUS
  <2> QED
    BY <2>1, <2>4, <2>5 DEF T
<1> QED
  BY <1>2, <1>3

-----------------------------------------------------------------------------
(* What the masking writer adds to the console                             *)

LEMMA DivFacts ==
    ASSUME NEW n \in Nat, NEW d \in Nat \ {0}
    PROVE  n \div d \in Nat /\ (n \div d) * d <= n
  OBVIOUS

\* The place of a chunk of d symbols.
LEMMA ChunkFacts ==
    ASSUME NEW n \in Nat, NEW d \in Nat \ {0}, NEW k \in Nat, k * d <= n, NEW i \in 1..k
    PROVE  /\ (i - 1) * d + 1 \in 1..(n + 1) /\ i * d \in 0..n /\ (i - 1) * d + 1 <= i * d + 1
           /\ i * d - ((i - 1) * d + 1) + 1 = d
<1>1. (i - 1) * d = i * d - d
  OBVIOUS
<1>2. i * d <= k * d /\ i * d \in Nat /\ d <= i * d
  <2>1. i * d \in Nat /\ k * d \in Nat
    OBVIOUS
  <2>2. k * d - i * d = (k - i) * d
    OBVIOUS
  <2>3. (k - i) * d >= 0
    OBVIOUS
  <2>4. (i - 1) * d >= 0
    OBVIOUS
  <2> QED
    BY <1>1, <2>1, <2>2, <2>3, <2>4
<1> QED
  BY <1>1, <1>2

LEMMA ChunkPart ==
    ASSUME NEW S, NEW s \in Seq(S), NEW d \in Nat \ {0}, NEW k \in Nat, k * d <= Len(s), NEW i \in 1..k
    PROVE  SubSeq(s, (i - 1) * d + 1, i * d) \in Seq(S)
<1>1. Len(s) \in Nat
  OBVIOUS
<1>2. (i - 1) * d + 1 \in 1..(Len(s) + 1) /\ i * d \in 0..Len(s) /\ (i - 1) * d + 1 <= i * d + 1
  BY <1>1, ChunkFacts
<1>3. ASSUME NEW x \in 1..(Len(s) + 1), NEW y \in 0..Len(s), x <= y + 1
      PROVE  SubSeq(s, x, y) \in Seq(S)
  BY <1>1, <1>3
<1> QED
  BY <1>2, <1>3

\* A sequence whose members are all in T.
LEMMA Narrow ==
    ASSUME NEW S, NEW s \in Seq(S), NEW T, \A m \in 1..Len(s) : s[m] \in T
    PROVE  s \in Seq(T)
  OBVIOUS

LEMMA LabelsEnding ==
    ASSUME NEW s \in Seq(Hosts)
    PROVE  Ending(s)
<1>1. s \in Seq(Symbols)
  <2>1. Hosts \subseteq Symbols
    BY DEF Symbols
  <2> HIDE DEF Symbols
  <2> QED
    BY <2>1
<1>2. s # <<>> => s[Len(s)] \in Hosts
  OBVIOUS
<1> QED
  BY <1>1, <1>2 DEF Ending, Stops

LEMMA EndingConcat ==
    ASSUME NEW a, Ending(a), NEW b, Ending(b)
    PROVE  Ending(a \o b)
<1> DEFINE c == a \o b
<1>1. a \in Seq(Symbols) /\ b \in Seq(Symbols)
  BY DEF Ending
<1>2. /\ c \in Seq(Symbols) /\ Len(a) \in Nat /\ Len(b) \in Nat /\ Len(c) = Len(a) + Len(b)
      /\ \A m \in 1..Len(a) : c[m] = a[m]
      /\ \A m \in 1..Len(b) : c[Len(a) + m] = b[m]
  BY <1>1, ConcatFacts
<1>3. a = <<>> \/ (Len(a) > 0 /\ a[Len(a)] \in Stops)
  BY <1>1 DEF Ending
<1>4. b = <<>> \/ (Len(b) > 0 /\ b[Len(b)] \in Stops)
  BY <1>1 DEF Ending
<1> HIDE DEF c
<1>5. c # <<>> => c[Len(c)] \in Stops
  <2>1. CASE Len(b) > 0
    <3>1. Len(b) \in 1..Len(b) /\ b # <<>>
      BY <1>1, <1>2, <2>1
    <3> QED
      BY <1>2, <1>4, <3>1
  <2>2. CASE Len(b) = 0
    <3>1. CASE Len(a) > 0
      <4>1. Len(a) \in 1..Len(a) /\ Len(c) = Len(a) /\ a # <<>>
        BY <1>1, <1>2, <2>2, <3>1
      <4> QED
        BY <1>2, <1>3, <4>1
    <3>2. CASE Len(a) = 0
      BY <1>2, <2>2, <3>2
    <3> QED
      BY <1>2, <3>1, <3>2
  <2> QED
    BY <1>2, <2>1, <2>2
<1> QED
  BY <1>2, <1>5 DEF Ending, c

\* One write of a LineWriter: a label, or a line with its end.
OneWrite(text) ==
    /\ text \in Seq(Symbols) /\ text # <<>>
    /\ text[Len(text)] = Newline \/ text \in Seq(Hosts)

LEMMA WrittenEnding ==
    ASSUME NEW text, OneWrite(text)
    PROVE  Ending(text)
  BY LabelsEnding DEF OneWrite, Ending, Stops, Ends

\* The masked lines of a text, one after the other.
LEMMA CleanPieces ==
    ASSUME ApartFromOutput, secrets = Registered, NEW X, NEW p \in Seq(X),
           \A n \in 1..Len(p) : Ending(p[n])
    PROVE  Clean(FlattenSeq([i \in DOMAIN p |-> Masked(p[i])]))
<1> DEFINE n == Len(p)
           s == [i \in 1..n |-> Masked(p[i])]
<1>1. n \in Nat /\ DOMAIN p = 1..n
  OBVIOUS
<1>2. \A i \in 1..n : Clean(Masked(p[i]))
  BY MaskedClean
<1> HIDE DEF n
<1>3. \A i \in 1..n : Clean(s[i])
  BY <1>2
<1>4. s = [i \in 1..n |-> s[i]]
  OBVIOUS
<1> HIDE DEF s
<1>5. Clean(FlattenSeq(s))
  BY <1>1, <1>3, <1>4, CleanFlatten
<1> QED
  BY <1>1, <1>5 DEF s

\* How the masking writer cuts its text.
LEMMA MaskingCut ==
    ASSUME NEW b \in Seq(Symbols)
    PROVE  LET c == Cut(b, Ends)
           IN  /\ c[1] \in Seq(Seq(Symbols)) /\ c[2] \in Seq(Symbols)
               /\ \A n \in 1..Len(c[1]) : Ending(c[1][n])
               /\ Len(c[2]) <= Len(b)
               /\ \A m \in 1..Len(c[2]) : c[2][m] = b[Len(b) - Len(c[2]) + m] /\ c[2][m] \notin Ends
<1> DEFINE c == Cut(b, Ends)
           p == c[1]
           q == c[2]
<1>1. CutOf(Symbols, b, Ends, Len(b), c)
  BY CutGives
<1> HIDE DEF c
<1>2. /\ p \in Seq(Seq(Symbols)) /\ q \in Seq(Symbols) /\ Len(q) <= Len(b)
      /\ \A m \in 1..Len(q) : q[m] = b[Len(b) - Len(q) + m] /\ q[m] \notin Ends
      /\ \A n \in 1..Len(p) : p[n] # <<>> /\ p[n][Len(p[n])] \in Ends
  BY <1>1 DEF CutOf
<1> HIDE DEF p, q
<1>3. ASSUME NEW n \in 1..Len(p)
      PROVE  Ending(p[n])
  BY <1>2 DEF Ending, Stops
<1> QED
  BY <1>2, <1>3 DEF c, p, q

\* One write of a LineWriter through the masking writer.
LEMMA MaskingWriteKeeps ==
    ASSUME ApartFromOutput, secrets = Registered, mask \in Seq(Hosts), Clean(console),
           NEW text, OneWrite(text), MaskingWrite(text)
    PROVE  mask' \in Seq(Hosts) /\ Clean(console')
<1> DEFINE b == mask \o text
           cut == Cut(b, Ends)
           p == cut[1]
           q == cut[2]
           k == Len(q) \div MaxLine
           chunk(i) == SubSeq(q, (i - 1) * MaxLine + 1, i * MaxLine)
           chunks == [i \in 1..k |-> chunk(i)]
           pieces == p \o chunks
           shown == FlattenSeq([i \in DOMAIN pieces |-> Masked(pieces[i])])
           rest == SubSeq(q, k * MaxLine + 1, Len(q))
<1>1. console' = console \o shown /\ mask' = rest
  BY DEF MaskingWrite
<1>2. Ending(mask) /\ Ending(text) /\ mask \in Seq(Symbols) /\ text \in Seq(Symbols)
  BY LabelsEnding, WrittenEnding DEF Ending
<1>3. /\ b \in Seq(Symbols) /\ Len(mask) \in Nat /\ Len(text) \in Nat /\ Len(b) = Len(mask) + Len(text)
      /\ \A m \in 1..Len(mask) : b[m] = mask[m]
      /\ \A m \in 1..Len(text) : b[Len(mask) + m] = text[m]
  BY <1>2, ConcatFacts
<1> HIDE DEF b
<1>4. /\ p \in Seq(Seq(Symbols)) /\ q \in Seq(Symbols)
      /\ \A n \in 1..Len(p) : Ending(p[n])
      /\ Len(q) <= Len(b)
      /\ \A m \in 1..Len(q) : q[m] = b[Len(b) - Len(q) + m] /\ q[m] \notin Ends
  BY <1>3, MaskingCut
<1> HIDE DEF cut, p, q
<1>5. q \in Seq(Hosts)
  <2>1. Len(q) \in Nat /\ Len(b) \in Nat
    BY <1>3, <1>4
  <2>2. CASE text[Len(text)] = Newline
    <3>1. Len(text) \in 1..Len(text)
      BY <1>2, <1>3 DEF OneWrite
    <3>2. b[Len(b)] = Newline
      BY <1>3, <2>2, <3>1
    <3>3. Len(q) = 0
      <4> SUFFICES ASSUME Len(q) # 0
                   PROVE  FALSE
        OBVIOUS
      <4>1. Len(q) \in 1..Len(q) /\ Len(b) - Len(q) + Len(q) = Len(b)
        BY <2>1
      <4> QED
        BY <1>4, <3>2, <4>1 DEF Ends
    <3> QED
      BY <1>4, <3>3
  <2>3. CASE text \in Seq(Hosts)
    <3>1. ASSUME NEW m \in 1..Len(b)
          PROVE  b[m] \in Hosts
      <4>1. CASE m <= Len(mask)
        <5>1. m \in 1..Len(mask) /\ mask[m] \in Hosts
          BY <1>3, <4>1
        <5> QED
          BY <1>3, <5>1
      <4>2. CASE m > Len(mask)
        <5>1. PICK n \in 1..Len(text) : m = Len(mask) + n
          <6>1. m - Len(mask) \in 1..Len(text) /\ m = Len(mask) + (m - Len(mask))
            BY <1>3, <4>2
          <6> QED
            BY <6>1
        <5>2. text[n] \in Hosts
          BY <1>3, <2>3
        <5> QED
          BY <1>3, <5>1, <5>2
      <4> QED
        BY <1>3, <4>1, <4>2
    <3>2. \A m \in 1..Len(q) : q[m] \in Hosts
      <4> TAKE m \in 1..Len(q)
      <4>1. Len(b) - Len(q) + m \in 1..Len(b)
        BY <1>4, <2>1
      <4> QED
        BY <1>4, <3>1, <4>1
    <3> QED
      BY <1>4, <3>2, Narrow
  <2> QED
    BY <2>2, <2>3 DEF OneWrite
<1>6. Len(q) \in Nat /\ MaxLine \in Nat \ {0} /\ k \in Nat /\ k * MaxLine <= Len(q)
  <2>1. Len(q) \in Nat /\ MaxLine \in Nat \ {0}
    BY <1>5, OutputAssumption
  <2> QED
    BY <2>1, DivFacts
<1> HIDE DEF k
<1>7. ASSUME NEW i \in 1..k
      PROVE  chunk(i) \in Seq(Hosts)
  <2> HIDE DEF chunks
  <2> QED
    BY <1>5, <1>6, ChunkPart
<1>8. mask' \in Seq(Hosts)
  <2> DEFINE x == k * MaxLine
  <2>1. x \in Nat /\ x <= Len(q)
    BY <1>6
  <2> HIDE DEF x
  <2>2. x + 1 \in 1..(Len(q) + 1) /\ Len(q) \in 0..Len(q) /\ x + 1 <= Len(q) + 1
    BY <1>6, <2>1
  <2>3. SubSeq(q, x + 1, Len(q)) \in Seq(Hosts)
    BY <1>5, <2>2
  <2> QED
    BY <1>1, <2>3 DEF x
<1>9. /\ pieces \in Seq(Seq(Symbols)) /\ \A n \in 1..Len(pieces) : Ending(pieces[n])
  <2> DEFINE S == Seq(Symbols)
  <2>1. \A i \in 1..k : Ending(chunk(i)) /\ chunk(i) \in S
    BY <1>7, LabelsEnding DEF Ending
  <2> HIDE DEF chunk
  <2>2. Len(chunks) = k /\ \A i \in 1..k : chunks[i] = chunk(i)
    BY <1>6
  <2>3. chunks \in Seq(S)
    <3> HIDE DEF S
    <3> QED
      BY <1>6, <2>1
  <2>4. p \in Seq(S)
    BY <1>4
  <2> HIDE DEF S, chunks
  <2>5. /\ pieces \in Seq(S) /\ Len(p) \in Nat /\ Len(chunks) \in Nat /\ Len(pieces) = Len(p) + Len(chunks)
        /\ \A m \in 1..Len(p) : pieces[m] = p[m]
        /\ \A m \in 1..Len(chunks) : pieces[Len(p) + m] = chunks[m]
    BY <2>3, <2>4, ConcatFacts
  <2> HIDE DEF pieces
  <2>6. ASSUME NEW n \in 1..Len(pieces)
        PROVE  Ending(pieces[n])
    <3>1. CASE n <= Len(p)
      <4>1. n \in 1..Len(p)
        BY <2>5, <3>1
      <4> QED
        BY <1>4, <2>5, <4>1
    <3>2. CASE n > Len(p)
      <4>1. PICK m \in 1..Len(chunks) : n = Len(p) + m
        <5>1. n - Len(p) \in 1..Len(chunks) /\ n = Len(p) + (n - Len(p))
          BY <2>5, <3>2
        <5> QED
          BY <5>1
      <4> QED
        BY <2>1, <2>2, <2>5, <4>1
    <3> QED
      BY <2>5, <3>1, <3>2
  <2> QED
    BY <2>5, <2>6 DEF S
<1> HIDE DEF pieces
<1>10. Clean(shown)
  <2> DEFINE X == Seq(Symbols)
  <2>1. pieces \in Seq(X)
    BY <1>9
  <2> HIDE DEF X
  <2> QED
    BY <1>9, <2>1, CleanPieces
<1> HIDE DEF shown
<1> QED
  BY <1>1, <1>8, <1>10, CleanConcat

\* What a silent task held back goes through it at once.
LEMMA MaskingReplayKeeps ==
    ASSUME ApartFromOutput, secrets = Registered, mask \in Seq(Hosts), Clean(console),
           NEW text, Ending(text), MaskingReplay(text)
    PROVE  mask' \in Seq(Hosts) /\ Clean(console')
<1> DEFINE b == mask \o text
           cut == Cut(b, Ends)
           p == cut[1]
           q == cut[2]
           shown == FlattenSeq([i \in DOMAIN p |-> Masked(p[i])])
<1>1. console' = console \o shown \o Masked(q) /\ mask' = <<>>
  BY DEF MaskingReplay
<1>2. Ending(b) /\ b \in Seq(Symbols)
  BY LabelsEnding, EndingConcat DEF Ending
<1> HIDE DEF b
<1>3. /\ p \in Seq(Seq(Symbols)) /\ q \in Seq(Symbols)
      /\ \A n \in 1..Len(p) : Ending(p[n])
      /\ Len(q) <= Len(b)
      /\ \A m \in 1..Len(q) : q[m] = b[Len(b) - Len(q) + m]
  BY <1>2, MaskingCut
<1> HIDE DEF cut, p, q
<1>4. Ending(q)
  <2>1. Len(q) \in Nat /\ Len(b) \in Nat
    BY <1>2, <1>3
  <2>2. CASE Len(q) = 0
    BY <1>3, <2>2 DEF Ending
  <2>3. CASE Len(q) # 0
    <3>1. Len(q) \in 1..Len(q) /\ Len(b) - Len(q) + Len(q) = Len(b) /\ b # <<>>
      BY <1>2, <1>3, <2>1, <2>3
    <3>2. q[Len(q)] = b[Len(b)]
      BY <1>3, <3>1
    <3> QED
      BY <1>2, <1>3, <3>1, <3>2 DEF Ending
  <2> QED
    BY <2>2, <2>3
<1>5. Clean(shown)
  <2> DEFINE X == Seq(Symbols)
  <2>1. p \in Seq(X)
    BY <1>3
  <2> HIDE DEF X
  <2> QED
    BY <1>3, <2>1, CleanPieces
<1>6. Clean(Masked(q))
  BY <1>4, MaskedClean
<1> HIDE DEF shown
<1>7. Clean(console \o shown)
  BY <1>5, CleanConcat
<1>8. Clean(console \o shown \o Masked(q))
  BY <1>6, <1>7, CleanConcat
<1> QED
  BY <1>1, <1>8

-----------------------------------------------------------------------------
(* Lines                                                                   *)

\* A set of places has a first one.
LEMMA LeastOf ==
    ASSUME NEW I, I \subseteq Nat, I # {}
    PROVE  \E x \in I : \A y \in I : x <= y
<1>1. PICK x \in I : \A y \in I : ~ (<<y, x>> \in OpToRel(<, Nat))
  BY NatLessThanWellFounded, WFMin
<1>2. ASSUME NEW y \in I
      PROVE  x <= y
  <2>1. x \in Nat /\ y \in Nat
    OBVIOUS
  <2>2. ~ (y < x)
    BY <1>1, <2>1 DEF OpToRel
  <2> QED
    BY <2>1, <2>2
<1> QED
  BY <1>2

LEMMA LineEndInside ==
    ASSUME NEW b \in Seq(Symbols), LineEnd(b) # 0
    PROVE  LineEnd(b) \in 1..Len(b) /\ Len(b) \in Nat
<1> DEFINE i == SelectInSeq(b, LAMBDA c : c = Newline)
<1>1. Len(b) \in Nat /\ MaxLine \in Nat \ {0}
  BY OutputAssumption
<1>2. i \in 0..Len(b)
  <2> DEFINE I == {k \in 1..Len(b) : b[k] = Newline}
  <2>1. i = IF I # {} THEN Min(I) ELSE 0
    BY DEF SelectInSeq
  <2>2. I # {} => Min(I) \in I
    <3> SUFFICES ASSUME I # {}
                 PROVE  Min(I) \in I
      OBVIOUS
    <3>1. I \subseteq Nat
      BY <1>1
    <3> HIDE DEF I
    <3>2. \E x \in I : \A y \in I : x <= y
      BY <3>1, LeastOf
    <3> QED
      BY <3>2 DEF Min
  <2>3. I \subseteq 1..Len(b)
    OBVIOUS
  <2> HIDE DEF I, i
  <2>4. CASE I # {}
    <3>1. i = Min(I) /\ Min(I) \in 1..Len(b)
      BY <2>1, <2>2, <2>3, <2>4
    <3> QED
      BY <1>1, <3>1
  <2>5. CASE I = {}
    BY <1>1, <2>1, <2>5
  <2> QED
    BY <2>4, <2>5
<1>3. LineEnd(b) = IF i # 0 THEN i ELSE IF Len(b) >= MaxLine THEN MaxLine ELSE 0
  BY DEF LineEnd
<1> HIDE DEF i
<1> QED
  BY <1>1, <1>2, <1>3

-----------------------------------------------------------------------------
(* The invariant                                                           *)

\* What a sink holds may be written to the console: as it is in log mode, through the
\* masking writer in raw mode.
SinkInv == /\ sink = [r \in Rounds |-> sink[r]]
           /\ \A r \in Rounds : Ending(sink[r]) /\ (mode = "log" => Clean(sink[r]))

OutputInv ==
    /\ mode \in {"raw", "log"}
    /\ round \in Nat /\ (phase = "running" => round \in Rounds)
    /\ buf \in [Writers -> Seq(Symbols)]
    /\ holder \in Writers \cup {NoWriter}
    /\ secrets = Registered
    /\ mask \in Seq(Hosts)
    /\ SinkInv
    /\ Clean(console)

LEMMA InitOutputInv ==
    ASSUME ApartFromOutput, Init
    PROVE  OutputInv
<1> DEFINE e == <<>>
<1>1. Clean(e) /\ Ending(e) /\ e \in Seq(Symbols) /\ e \in Seq(Hosts)
  BY EmptyClean DEF Clean
<1>2. /\ buf = [w \in Writers |-> e] /\ sink = [r \in Rounds |-> e]
      /\ mask = e /\ console = e
      /\ mode \in {"raw", "log"} /\ round = 0 /\ phase = "idle"
      /\ holder = NoWriter /\ secrets = Registered
  BY DEF Init
<1> HIDE DEF e
<1>3. SinkInv
  BY <1>1, <1>2 DEF SinkInv
<1> QED
  BY <1>1, <1>2, <1>3 DEF OutputInv

\* Text for round r in raw mode.
LEMMA ToOutKeeps ==
    ASSUME ApartFromOutput, OutputInv, mode = "raw", mode' = mode,
           NEW r \in Rounds, NEW quiet \in BOOLEAN, NEW text, OneWrite(text), ToOut(r, quiet, text)
    PROVE  mask' \in Seq(Hosts) /\ SinkInv' /\ Clean(console)'
<1>1. /\ mask \in Seq(Hosts) /\ Clean(console) /\ secrets = Registered
      /\ sink = [s \in Rounds |-> sink[s]] /\ \A s \in Rounds : Ending(sink[s])
  BY DEF OutputInv, SinkInv
<1>2. CASE quiet
  <2>1. sink' = [sink EXCEPT ![r] = @ \o text] /\ mask' = mask /\ console' = console
    BY <1>2 DEF ToOut
  <2>2. Ending(sink[r] \o text)
    BY <1>1, WrittenEnding, EndingConcat
  <2>3. SinkInv'
    <3> DEFINE new == sink[r] \o text
    <3>1. sink' = [sink EXCEPT ![r] = new]
      BY <2>1
    <3>2. Ending(new)
      BY <2>2
    <3> HIDE DEF new
    <3>3. sink' = [s \in Rounds |-> sink'[s]] /\ \A s \in Rounds : sink'[s] = IF s = r THEN new ELSE sink[s]
      BY <1>1, <3>1
    <3>4. \A s \in Rounds : Ending(sink'[s])
      BY <1>1, <3>2, <3>3
    <3> QED
      BY <3>3, <3>4 DEF SinkInv, Ending
  <2> QED
    BY <1>1, <2>1, <2>3 DEF Clean, Ending
<1>3. CASE ~ quiet
  <2>1. MaskingWrite(text) /\ sink' = sink
    BY <1>3 DEF ToOut
  <2>2. mask' \in Seq(Hosts) /\ Clean(console')
    BY <1>1, <2>1, MaskingWriteKeeps
  <2>3. SinkInv'
    BY <2>1 DEF OutputInv, SinkInv, Ending, Clean
  <2> QED
    BY <2>2, <2>3 DEF Clean, Ending
<1> QED
  BY <1>2, <1>3

\* A record for round r in log mode.
LEMMA ToLogKeeps ==
    ASSUME ApartFromOutput, OutputInv, mode = "log", mode' = mode,
           NEW r, NEW quiet \in BOOLEAN, quiet => r \in Rounds, NEW text, Ending(text), ToLog(r, quiet, text)
    PROVE  mask' \in Seq(Hosts) /\ SinkInv' /\ Clean(console)'
<1>1. /\ mask \in Seq(Hosts) /\ Clean(console) /\ secrets = Registered
      /\ sink = [s \in Rounds |-> sink[s]] /\ \A s \in Rounds : Ending(sink[s]) /\ Clean(sink[s])
  BY DEF OutputInv, SinkInv
<1>2. Clean(Masked(text)) /\ mask' = mask
  BY <1>1, MaskedClean DEF ToLog
<1>3. CASE quiet
  <2> DEFINE new == sink[r] \o Masked(text)
  <2>1. sink' = [sink EXCEPT ![r] = new] /\ console' = console /\ r \in Rounds
    BY <1>3 DEF ToLog
  <2>2. Clean(new)
    BY <1>1, <1>2, <2>1, CleanConcat
  <2> HIDE DEF new
  <2>3. sink' = [s \in Rounds |-> sink'[s]] /\ \A s \in Rounds : sink'[s] = IF s = r THEN new ELSE sink[s]
    BY <1>1, <2>1
  <2>4. \A s \in Rounds : Clean(sink'[s])
    BY <1>1, <2>2, <2>3
  <2>5. SinkInv'
    BY <2>3, <2>4 DEF SinkInv, Clean, Ending
  <2> QED
    BY <1>1, <1>2, <2>1, <2>5 DEF Clean, Ending
<1>4. CASE ~ quiet
  <2>1. console' = console \o Masked(text) /\ sink' = sink
    BY <1>4 DEF ToLog
  <2>2. Clean(console \o Masked(text))
    BY <1>1, <1>2, CleanConcat
  <2>3. Clean(console')
    BY <2>1, <2>2
  <2>4. SinkInv'
    BY <2>1 DEF OutputInv, SinkInv, Ending, Clean
  <2> QED
    BY <1>1, <1>2, <2>3, <2>4 DEF Clean, Ending
<1> QED
  BY <1>3, <1>4

LEMMA EchoWritten ==
    OneWrite(<<Echo, Newline>>)
<1>1. Echo \in Symbols /\ Newline \in Symbols
  BY DEF Symbols, Ends
<1> HIDE DEF Symbols
<1> DEFINE e == <<Echo, Newline>>
<1>2. e \in Seq(Symbols) /\ Len(e) = 2 /\ e[2] = Newline
  BY <1>1
<1> HIDE DEF e
<1>3. e # <<>> /\ e[Len(e)] = Newline
  BY <1>2
<1>4. OneWrite(e)
  BY <1>2, <1>3 DEF OneWrite
<1> QED
  BY <1>4 DEF e

LEMMA LabelWritten ==
    ASSUME NEW h \in Hosts
    PROVE  OneWrite(<<h>>)
<1>1. h \in Symbols
  BY DEF Symbols
<1> HIDE DEF Symbols
<1> DEFINE e == <<h>>
<1>2. e \in Seq(Symbols) /\ Len(e) = 1 /\ e \in Seq(Hosts)
  BY <1>1
<1> HIDE DEF e
<1>4. e # <<>>
  <2>1. Len(<<>>) = 0 /\ Len(e) # 0
    BY <1>2
  <2> QED
    BY <2>1
<1>3. OneWrite(e)
  BY <1>2, <1>4 DEF OneWrite
<1> QED
  BY <1>3 DEF e

-----------------------------------------------------------------------------
(* Steps                                                                   *)

LEMMA BeginRoundKeeps ==
    ASSUME ApartFromOutput, OutputInv, BeginRound
    PROVE  OutputInv'
<1>1. /\ round < MaxRounds /\ round' = round + 1 /\ round \in Nat /\ MaxRounds \in Nat
      /\ mode' = mode /\ buf' = buf /\ holder' = holder /\ secrets' = secrets
  BY OutputAssumption DEF BeginRound, OutputInv, MaxRounds
<1>2. round' \in Rounds /\ round' \in Nat
  BY <1>1 DEF Rounds
<1>3. PICK quiet \in BOOLEAN : IF mode = "raw" THEN ToOut(round', quiet, <<Echo, Newline>>)
                                               ELSE ToLog(round', quiet, <<Echo, Newline>>)
  BY DEF BeginRound
<1>4. mask' \in Seq(Hosts) /\ SinkInv' /\ Clean(console)'
  <2>1. CASE mode = "raw"
    BY <1>1, <1>2, <1>3, <2>1, EchoWritten, ToOutKeeps
  <2>2. CASE mode # "raw"
    <3>1. mode = "log"
      BY <2>2 DEF OutputInv
    <3>2. Ending(<<Echo, Newline>>)
      BY EchoWritten, WrittenEnding
    <3> QED
      BY <1>1, <1>2, <1>3, <2>2, <3>1, <3>2, ToLogKeeps
  <2> QED
    BY <2>1, <2>2
<1> QED
  BY <1>1, <1>2, <1>4 DEF OutputInv, Rounds, Writers, Symbols

LEMMA WriteKeeps ==
    ASSUME ApartFromOutput, OutputInv, NEW w \in Writers, Write(w)
    PROVE  OutputInv'
<1>1. /\ mode' = mode /\ round' = round /\ phase' = phase /\ secrets' = secrets
      /\ mask' = mask /\ sink' = sink /\ console' = console /\ holder' = w
  BY DEF Write
<1>2. PICK c \in Chunks : buf' = [buf EXCEPT ![w] = @ \o c]
  BY DEF Write
<1>3. buf' \in [Writers -> Seq(Symbols)]
  <2>1. c \in Seq(Symbols) /\ buf \in [Writers -> Seq(Symbols)]
    BY OutputAssumption DEF OutputInv
  <2>2. buf[w] \in Seq(Symbols)
    BY <2>1
  <2>3. buf[w] \o c \in Seq(Symbols)
    BY <2>1, <2>2, ConcatFacts
  <2> QED
    BY <1>2, <2>1, <2>3
<1> QED
  BY <1>1, <1>3 DEF OutputInv, SinkInv, Clean, Ending

LEMMA FlushKeeps ==
    ASSUME ApartFromOutput, OutputInv, NEW w \in Writers, Flush(w)
    PROVE  OutputInv'
<1>1. /\ mode' = mode /\ round' = round /\ phase' = phase /\ secrets' = secrets
      /\ mask' = mask /\ sink' = sink /\ console' = console
      /\ holder' \in {holder, w}
      /\ buf' = buf \/ buf' = [buf EXCEPT ![w] = Append(@, Newline)]
  BY DEF Flush
<1>2. buf' \in [Writers -> Seq(Symbols)]
  <2>1. Newline \in Symbols /\ buf \in [Writers -> Seq(Symbols)]
    BY DEF OutputInv, Symbols, Ends
  <2> HIDE DEF Symbols
  <2>2. buf[w] \in Seq(Symbols)
    BY <2>1
  <2>3. Append(buf[w], Newline) \in Seq(Symbols)
    BY <2>1, <2>2, AppendFacts
  <2> QED
    BY <1>1, <2>1, <2>3
<1> QED
  BY <1>1, <1>2 DEF OutputInv, SinkInv, Clean, Ending

LEMMA RunReturnsKeeps ==
    ASSUME OutputInv, NEW r \in Rounds, NEW h \in Hosts, RunReturns(r, h)
    PROVE  OutputInv'
  BY DEF OutputInv, SinkInv, Clean, Ending, RunReturns

LEMMA ReleaseKeeps ==
    ASSUME OutputInv, Release
    PROVE  OutputInv'
  BY DEF OutputInv, SinkInv, Clean, Ending, Release

LEMMA EmitLabelKeeps ==
    ASSUME ApartFromOutput, OutputInv, EmitLabel
    PROVE  OutputInv'
<1>1. /\ mode = "raw" /\ mode' = mode /\ round' = round /\ phase' = phase /\ secrets' = secrets
      /\ buf' = buf /\ holder' = holder /\ holder \in Writers
      /\ ToOut(holder[1], silent[holder[1]], <<holder[2]>>)
  BY DEF EmitLabel, OutputInv
<1>2. holder[1] \in Rounds /\ holder[2] \in Hosts
  BY <1>1 DEF Writers
<1>3. mask' \in Seq(Hosts) /\ SinkInv' /\ Clean(console)'
  <2> DEFINE quiet == IF silent[holder[1]] THEN TRUE ELSE FALSE
  <2>1. quiet \in BOOLEAN
    OBVIOUS
  <2>2. ToOut(holder[1], quiet, <<holder[2]>>)
    BY <1>1 DEF ToOut
  <2> HIDE DEF quiet
  <2>3. OneWrite(<<holder[2]>>)
    BY <1>2, LabelWritten
  <2> QED
    BY <1>1, <1>2, <2>1, <2>2, <2>3, ToOutKeeps
<1> QED
  BY <1>1, <1>3 DEF OutputInv

LEMMA EmitLineKeeps ==
    ASSUME ApartFromOutput, OutputInv, EmitLine
    PROVE  OutputInv'
<1> DEFINE b == buf[holder]
           n == LineEnd(b)
           line == IF b[n] = Newline THEN SubSeq(b, 1, n) ELSE Append(SubSeq(b, 1, n), Newline)
<1>1. /\ mode' = mode /\ round' = round /\ phase' = phase /\ secrets' = secrets /\ holder' = holder
      /\ holder \in Writers /\ n # 0
      /\ \/ mode = "raw" /\ ToOut(holder[1], silent[holder[1]], line)
         \/ mode = "log" /\ ToLog(round, phase = "running" /\ silent[round], <<holder[2]>> \o line)
      /\ buf' = [buf EXCEPT ![holder] = SubSeq(b, n + 1, Len(b))]
  BY DEF EmitLine, OutputInv
<1>2. holder[1] \in Rounds /\ holder[2] \in Hosts /\ b \in Seq(Symbols)
  BY <1>1 DEF Writers, OutputInv
<1>3. n \in 1..Len(b) /\ Len(b) \in Nat
  BY <1>1, <1>2, LineEndInside
<1> HIDE DEF b, n
<1>4. /\ SubSeq(b, 1, n) \in Seq(Symbols) /\ Len(SubSeq(b, 1, n)) = n
      /\ SubSeq(b, 1, n)[n] = b[n]
      /\ SubSeq(b, n + 1, Len(b)) \in Seq(Symbols)
  BY <1>2, <1>3
<1>5. line \in Seq(Symbols) /\ line # <<>> /\ line[Len(line)] = Newline
  <2>1. CASE b[n] = Newline
    <3>1. line = SubSeq(b, 1, n)
      BY <2>1
    <3> HIDE DEF line
    <3> QED
      BY <1>3, <1>4, <2>1, <3>1
  <2>2. CASE b[n] # Newline
    <3> DEFINE x == SubSeq(b, 1, n)
    <3>1. line = Append(x, Newline)
      BY <2>2
    <3>2. x \in Seq(Symbols) /\ Newline \in Symbols
      BY <1>4 DEF Symbols, Ends
    <3> HIDE DEF line, x
    <3>3. line \in Seq(Symbols) /\ Len(line) = Len(x) + 1 /\ Len(x) \in Nat /\ line[Len(x) + 1] = Newline
      BY <3>1, <3>2, AppendFacts
    <3> QED
      BY <3>3
  <2> QED
    BY <2>1, <2>2
<1> HIDE DEF line
<1>6. buf' \in [Writers -> Seq(Symbols)]
  BY <1>1, <1>4 DEF OutputInv
<1>7. OneWrite(line)
  BY <1>5 DEF OneWrite
<1>8. mask' \in Seq(Hosts) /\ SinkInv' /\ Clean(console)'
  <2>1. CASE mode = "raw"
    <3> DEFINE quiet == IF silent[holder[1]] THEN TRUE ELSE FALSE
    <3>1. quiet \in BOOLEAN
      OBVIOUS
    <3>2. ToOut(holder[1], quiet, line)
      BY <1>1, <2>1 DEF ToOut
    <3> HIDE DEF quiet
    <3> QED
      BY <1>1, <1>2, <1>7, <2>1, <3>1, <3>2, ToOutKeeps
  <2>2. CASE mode # "raw"
    <3> DEFINE quiet == IF phase = "running" /\ silent[round] THEN TRUE ELSE FALSE
               text == <<holder[2]>> \o line
    <3>1. mode = "log" /\ ToLog(round, phase = "running" /\ silent[round], text)
      BY <1>1, <2>2
    <3>2. quiet \in BOOLEAN /\ (quiet => round \in Rounds)
      BY DEF OutputInv
    <3>3. ToLog(round, quiet, text)
      BY <3>1 DEF ToLog
    <3>4. Ending(text)
      <4>1. Ending(<<holder[2]>>)
        BY <1>2, LabelWritten, WrittenEnding
      <4>2. Ending(line)
        BY <1>7, WrittenEnding
      <4> QED
        BY <4>1, <4>2, EndingConcat
    <3> HIDE DEF quiet, text
    <3> QED
      BY <1>1, <3>1, <3>2, <3>3, <3>4, ToLogKeeps
  <2> QED
    BY <2>1, <2>2
<1> QED
  BY <1>1, <1>6, <1>8 DEF OutputInv

LEMMA RoundEndsKeeps ==
    ASSUME ApartFromOutput, OutputInv, RoundEnds
    PROVE  OutputInv'
<1>1. /\ mode' = mode /\ round' = round /\ phase' = "idle" /\ secrets' = secrets
      /\ buf' = buf /\ holder' = holder /\ sink' = sink /\ round \in Rounds
  BY DEF RoundEnds, OutputInv
<1>2. SinkInv'
  BY <1>1 DEF OutputInv, SinkInv, Ending, Clean
<1>3. mask' \in Seq(Hosts) /\ Clean(console)'
  <2>1. /\ mask \in Seq(Hosts) /\ Clean(console) /\ secrets = Registered
        /\ Ending(sink[round]) /\ (mode = "log" => Clean(sink[round]))
    BY <1>1 DEF OutputInv, SinkInv
  <2>2. \/ mask' = mask /\ console' = console
        \/ mode = "raw" /\ MaskingReplay(sink[round])
        \/ mode # "raw" /\ console' = console \o sink[round] /\ mask' = mask
    BY DEF RoundEnds
  <2>3. CASE mask' = mask /\ console' = console
    BY <2>1, <2>3 DEF Clean, Ending
  <2>4. CASE mode = "raw" /\ MaskingReplay(sink[round])
    <3>1. mask' \in Seq(Hosts) /\ Clean(console')
      BY <2>1, <2>4, MaskingReplayKeeps
    <3> QED
      BY <3>1 DEF Clean, Ending
  <2>5. CASE mode # "raw" /\ console' = console \o sink[round] /\ mask' = mask
    <3>1. mode = "log"
      BY <2>5 DEF OutputInv
    <3>2. Clean(console \o sink[round])
      BY <2>1, <3>1, CleanConcat
    <3>3. Clean(console')
      BY <2>5, <3>2
    <3> QED
      BY <2>1, <2>5, <3>3 DEF Clean, Ending
  <2> QED
    BY <2>2, <2>3, <2>4, <2>5
<1> QED
  BY <1>1, <1>2, <1>3 DEF OutputInv

\* No line of the console shows a registered value or a registered line of one, however
\* texts are split over writes, hosts, rounds and abandoned commands, and whatever the
\* values, as long as none contains a host's label or the placeholder (masking.go:39-191,
\* runner/output.go, executor/capture_output.go).
THEOREM NoSecretShownHolds ==
    ASSUME ApartFromOutput
    PROVE  Spec => []NoSecretShown
<1>1. Init => OutputInv
  BY InitOutputInv
<1>2. OutputInv /\ [Next]_vars => OutputInv'
  <2> SUFFICES ASSUME OutputInv, [Next]_vars
               PROVE  OutputInv'
    OBVIOUS
  <2>1. CASE BeginRound
    BY <2>1, BeginRoundKeeps
  <2>2. CASE EmitLabel
    BY <2>2, EmitLabelKeeps
  <2>3. CASE EmitLine
    BY <2>3, EmitLineKeeps
  <2>4. CASE Release
    BY <2>4, ReleaseKeeps
  <2>5. CASE RoundEnds
    BY <2>5, RoundEndsKeeps
  <2>6. ASSUME NEW w \in Writers, Write(w) \/ Flush(w)
        PROVE  OutputInv'
    BY <2>6, WriteKeeps, FlushKeeps
  <2>7. ASSUME NEW r \in Rounds, NEW h \in Hosts, RunReturns(r, h)
        PROVE  OutputInv'
    BY <2>7, RunReturnsKeeps
  <2>8. CASE UNCHANGED vars
    BY <2>8 DEF vars, OutputInv, SinkInv, Clean, Ending
  <2> QED
    BY <2>1, <2>2, <2>3, <2>4, <2>5, <2>6, <2>7, <2>8 DEF Next
<1>3. OutputInv => NoSecretShown
  BY DEF OutputInv, Clean, Free, NoSecretShown
<1> QED
  BY <1>1, <1>2, <1>3, PTL DEF Spec

=============================================================================
