---------------------------- MODULE BasicLemmas -----------------------------
(***************************************************************************)
(* Facts about natural numbers, recursive functions and sequences that the *)
(* proofs of several components cite.  Induction is stated for sets of     *)
(* numbers, not for predicates, so that it can be used with any property:  *)
(* apply Induct to the set of the numbers that have it.                    *)
(***************************************************************************)
EXTENDS Integers, Sequences, SequenceTheorems, WellFoundedInduction, TLAPS

\* A set of natural numbers has a least element.
LEMMA Least ==
    ASSUME NEW T, T \subseteq Nat, T # {}
    PROVE  \E x \in T : \A y \in T : ~(y < x)
<1> DEFINE R == OpToRel(<, Nat)
<1>1. IsWellFoundedOn(R, Nat)
  BY NatLessThanWellFounded
<1>2. \A x, y \in Nat : y < x => <<y, x>> \in R
  BY DEF OpToRel
<1> HIDE DEF R
<1>3. \E x \in T : \A y \in T : ~(<<y, x>> \in R)
  BY <1>1, WFMin
<1> QED  BY <1>2, <1>3

\* Induction: a set with 0 and the successors of its numbers has them all.
LEMMA Induct ==
    ASSUME NEW S, 0 \in S, \A n \in Nat : n \in S => n + 1 \in S
    PROVE  Nat \subseteq S
<1> DEFINE T == Nat \ S
<1>1. SUFFICES ASSUME T # {} PROVE FALSE
  OBVIOUS
<1>2. T \subseteq Nat
  OBVIOUS
<1>3. PICK x \in T : \A y \in T : ~(y < x)
  BY <1>1, <1>2, Least
<1>4. x \in Nat /\ x \notin S /\ x # 0
  BY <1>3
<1>5. x - 1 \in Nat /\ x - 1 < x /\ (x - 1) + 1 = x
  BY <1>4
<1>6. x - 1 \in S
  BY <1>3, <1>5
<1> QED  BY <1>4, <1>5, <1>6

\* f is defined on 0 .. N by recursion: a, and step from one value to the next.
Recursion(f, S, a, N, step) ==
    /\ f \in [0 .. N -> S]
    /\ f[0] = a
    /\ \A i \in 1 .. N : f[i] = step[<<f[i - 1], i>>]

\* Such a function exists.
LEMMA RecursiveFunction ==
    ASSUME NEW S, NEW a \in S, NEW N \in Nat, NEW step \in [S \X Nat -> S]
    PROVE  \E f : Recursion(f, S, a, N, step)
<1> USE DEF Recursion
<1> DEFINE Good(f, n) == Recursion(f, S, a, n, step)
           T == {n \in Nat : \E f : Good(f, n)}
<1>1. 0 \in T
  <2>1. Good([i \in 0 .. 0 |-> a], 0)
    OBVIOUS
  <2> QED  BY <2>1
<1>2. \A n \in Nat : n \in T => n + 1 \in T
  <2> SUFFICES ASSUME NEW n \in Nat, n \in T
               PROVE  n + 1 \in T
    OBVIOUS
  <2>0. PICK f : Good(f, n)
    OBVIOUS
  <2> DEFINE g == [i \in 0 .. n + 1 |-> IF i = n + 1 THEN step[<<f[n], n + 1>>] ELSE f[i]]
  <2>1. g \in [0 .. n + 1 -> S]
    BY <2>0
  <2>2. g[0] = a
    BY <2>0
  <2>3. ASSUME NEW i \in 1 .. n + 1 PROVE g[i] = step[<<g[i - 1], i>>]
    <3>1. CASE i = n + 1
      <4>1. g[i] = step[<<f[n], n + 1>>] /\ i - 1 = n /\ g[n] = f[n]
        BY <3>1
      <4> QED  BY <3>1, <4>1
    <3>2. CASE i # n + 1
      <4>1. i \in 1 .. n /\ g[i] = f[i] /\ g[i - 1] = f[i - 1]
        BY <3>2
      <4> QED  BY <2>0, <4>1
    <3> QED  BY <3>1, <3>2
  <2>4. Good(g, n + 1)
    BY <2>1, <2>2, <2>3
  <2> HIDE DEF g
  <2> QED  BY <2>4
<1> HIDE DEF T
<1>3. N \in T
  BY <1>1, <1>2, Induct
<1> QED  BY <1>3 DEF T

-----------------------------------------------------------------------------
(* Products, and division with remainder.                                    *)

\* Products of natural numbers.
LEMMA Product ==
    ASSUME NEW a \in Nat, NEW b \in Nat, NEW c \in Nat, a <= b
    PROVE  a * c \in Nat /\ a * c <= b * c /\ (a + 1) * c = a * c + c
<1>1. (b - a) * c >= 0
  OBVIOUS
<1>2. b * c = (b - a) * c + a * c
  OBVIOUS
<1> QED  BY <1>1, <1>2

\* Division with remainder, for a positive divisor.
LEMMA DivMod ==
    ASSUME NEW a \in Int, NEW n \in Nat \ {0}
    PROVE  a \div n \in Int /\ a % n \in 0 .. n - 1 /\ a = n * (a \div n) + (a % n)
OBVIOUS

\* Quotient and remainder are unique.
LEMMA DivModUnique ==
    ASSUME NEW n \in Nat \ {0}, NEW q \in Int, NEW p \in Int,
           NEW r \in 0 .. n - 1, NEW s \in 0 .. n - 1, n * q + r = n * p + s
    PROVE  q = p /\ r = s
<1>1. n * (q - p) = s - r
  OBVIOUS
<1>2. q <= p
  <2> SUFFICES ASSUME q > p PROVE FALSE
    OBVIOUS
  <2>1. n * (q - p) >= n
    OBVIOUS
  <2> QED  BY <1>1, <2>1
<1>3. p <= q
  <2> SUFFICES ASSUME p > q PROVE FALSE
    OBVIOUS
  <2>1. n * (p - q) >= n
    OBVIOUS
  <2>2. n * (p - q) = r - s
    OBVIOUS
  <2> QED  BY <2>1, <2>2
<1>4. q = p
  BY <1>2, <1>3
<1> QED  BY <1>4

LEMMA ModIs ==
    ASSUME NEW n \in Nat \ {0}, NEW q \in Int, NEW r \in 0 .. n - 1, NEW a \in Int,
           a = n * q + r
    PROVE  a % n = r
BY DivMod, DivModUnique

\* Numbers that differ by a multiple of n have the same remainder.
LEMMA ModShift ==
    ASSUME NEW n \in Nat \ {0}, NEW a \in Int, NEW k \in Int
    PROVE  (a + n * k) % n = a % n
<1> DEFINE q == a \div n
           r == a % n
<1>1. q \in Int /\ r \in 0 .. n - 1 /\ a = n * q + r
  BY DivMod
<1> HIDE DEF q, r
<1>2. a + n * k = n * (q + k) + r
  BY <1>1
<1>3. (a + n * k) % n = r
  BY <1>1, <1>2, ModIs
<1> QED  BY <1>3 DEF r

\* Adding before or after the remainder is taken, also modulo a divisor n of m.
LEMMA ModAdd ==
    ASSUME NEW n \in Nat \ {0}, NEW m \in Nat \ {0}, m % n = 0, NEW a \in Int, NEW j \in Int
    PROVE  ((a % m) + j) % n = (a + j) % n
<1> DEFINE q == a \div m
           r == a % m
           k == m \div n
<1>1. q \in Int /\ r \in 0 .. m - 1 /\ a = m * q + r
  BY DivMod
<1>2. k \in Int /\ m = n * k
  <2>1. m = n * (m \div n) + (m % n) /\ m \div n \in Int
    BY DivMod
  <2> QED  BY <2>1
<1> HIDE DEF q, r, k
<1>3. a + j = (r + j) + n * (k * q)
  BY <1>1, <1>2
<1>4. ((r + j) + n * (k * q)) % n = (r + j) % n
  <2>1. r + j \in Int /\ k * q \in Int
    BY <1>1, <1>2
  <2> QED  BY <2>1, ModShift
<1> QED  BY <1>3, <1>4 DEF r

\* Within a window of n numbers, remainders tell the numbers apart.
LEMMA ModInjective ==
    ASSUME NEW n \in Nat \ {0}, NEW a \in Int, NEW b \in Int, a % n = b % n,
           a - b < n, b - a < n
    PROVE  a = b
<1> DEFINE q == a \div n
           p == b \div n
           r == a % n
<1>1. q \in Int /\ r \in 0 .. n - 1 /\ a = n * q + r
  BY DivMod
<1>2. p \in Int /\ b = n * p + r
  BY DivMod
<1> HIDE DEF q, p, r
<1>3. a - b = n * (q - p)
  BY <1>1, <1>2
<1>4. q <= p
  <2> SUFFICES ASSUME q > p PROVE FALSE
    BY <1>1, <1>2
  <2>1. n * (q - p) >= n
    BY <1>1, <1>2
  <2> QED  BY <1>3, <2>1
<1>5. p <= q
  <2> SUFFICES ASSUME p > q PROVE FALSE
    BY <1>1, <1>2
  <2>1. n * (p - q) >= n
    BY <1>1, <1>2
  <2>2. b - a = n * (p - q)
    BY <1>1, <1>2
  <2> QED  BY <2>1, <2>2
<1>6. q = p
  BY <1>1, <1>2, <1>4, <1>5
<1> QED  BY <1>1, <1>2, <1>6

\* A window of n numbers has one for every remainder.
LEMMA ModSurjective ==
    ASSUME NEW n \in Nat \ {0}, NEW a \in Int, NEW r \in 0 .. n - 1
    PROVE  \E x \in a .. a + n - 1 : x % n = r
<1> DEFINE e == r - a
<1>1. e \in Int
  OBVIOUS
<1> HIDE DEF e
<1> DEFINE d == e % n
           p == e \div n
           x == a + d
           k == 0 - p
<1>2. d \in 0 .. n - 1 /\ p \in Int /\ e = n * p + d
  BY <1>1, DivMod
<1> HIDE DEF d, p
<1>3. x \in a .. a + n - 1 /\ x \in Int /\ k \in Int /\ x = n * k + r
  BY <1>2 DEF e
<1> HIDE DEF x, k
<1>4. x % n = r
  BY <1>3, ModIs
<1> QED  BY <1>3, <1>4

\* The distance of two counters that wrap around at m and are less than m apart.
LEMMA ModDistance ==
    ASSUME NEW m \in Nat \ {0}, NEW a \in Int, NEW b \in Int, b <= a, a - b < m
    PROVE  ((a % m) - (b % m)) % m = a - b
<1> DEFINE q == a \div m
           p == b \div m
           r == a % m
           s == b % m
<1>1. q \in Int /\ r \in 0 .. m - 1 /\ a = m * q + r
  BY DivMod
<1>2. p \in Int /\ s \in 0 .. m - 1 /\ b = m * p + s
  BY DivMod
<1> HIDE DEF q, p, r, s
<1> DEFINE x == r - s
           k == p - q
           d == a - b
<1>3. x = m * k + d /\ d \in 0 .. m - 1 /\ k \in Int /\ x \in Int
  BY <1>1, <1>2
<1> HIDE DEF x, k, d
<1>4. x % m = d
  BY <1>3, ModIs
<1> QED  BY <1>4 DEF r, s, x, d

\* CeilDiv(n, d) blocks of d hold n, and one fewer does not.
LEMMA CeilDivBounds ==
    ASSUME NEW n \in Nat, NEW d \in Nat \ {0}
    PROVE  /\ (n + d - 1) \div d \in Nat
           /\ n <= ((n + d - 1) \div d) * d
           /\ ((n + d - 1) \div d) * d < n + d
           /\ n > 0 => (n + d - 1) \div d > 0
<1> DEFINE a == n + d - 1
<1>0. a \in Int
  OBVIOUS
<1> HIDE DEF a
<1> DEFINE q == a \div d
           r == a % d
<1>1. q \in Int /\ r \in 0 .. d - 1 /\ n + d - 1 = d * q + r
  <2>1. q \in Int /\ r \in 0 .. d - 1 /\ a = d * q + r
    BY <1>0, DivMod
  <2> HIDE DEF q, r
  <2> QED  BY <2>1 DEF a
<1> HIDE DEF q, r
<1>2. n <= q * d /\ q * d < n + d
  BY <1>1
<1>3. q >= 0
  <2> SUFFICES ASSUME q <= 0 - 1 PROVE FALSE
    BY <1>1
  <2>1. d * q <= 0 - d
    BY <1>1
  <2> QED  BY <1>1, <2>1
<1>4. n > 0 => q > 0
  <2> SUFFICES ASSUME n > 0, q = 0 PROVE FALSE
    BY <1>1, <1>3
  <2> QED  BY <1>2
<1> QED  BY <1>1, <1>2, <1>3, <1>4 DEF q, a

-----------------------------------------------------------------------------
(* Sequences.                                                               *)

\* Concatenation: type, length and elements.
LEMMA Cat ==
    ASSUME NEW S, NEW s \in Seq(S), NEW t \in Seq(S)
    PROVE  /\ s \o t \in Seq(S)
           /\ Len(s) \in Nat
           /\ Len(t) \in Nat
           /\ Len(s \o t) = Len(s) + Len(t)
           /\ \A i \in 1 .. Len(s) : (s \o t)[i] = s[i]
           /\ \A i \in 1 .. Len(t) : (s \o t)[Len(s) + i] = t[i]
<1>1. Len(s) \in Nat /\ Len(t) \in Nat
  BY LenProperties
<1>2. \A i \in 1 .. Len(t) : (Len(s) + i) - Len(s) = i /\ ~(Len(s) + i <= Len(s))
                             /\ Len(s) + i \in 1 .. Len(s) + Len(t)
  BY <1>1
<1>3. \A i \in 1 .. Len(s) : i <= Len(s) /\ i \in 1 .. Len(s) + Len(t)
  BY <1>1
<1> QED  BY <1>1, <1>2, <1>3, ConcatProperties

\* Concatenation is associative.
LEMMA Assoc ==
    ASSUME NEW S, NEW s \in Seq(S), NEW t \in Seq(S), NEW u \in Seq(S)
    PROVE  (s \o t) \o u = s \o (t \o u)
BY ConcatAssociative

\* A sequence and the rest of it after its first n elements.
LEMMA Split ==
    ASSUME NEW S, NEW s \in Seq(S), NEW n \in 0 .. Len(s)
    PROVE  /\ SubSeq(s, 1, n) \in Seq(S)
           /\ SubSeq(s, n + 1, Len(s)) \in Seq(S)
           /\ Len(SubSeq(s, 1, n)) = n
           /\ Len(SubSeq(s, n + 1, Len(s))) = Len(s) - n
           /\ SubSeq(s, 1, n) \o SubSeq(s, n + 1, Len(s)) = s
           /\ \A i \in 1 .. n : SubSeq(s, 1, n)[i] = s[i]
           /\ \A i \in 1 .. Len(s) - n : SubSeq(s, n + 1, Len(s))[i] = s[n + i]
<1>1. Len(s) \in Nat
  BY LenProperties
<1>2. n \in Nat /\ n <= Len(s)
  BY <1>1
<1>3. \A i \in 1 .. n : s[i] \in S
  BY <1>1, <1>2, ElementOfSeq
<1>4. \A i \in n + 1 .. Len(s) : s[i] \in S
  BY <1>1, <1>2, ElementOfSeq
<1>5. /\ SubSeq(s, 1, n) \in Seq(S)
      /\ Len(SubSeq(s, 1, n)) = IF 1 <= n THEN n - 1 + 1 ELSE 0
      /\ \A i \in 1 .. n - 1 + 1 : SubSeq(s, 1, n)[i] = s[1 + i - 1]
  BY <1>2, <1>3, SubSeqProperties
<1>6. /\ SubSeq(s, n + 1, Len(s)) \in Seq(S)
      /\ Len(SubSeq(s, n + 1, Len(s))) =
            IF n + 1 <= Len(s) THEN Len(s) - (n + 1) + 1 ELSE 0
      /\ \A i \in 1 .. Len(s) - (n + 1) + 1 :
            SubSeq(s, n + 1, Len(s))[i] = s[(n + 1) + i - 1]
  BY <1>1, <1>2, <1>4, SubSeqProperties
<1>7. \A i \in 1 .. n : SubSeq(s, 1, n)[i] = s[i]
  BY <1>2, <1>5
<1>8. \A i \in 1 .. Len(s) - n : SubSeq(s, n + 1, Len(s))[i] = s[n + i]
  <2> TAKE i \in 1 .. Len(s) - n
  <2>1. i \in 1 .. Len(s) - (n + 1) + 1 /\ (n + 1) + i - 1 = n + i
    BY <1>1, <1>2
  <2> QED  BY <1>6, <2>1
<1>9. SubSeq(s, 1, n) \o SubSeq(s, n + 1, Len(s)) = SubSeq(s, 1, Len(s))
  <2>1. 1 \in 1 .. Len(s) + 1 /\ n \in 1 - 1 .. Len(s) /\ Len(s) \in n .. Len(s)
    BY <1>1, <1>2
  <2> QED  BY <2>1, ConcatAdjacentSubSeq
<1>10. SubSeq(s, 1, Len(s)) = s
  BY SubSeqFull
<1>11. Len(SubSeq(s, 1, n)) = n /\ Len(SubSeq(s, n + 1, Len(s))) = Len(s) - n
  BY <1>1, <1>2, <1>5, <1>6
<1> QED  BY <1>5, <1>6, <1>7, <1>8, <1>9, <1>10, <1>11

\* The first part of a concatenation, and the rest.
LEMMA SplitCat ==
    ASSUME NEW S, NEW s \in Seq(S), NEW t \in Seq(S)
    PROVE  /\ SubSeq(s \o t, 1, Len(s)) = s
           /\ SubSeq(s \o t, Len(s) + 1, Len(s \o t)) = t
<1>1. /\ s \o t \in Seq(S)
      /\ Len(s) \in Nat /\ Len(t) \in Nat
      /\ Len(s \o t) = Len(s) + Len(t)
      /\ \A i \in 1 .. Len(s) : (s \o t)[i] = s[i]
      /\ \A i \in 1 .. Len(t) : (s \o t)[Len(s) + i] = t[i]
  BY Cat
<1>2. Len(s) \in 0 .. Len(s \o t)
  BY <1>1
<1> DEFINE a == SubSeq(s \o t, 1, Len(s))
           b == SubSeq(s \o t, Len(s) + 1, Len(s \o t))
<1>3. /\ a \in Seq(S) /\ b \in Seq(S)
      /\ Len(a) = Len(s) /\ Len(b) = Len(s \o t) - Len(s)
      /\ \A i \in 1 .. Len(s) : a[i] = (s \o t)[i]
      /\ \A i \in 1 .. Len(s \o t) - Len(s) : b[i] = (s \o t)[Len(s) + i]
  BY <1>1, <1>2, Split
<1> HIDE DEF a, b
<1>4. Len(b) = Len(t)
  BY <1>1, <1>3
<1>5. \A i \in 1 .. Len(a) : a[i] = s[i]
  BY <1>1, <1>3
<1>6. \A i \in 1 .. Len(b) : b[i] = t[i]
  BY <1>1, <1>3
<1>7. a = s
  BY <1>3, <1>5, SeqEqual
<1>8. b = t
  BY <1>3, <1>4, <1>6, SeqEqual
<1> QED  BY <1>7, <1>8 DEF a, b

\* A sequence of one element.
LEMMA Single ==
    ASSUME NEW S, NEW x \in S
    PROVE  <<x>> \in Seq(S) /\ Len(<<x>>) = 1 /\ <<x>>[1] = x
OBVIOUS

\* An element put at the end.
LEMMA CatAppend ==
    ASSUME NEW S, NEW s \in Seq(S), NEW t \in Seq(S), NEW x \in S
    PROVE  /\ Append(t, x) \in Seq(S)
           /\ s \o Append(t, x) \in Seq(S)
           /\ Len(s \o Append(t, x)) = Len(s \o t) + 1
           /\ \A i \in 1 .. Len(s \o t) : (s \o Append(t, x))[i] = (s \o t)[i]
           /\ (s \o Append(t, x))[Len(s \o t) + 1] = x
<1> DEFINE u == s \o t
           v == <<x>>
<1>1. u \in Seq(S) /\ v \in Seq(S) /\ Len(v) = 1 /\ v[1] = x
  BY Cat, Single
<1>2. Append(t, x) = t \o v
  BY AppendIsConcat
<1>3. s \o Append(t, x) = u \o v
  <2> HIDE DEF v
  <2>1. (s \o t) \o v = s \o (t \o v)
    BY <1>1, Assoc
  <2> QED  BY <1>2, <2>1
<1>4. Append(t, x) \in Seq(S)
  BY AppendProperties
<1> HIDE DEF u, v
<1>5. /\ u \o v \in Seq(S) /\ Len(u) \in Nat /\ Len(u \o v) = Len(u) + Len(v)
      /\ \A i \in 1 .. Len(u) : (u \o v)[i] = u[i]
      /\ \A i \in 1 .. Len(v) : (u \o v)[Len(u) + i] = v[i]
  <2>1. u \in Seq(S) /\ v \in Seq(S)
    BY <1>1
  <2> QED  BY <2>1, Cat
<1>6. (u \o v)[Len(u) + 1] = x
  BY <1>1, <1>5
<1> QED  BY <1>1, <1>3, <1>4, <1>5, <1>6 DEF u

\* The first element taken off.
LEMMA CatTail ==
    ASSUME NEW S, NEW s \in Seq(S), s # <<>>, NEW t \in Seq(S)
    PROVE  /\ Tail(s) \in Seq(S)
           /\ Tail(s) \o t \in Seq(S)
           /\ Len(s \o t) \in Nat \ {0}
           /\ Len(Tail(s) \o t) = Len(s \o t) - 1
           /\ (s \o t)[1] = Head(s)
           /\ Head(s) \in S
           /\ \A i \in 1 .. Len(s \o t) - 1 : (Tail(s) \o t)[i] = (s \o t)[i + 1]
<1> DEFINE r == Tail(s)
<1>1. /\ Head(s) \in S /\ r \in Seq(S) /\ Len(r) = Len(s) - 1
      /\ \A i \in 1 .. Len(r) : r[i] = s[i + 1]
  BY HeadTailProperties
<1>2. Len(s) \in Nat \ {0} /\ Head(s) = s[1]
  BY EmptySeq
<1> HIDE DEF r
<1>3. /\ s \o t \in Seq(S) /\ Len(t) \in Nat /\ Len(s \o t) = Len(s) + Len(t)
      /\ \A i \in 1 .. Len(s) : (s \o t)[i] = s[i]
      /\ \A i \in 1 .. Len(t) : (s \o t)[Len(s) + i] = t[i]
  BY Cat
<1>4. /\ r \o t \in Seq(S) /\ Len(r \o t) = Len(r) + Len(t)
      /\ \A i \in 1 .. Len(r) : (r \o t)[i] = r[i]
      /\ \A i \in 1 .. Len(t) : (r \o t)[Len(r) + i] = t[i]
  <2>1. r \in Seq(S)
    BY <1>1
  <2> QED  BY <2>1, Cat
<1>5. ASSUME NEW i \in 1 .. Len(s \o t) - 1 PROVE (r \o t)[i] = (s \o t)[i + 1]
  <2>1. CASE i <= Len(r)
    <3>1. i \in 1 .. Len(r) /\ i + 1 \in 1 .. Len(s)
      BY <1>1, <1>2, <1>3, <2>1
    <3> QED  BY <1>1, <1>3, <1>4, <3>1
  <2>2. CASE ~(i <= Len(r))
    <3> DEFINE j == i - Len(r)
    <3>1. j \in 1 .. Len(t) /\ i = Len(r) + j /\ i + 1 = Len(s) + j
      BY <1>1, <1>2, <1>3, <2>2
    <3> HIDE DEF j
    <3>2. (r \o t)[Len(r) + j] = t[j] /\ (s \o t)[Len(s) + j] = t[j]
      BY <1>3, <1>4, <3>1
    <3> QED  BY <3>1, <3>2
  <2> QED  BY <2>1, <2>2
<1>6. (s \o t)[1] = s[1]
  BY <1>2, <1>3
<1> QED  BY <1>1, <1>2, <1>3, <1>4, <1>5, <1>6 DEF r

=============================================================================
