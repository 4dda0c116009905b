----------------------------- MODULE FoldProofs -----------------------------
(***************************************************************************)
(* What the proofs need of FoldLeft, which is a recursive function over    *)
(* the subsets of a sequence's domain: that the recursion has a solution   *)
(* (Iterates, of the folded operator as a function on a set it maps to     *)
(* itself), and that on the prefixes of the domain it goes one step after  *)
(* the other (Prefix). Then lemmas about lists and about the list of a set.*)
(***************************************************************************)
EXTENDS Integers, Sequences, SequencesExt, FiniteSetTheorems, WellFoundedInduction, TLAPS

-----------------------------------------------------------------------------
(* Numbers. *)

\* A set of naturals that is not empty has a least element.
LEMMA LeastNat ==
  ASSUME NEW T \in SUBSET Nat, T # {}
  PROVE  \E n \in T : \A m \in T : n <= m
<1> DEFINE R == OpToRel(<, Nat)
<1>1. IsWellFoundedOn(R, Nat)
  BY NatLessThanWellFounded
<1>2. \A m, k \in Nat : m < k => <<m, k>> \in R
  BY DEF OpToRel
<1> HIDE DEF R
<1>3. PICK n \in T : \A m \in T : ~ (<<m, n>> \in R)
  BY <1>1, WFMin, Zenon
<1>4. \A m \in T : ~ (m < n)
  BY <1>2, <1>3, Zenon
<1> QED BY <1>4

\* Max is the maximum of a set of naturals that has a bound.
LEMMA MaxOfBounded ==
  ASSUME NEW S \in SUBSET Nat, NEW b \in Nat, S # {}, \A x \in S : x <= b
  PROVE  Max(S) \in S /\ \A x \in S : x <= Max(S)
<1> DEFINE T == {n \in Nat : \A x \in S : x <= n}
<1>1. T \in SUBSET Nat /\ T # {}
  OBVIOUS
<1>2. PICK n \in T : \A m \in T : n <= m
  BY <1>1, LeastNat, Zenon
<1>3. n \in S
  <2>1. SUFFICES ASSUME n \notin S PROVE FALSE
    OBVIOUS
  <2>2. PICK x \in S : TRUE
    OBVIOUS
  <2>3. n - 1 \in Nat /\ \A y \in S : y <= n - 1
    BY <2>1, <2>2
  <2> QED BY <2>3, <1>2
<1>4. \E x \in S : \A y \in S : x >= y
  BY <1>3, <1>2
<1>5. Max(S) \in S /\ \A y \in S : Max(S) >= y
  BY <1>4, Zenon DEF Max
<1> QED BY <1>5

\* d is some number of turns of w.
Turns(w, d) == \E k \in Int : d = k * w

LEMMA TurnsAdd ==
  ASSUME NEW w \in Int, NEW a \in Int, NEW b \in Int, Turns(w, a), Turns(w, b)
  PROVE  Turns(w, a + b) /\ Turns(w, a - b) /\ Turns(w, 0)
<1>1. PICK k \in Int : a = k * w
  BY DEF Turns
<1>2. PICK j \in Int : b = j * w
  BY DEF Turns
<1>3. k + j \in Int /\ k - j \in Int
  OBVIOUS
<1>4. (k + j) * w = k * w + j * w /\ (k - j) * w = k * w - j * w
  OBVIOUS
<1>5. a + b = (k + j) * w /\ a - b = (k - j) * w
  BY <1>1, <1>2, <1>4
<1>6. 0 = 0 * w /\ 0 \in Int
  OBVIOUS
<1>7. Turns(w, a + b)
  BY <1>3, <1>5, Zenon DEF Turns
<1>8. Turns(w, a - b)
  BY <1>3, <1>5, Zenon DEF Turns
<1>9. Turns(w, 0)
  BY <1>6, Zenon DEF Turns
<1> QED BY <1>7, <1>8, <1>9

\* Only nothing is a turn of nothing; else a number is a turn away from its
\* remainder.
LEMMA TurnsAre ==
  ASSUME NEW w \in Nat, NEW x \in Int
  PROVE  /\ Turns(w, 0)
         /\ w = 0 => (Turns(w, x) => x = 0)
         /\ w # 0 => /\ x % w \in Int /\ Turns(w, (x % w) - x)
                     /\ Turns(w, x) => x % w = 0
<1>1. ASSUME w = 0, NEW k \in Int, x = k * w PROVE x = 0
  BY <1>1
<1>2. ASSUME w # 0 PROVE x % w \in Int /\ Turns(w, (x % w) - x)
  <2> DEFINE q == x \div w
  <2>1. w > 0
    BY <1>2
  <2>2. q \in Int /\ -q \in Int /\ x % w \in Int
    BY <2>1
  <2>3. x = w * q + (x % w)
    BY <2>1
  <2>4. (-q) * w = -(w * q)
    BY <2>2
  <2>5. (x % w) - x = (-q) * w
    BY <2>2, <2>3, <2>4
  <2> QED BY <2>2, <2>5 DEF Turns
<1>3. ASSUME w # 0, NEW k \in Int, x = k * w PROVE x % w = 0
  BY <1>3
<1>4. 0 = 0 * w
  OBVIOUS
<1> QED BY <1>1, <1>2, <1>3, <1>4 DEF Turns

\* Induction up to a bound, over a set.
LEMMA UpTo ==
  ASSUME NEW n \in Nat, NEW T, 0 \in T, \A k \in 0..n-1 : k \in T => k + 1 \in T
  PROVE  \A k \in 0..n : k \in T
<1> SUFFICES ASSUME NEW k \in 0..n, k \notin T PROVE FALSE
  OBVIOUS
<1> DEFINE U == {m \in 0..n : m \notin T}
<1>1. U \in SUBSET Nat /\ U # {}
  OBVIOUS
<1>2. PICK m \in U : \A l \in U : m <= l
  BY <1>1, LeastNat, Zenon
<1>3. m # 0 /\ m - 1 \in 0..n-1 /\ m - 1 \notin U
  BY <1>2
<1> QED BY <1>2, <1>3

\* A fold over 1..k steps from 1..k-1 to k.
LEMMA Prefix ==
  ASSUME NEW n \in Nat, NEW k \in 1..n
  PROVE  /\ 1..k # {} /\ 1..k \in SUBSET (1..n)
         /\ Max(1..k) = k /\ (1..k) \ {k} = 1..(k-1)
<1>1. 1..k \in SUBSET Nat /\ 1..k # {} /\ \A x \in 1..k : x <= k
  OBVIOUS
<1>2. Max(1..k) \in 1..k /\ \A x \in 1..k : x <= Max(1..k)
  <2> DEFINE S == 1..k
  <2>1. S \in SUBSET Nat /\ S # {} /\ k \in Nat /\ \A x \in S : x <= k
    BY <1>1
  <2> HIDE DEF S
  <2>2. Max(S) \in S /\ \A x \in S : x <= Max(S)
    BY <2>1, MaxOfBounded
  <2> QED BY <2>2 DEF S
<1>3. Max(1..k) = k
  BY <1>2
<1> QED BY <1>3

-----------------------------------------------------------------------------
(* Lists.                                                                  *)

\* A sequence, of whatever.
Listed(s) == Len(s) \in Nat /\ s = [n \in 1..Len(s) |-> s[n]]

LEMMA ListedIsSeq ==
    ASSUME NEW s
    PROVE  Listed(s) <=> s \in Seq({s[n] : n \in DOMAIN s})
<1>1. ASSUME Listed(s) PROVE s \in Seq({s[n] : n \in DOMAIN s})
  <2>1. DOMAIN s = 1..Len(s)
    BY <1>1 DEF Listed
  <2>2. s \in [1..Len(s) -> {s[n] : n \in DOMAIN s}]
    BY <1>1, <2>1 DEF Listed
  <2> QED BY <1>1, <2>2 DEF Listed
<1>2. ASSUME s \in Seq({s[n] : n \in DOMAIN s}) PROVE Listed(s)
  BY <1>2 DEF Listed
<1> QED BY <1>1, <1>2

LEMMA ListedOf ==
    ASSUME NEW S, NEW s \in Seq(S)
    PROVE  Listed(s)
  BY DEF Listed

LEMMA SeqOfMore ==
    ASSUME NEW S, NEW T, S \subseteq T, NEW s \in Seq(S)
    PROVE  s \in Seq(T)
  OBVIOUS

LEMMA AppendOf ==
    ASSUME NEW s, Listed(s), NEW e
    PROVE  /\ Listed(Append(s, e)) /\ Len(Append(s, e)) = Len(s) + 1
           /\ \A n \in 1..Len(s) : Append(s, e)[n] = s[n]
           /\ Append(s, e)[Len(s) + 1] = e
<1> DEFINE R == {s[n] : n \in DOMAIN s}
           S == R \cup {e}
<1>1. s \in Seq(R)
  BY ListedIsSeq
<1>2. R \subseteq S /\ e \in S
  OBVIOUS
<1> HIDE DEF R, S
<1>3. s \in Seq(S)
  BY <1>1, <1>2, SeqOfMore
<1>4. Append(s, e) \in Seq(S) /\ Len(Append(s, e)) = Len(s) + 1
  BY <1>2, <1>3
<1>5. \A n \in 1..Len(s) : Append(s, e)[n] = s[n]
  BY <1>2, <1>3
<1>6. Append(s, e)[Len(s) + 1] = e
  BY <1>2, <1>3
<1>7. Listed(Append(s, e))
  BY <1>4, ListedOf
<1> QED BY <1>4, <1>5, <1>6, <1>7

LEMMA ConcatOf ==
    ASSUME NEW s, NEW t, Listed(s), Listed(t)
    PROVE  /\ Listed(s \o t) /\ Len(s \o t) = Len(s) + Len(t)
           /\ \A n \in 1..Len(s) : (s \o t)[n] = s[n]
           /\ \A n \in 1..Len(t) : (s \o t)[Len(s) + n] = t[n]
<1> DEFINE R == {s[n] : n \in DOMAIN s}
           T == {t[n] : n \in DOMAIN t}
           S == R \cup T
<1>1. s \in Seq(R) /\ t \in Seq(T)
  BY ListedIsSeq
<1>2. R \subseteq S /\ T \subseteq S
  OBVIOUS
<1> HIDE DEF R, T, S
<1>3. s \in Seq(S) /\ t \in Seq(S)
  BY <1>1, <1>2, SeqOfMore
<1>4. s \o t \in Seq(S) /\ Len(s \o t) = Len(s) + Len(t)
  BY <1>3
<1>5. \A n \in 1..Len(s) : (s \o t)[n] = s[n]
  BY <1>3
<1>6. \A n \in 1..Len(t) : (s \o t)[Len(s) + n] = t[n]
  BY <1>3
<1>7. Listed(s \o t)
  BY <1>4, ListedOf
<1> QED BY <1>4, <1>5, <1>6, <1>7

LEMMA TailOf ==
    ASSUME NEW s, Listed(s), s # << >>
    PROVE  /\ Len(s) \in Nat \ {0} /\ Head(s) = s[1]
           /\ Listed(Tail(s)) /\ Len(Tail(s)) = Len(s) - 1
           /\ \A n \in 1..Len(s) - 1 : Tail(s)[n] = s[n + 1]
<1> DEFINE S == {s[n] : n \in DOMAIN s}
<1>1. s \in Seq(S)
  BY ListedIsSeq
<1> HIDE DEF S
<1>2. Tail(s) \in Seq(S) /\ Len(s) \in Nat \ {0} /\ Head(s) = s[1]
  BY <1>1
<1>3. Len(Tail(s)) = Len(s) - 1
  BY <1>1
<1>4. \A n \in 1..Len(s) - 1 : Tail(s)[n] = s[n + 1]
  BY <1>1
<1>5. Listed(Tail(s))
  BY <1>2, ListedOf
<1> QED BY <1>2, <1>3, <1>4, <1>5

-----------------------------------------------------------------------------
(* Folds. *)

\* The recursion of a fold over the subsets of 1..n.
Iterated(iter, step, b, n) ==
    iter = [S \in SUBSET (1..n) |->
              IF S = {} THEN b ELSE step[<<iter[S \ {Max(S)}], Max(S)>>]]

Solved(f, step, b, m) ==
    \A S \in SUBSET (1..m) : f[S] = IF S = {} THEN b ELSE step[<<f[S \ {Max(S)}], Max(S)>>]

\* It has a solution, whose values are of the kind step maps to itself.
LEMMA Iterates ==
  ASSUME NEW D, NEW b \in D, NEW n \in Nat, NEW step \in [D \X (1..n) -> D]
  PROVE  \E iter \in [SUBSET (1..n) -> D] : Iterated(iter, step, b, n)
<1> DEFINE T == {m \in 0..n : \E f \in [SUBSET (1..m) -> D] : Solved(f, step, b, m)}
<1>1. 0 \in T
  <2> DEFINE f == [S \in SUBSET (1..0) |-> b]
  <2>1. f \in [SUBSET (1..0) -> D]
    OBVIOUS
  <2>2. \A S \in SUBSET (1..0) : S = {} /\ f[S] = b
    OBVIOUS
  <2>3. Solved(f, step, b, 0)
    BY <2>2 DEF Solved
  <2> QED BY <2>1, <2>3
<1>2. ASSUME NEW m \in 0..n-1, m \in T PROVE m + 1 \in T
  <2>1. PICK f \in [SUBSET (1..m) -> D] : Solved(f, step, b, m)
    BY <1>2
  <2> DEFINE g == [S \in SUBSET (1..m+1) |->
                     IF m + 1 \in S THEN step[<<f[S \ {m + 1}], m + 1>>] ELSE f[S]]
  <2>2. ASSUME NEW S \in SUBSET (1..m+1), m + 1 \in S
        PROVE  S # {} /\ Max(S) = m + 1 /\ S \ {m + 1} \in SUBSET (1..m)
    <3>1. m + 1 \in Nat /\ S \in SUBSET Nat /\ S # {} /\ \A x \in S : x <= m + 1
      BY <2>2
    <3>2. Max(S) \in S /\ \A x \in S : x <= Max(S)
      BY <3>1, MaxOfBounded, Zenon
    <3>3. Max(S) = m + 1
      <4> DEFINE x == Max(S)
      <4>1. x \in 1..m+1 /\ m + 1 <= x
        BY <2>2, <3>2
      <4> HIDE DEF x
      <4>2. x = m + 1
        BY <4>1
      <4> QED BY <4>2 DEF x
    <3>4. S \ {m + 1} \in SUBSET (1..m)
      OBVIOUS
    <3> QED BY <3>1, <3>3, <3>4
  <2>3. ASSUME NEW S \in SUBSET (1..m+1), m + 1 \notin S
        PROVE  S \in SUBSET (1..m) /\ (S # {} => Max(S) \in S)
    <3>1. m + 1 \in Nat /\ S \in SUBSET Nat /\ \A x \in S : x <= m + 1
      BY <2>3
    <3>2. S # {} => Max(S) \in S
      BY <3>1, MaxOfBounded, Zenon
    <3> QED BY <2>3, <3>2
  <2>4. g \in [SUBSET (1..m+1) -> D]
    <3>1. ASSUME NEW S \in SUBSET (1..m+1)
          PROVE  (IF m + 1 \in S THEN step[<<f[S \ {m + 1}], m + 1>>] ELSE f[S]) \in D
      <4>1. CASE m + 1 \in S
        BY <4>1, <2>1, <2>2
      <4>2. CASE m + 1 \notin S
        BY <4>2, <2>1, <2>3
      <4> QED BY <4>1, <4>2
    <3> QED BY <3>1
  <2>5. ASSUME NEW S \in SUBSET (1..m+1)
        PROVE  g[S] = IF S = {} THEN b ELSE step[<<g[S \ {Max(S)}], Max(S)>>]
    <3>1. CASE m + 1 \in S
      <4>1. S # {} /\ Max(S) = m + 1 /\ S \ {m + 1} \in SUBSET (1..m)
        BY <2>2, <3>1
      <4>2. g[S \ {m + 1}] = f[S \ {m + 1}]
        BY <4>1
      <4> QED BY <3>1, <4>1, <4>2
    <3>2. CASE m + 1 \notin S
      <4>1. S \in SUBSET (1..m) /\ (S # {} => Max(S) \in S)
        BY <2>3, <3>2
      <4>2. g[S] = f[S] /\ g[S \ {Max(S)}] = f[S \ {Max(S)}]
        BY <3>2, <4>1
      <4>3. f[S] = IF S = {} THEN b ELSE step[<<f[S \ {Max(S)}], Max(S)>>]
        BY <4>1, <2>1, Zenon DEF Solved
      <4> QED BY <4>2, <4>3
    <3> QED BY <3>1, <3>2
  <2>6. Solved(g, step, b, m + 1)
    <3>1. \A S \in SUBSET (1..m+1) :
             g[S] = IF S = {} THEN b ELSE step[<<g[S \ {Max(S)}], Max(S)>>]
      BY <2>5
    <3> HIDE DEF g
    <3> QED BY <3>1 DEF Solved
  <2> HIDE DEF g
  <2>7. m + 1 \in 0..n
    OBVIOUS
  <2> QED BY <2>4, <2>6, <2>7
<1> HIDE DEF T
<1>3. n \in T
  BY <1>1, <1>2, UpTo
<1>4. PICK f \in [SUBSET (1..n) -> D] : Solved(f, step, b, n)
  BY <1>3 DEF T
<1>5. \A S \in SUBSET (1..n) : f[S] = IF S = {} THEN b ELSE step[<<f[S \ {Max(S)}], Max(S)>>]
  BY <1>4, Zenon DEF Solved
<1>6. f = [S \in SUBSET (1..n) |-> f[S]]
  OBVIOUS
<1>7. f = [S \in SUBSET (1..n) |-> IF S = {} THEN b ELSE step[<<f[S \ {Max(S)}], Max(S)>>]]
  BY <1>5, <1>6, Zenon
<1> QED BY <1>7 DEF Iterated

\* The same one step after the other.
Recursion(f, D, b, n, step) ==
    /\ f \in [0..n -> D]
    /\ f[0] = b /\ \A k \in 1..n : f[k] = step[<<f[k-1], k>>]

LEMMA Recurs ==
  ASSUME NEW D, NEW b \in D, NEW n \in Nat, NEW step \in [D \X (1..n) -> D]
  PROVE  \E f : Recursion(f, D, b, n, step)
<1>1. PICK iter \in [SUBSET (1..n) -> D] : Iterated(iter, step, b, n)
  BY Iterates
<1>2. iter = [S \in SUBSET (1..n) |-> IF S = {} THEN b ELSE step[<<iter[S \ {Max(S)}], Max(S)>>]]
  BY <1>1, Zenon DEF Iterated
<1> DEFINE f == [k \in 0..n |-> iter[1..k]]
<1>3. \A k \in 0..n : 1..k \in SUBSET (1..n)
  OBVIOUS
<1>4. f \in [0..n -> D]
  BY <1>1, <1>3
<1>5. f[0] = b
  <2>1. 1..0 = {} /\ {} \in SUBSET (1..n) /\ 0 \in 0..n
    OBVIOUS
  <2> QED BY <1>2, <2>1
<1>6. ASSUME NEW k \in 1..n PROVE f[k] = step[<<f[k-1], k>>]
  <2>1. 1..k # {} /\ 1..k \in SUBSET (1..n) /\ Max(1..k) = k /\ (1..k) \ {k} = 1..(k-1)
    BY Prefix
  <2>2. iter[1..k] = step[<<iter[1..(k-1)], k>>]
    BY <1>2, <2>1
  <2>3. k \in 0..n /\ k - 1 \in 0..n
    OBVIOUS
  <2> QED BY <2>2, <2>3
<1>7. Recursion(f, D, b, n, step)
  BY <1>4, <1>5, <1>6 DEF Recursion
<1> QED BY <1>7

\* Values that are overwritten at the steps A and kept at the others.
Overwrites(val, say, A, n) ==
    \A k \in 1..n : val[k] = IF k \in A THEN say[k] ELSE val[k-1]

\* The last one written stays.
LEMMA LastWrite ==
  ASSUME NEW n \in Nat, NEW A \in SUBSET (1..n), NEW val, NEW say,
         Overwrites(val, say, A, n)
  PROVE  val[n] = IF A = {} THEN val[0] ELSE say[Max(A)]
<1> USE DEF Overwrites
<1>1. ASSUME NEW i \in 0..n, \A j \in i+1..n : j \notin A
      PROVE  val[n] = val[i]
  <2> DEFINE T == {k \in 0..n-i : val[i + k] = val[i]}
  <2>1. 0 \in T
    OBVIOUS
  <2>2. ASSUME NEW k \in 0..n-i-1, k \in T PROVE k + 1 \in T
    <3>1. i + k + 1 \in 1..n /\ i + k + 1 \in i+1..n /\ (i + k + 1) - 1 = i + k
      OBVIOUS
    <3>2. val[i + k + 1] = val[i + k]
      BY <1>1, <3>1
    <3>3. val[i + (k + 1)] = val[i]
      BY <2>2, <3>2
    <3> QED BY <3>3
  <2> HIDE DEF T
  <2>3. n - i \in Nat /\ (n - i) \in 0..(n-i)
    OBVIOUS
  <2>4. \A k \in 0..n-i : k \in T
    BY <2>1, <2>2, <2>3, UpTo
  <2>5. n - i \in T /\ i + (n - i) = n
    BY <2>3, <2>4
  <2> QED BY <2>5 DEF T
<1>2. CASE A = {}
  BY <1>1, <1>2
<1>3. CASE A # {}
  <2>0. \A x \in A : x \in 1..n
    OBVIOUS
  <2>1. A \in SUBSET Nat /\ \A x \in A : x <= n
    BY ONLY <2>0, n \in Nat
  <2>2. Max(A) \in A /\ \A x \in A : x <= Max(A)
    BY <1>3, <2>1, MaxOfBounded
  <2> DEFINE m == Max(A)
  <2>3. m \in 1..n /\ m \in A /\ \A j \in m+1..n : j \notin A
    <3>1. m \in A /\ m \in 1..n
      BY ONLY <2>0, <2>2
    <3> HIDE DEF m
    <3>2. \A x \in A : x <= m
      BY <2>2 DEF m
    <3>3. \A j \in m+1..n : ~(j <= m)
      BY ONLY <3>1, n \in Nat
    <3> QED BY ONLY <3>1, <3>2, <3>3
  <2> HIDE DEF m
  <2>4. val[n] = val[m]
    BY <1>1, <2>3
  <2>5. val[m] = say[m]
    BY <2>3
  <2> QED BY <1>3, <2>4, <2>5 DEF m
<1> QED BY <1>2, <1>3

-----------------------------------------------------------------------------
(* Sums. *)

\* Induction over the subsets of a finite set, by taking an element away.
LEMMA SubsetInduction ==
  ASSUME NEW S, IsFiniteSet(S), NEW P,
         \A T \in SUBSET S : (\A x \in T : T \ {x} \in P) => T \in P
  PROVE  \A T \in SUBSET S : T \in P
<1> DEFINE N == Cardinality(S)
           U == {m \in 0..N : \A T \in SUBSET S : Cardinality(T) <= m => T \in P}
<1>1. N \in Nat /\ \A T \in SUBSET S :
                     IsFiniteSet(T) /\ Cardinality(T) \in Nat /\ Cardinality(T) <= N
  BY FS_Subset, FS_CardinalityType
<1>2. 0 \in U
  <2>1. ASSUME NEW T \in SUBSET S, Cardinality(T) <= 0 PROVE T \in P
    <3>1. Cardinality(T) = 0
      BY <1>1, <2>1
    <3>2. T = {}
      BY <1>1, <3>1, FS_EmptySet
    <3> QED BY <3>2
  <2> QED BY <1>1, <2>1
<1>3. ASSUME NEW m \in 0..N-1, m \in U PROVE m + 1 \in U
  <2>1. ASSUME NEW T \in SUBSET S, Cardinality(T) <= m + 1 PROVE T \in P
    <3>1. ASSUME NEW x \in T PROVE T \ {x} \in P
      <4>1. Cardinality(T \ {x}) = Cardinality(T) - 1
        BY <1>1, FS_RemoveElement
      <4>2. T \ {x} \in SUBSET S /\ Cardinality(T) \in Nat
        BY <1>1
      <4>3. Cardinality(T \ {x}) <= m
        <5> DEFINE a == Cardinality(T)
        <5>1. a \in Nat /\ a <= m + 1 /\ Cardinality(T \ {x}) = a - 1
          BY <2>1, <4>1, <4>2
        <5> HIDE DEF a
        <5> QED BY <5>1
      <4> QED BY <1>3, <4>2, <4>3
    <3> QED BY <3>1
  <2>2. m + 1 \in 0..N
    BY <1>1
  <2> QED BY <2>1, <2>2
<1> HIDE DEF U
<1>4. \A m \in 0..N : m \in U
  BY <1>1, <1>2, <1>3, UpTo
<1>5. N \in U
  BY <1>1, <1>4
<1> QED BY <1>1, <1>5 DEF U

Some(T) == CHOOSE x \in T : TRUE

LEMMA SomeIsIn ==
  ASSUME NEW T, T # {}
  PROVE  Some(T) \in T
  BY DEF Some

\* The recursion of a sum over the subsets of S.
Sums(it, S, f) ==
    \A T \in SUBSET S : it[T] = IF T = {} THEN 0 ELSE f[Some(T)] + it[T \ {Some(T)}]

LEMMA SumExists ==
  ASSUME NEW S, IsFiniteSet(S), NEW f \in [S -> Int]
  PROVE  \E it \in [SUBSET S -> Int] : Sums(it, S, f)
<1> DEFINE N == Cardinality(S)
           D == [SUBSET S -> Int]
           Eq(it, T) == it[T] = IF T = {} THEN 0 ELSE f[Some(T)] + it[T \ {Some(T)}]
           U == {m \in 0..N : \E it \in D : \A T \in SUBSET S : Cardinality(T) <= m => Eq(it, T)}
<1>1. N \in Nat /\ \A T \in SUBSET S :
                     IsFiniteSet(T) /\ Cardinality(T) \in Nat /\ Cardinality(T) <= N
  BY FS_Subset, FS_CardinalityType
<1>2. \A T \in SUBSET S : T # {} => Some(T) \in T /\ T \ {Some(T)} \in SUBSET S
  BY SomeIsIn
<1>3. 0 \in U
  <2> DEFINE it == [T \in SUBSET S |-> 0]
  <2>1. it \in D
    OBVIOUS
  <2>2. ASSUME NEW T \in SUBSET S, Cardinality(T) <= 0 PROVE Eq(it, T)
    <3>1. Cardinality(T) = 0
      BY <1>1, <2>2
    <3>2. T = {}
      BY <1>1, <3>1, FS_EmptySet
    <3> QED BY <3>2
  <2> HIDE DEF it, D, Eq
  <2> QED BY <1>1, <2>1, <2>2
<1>4. ASSUME NEW m \in 0..N-1, m \in U PROVE m + 1 \in U
  <2>1. PICK g \in D : \A T \in SUBSET S : Cardinality(T) <= m => Eq(g, T)
    BY <1>4
  <2> DEFINE h == [T \in SUBSET S |-> IF T = {} THEN 0 ELSE f[Some(T)] + g[T \ {Some(T)}]]
  <2>2. h \in D
    <3>1. ASSUME NEW T \in SUBSET S
          PROVE  (IF T = {} THEN 0 ELSE f[Some(T)] + g[T \ {Some(T)}]) \in Int
      <4>1. CASE T = {}
        BY <4>1
      <4>2. CASE T # {}
        <5>1. f[Some(T)] \in Int /\ g[T \ {Some(T)}] \in Int
          BY <1>2, <2>1, <4>2
        <5> QED BY <4>2, <5>1
      <4> QED BY <4>1, <4>2
    <3> QED BY <3>1
  <2>3. ASSUME NEW T \in SUBSET S, Cardinality(T) <= m + 1 PROVE Eq(h, T)
    <3>1. CASE T = {}
      BY <3>1
    <3>2. CASE T # {}
      <4> DEFINE V == T \ {Some(T)}
      <4>1. V \in SUBSET S /\ Some(T) \in T
        BY <1>2, <3>2
      <4>2. Cardinality(V) = Cardinality(T) - 1 /\ Cardinality(T) \in Nat
        BY <1>1, <4>1, FS_RemoveElement
      <4>3. Cardinality(V) <= m
        <5> DEFINE a == Cardinality(T)
        <5>1. a \in Nat /\ a <= m + 1 /\ Cardinality(V) = a - 1
          BY <2>3, <4>2
        <5> HIDE DEF a, V
        <5> QED BY <5>1
      <4>4. Eq(g, V)
        BY <2>1, <4>1, <4>3
      <4>5. h[V] = g[V]
        BY <4>1, <4>4
      <4>6. h[T] = f[Some(T)] + g[V]
        BY <3>2
      <4> HIDE DEF h
      <4> QED BY <3>2, <4>5, <4>6
    <3> QED BY <3>1, <3>2
  <2>4. m + 1 \in 0..N
    BY <1>1
  <2> HIDE DEF h, D, Eq
  <2> QED BY <2>2, <2>3, <2>4
<1>5. N \in U
  <2> HIDE DEF U
  <2> QED BY <1>1, <1>3, <1>4, UpTo
<1>6. PICK it \in D : \A T \in SUBSET S : Cardinality(T) <= N => Eq(it, T)
  BY <1>5
<1>7. Sums(it, S, f)
  BY <1>1, <1>6 DEF Sums
<1> QED BY <1>6, <1>7

\* The sum does not depend on the element that is taken first.
Takes(it, S, f) == \A T \in SUBSET S : \A y \in T : it[T] = f[y] + it[T \ {y}]

LEMMA SumTakes ==
  ASSUME NEW S, IsFiniteSet(S), NEW f \in [S -> Int], NEW it \in [SUBSET S -> Int], Sums(it, S, f)
  PROVE  Takes(it, S, f)
<1> DEFINE P == {T \in SUBSET S : \A y \in T : it[T] = f[y] + it[T \ {y}]}
<1>1. ASSUME NEW T \in SUBSET S, \A x \in T : T \ {x} \in P PROVE T \in P
  <2>1. ASSUME NEW y \in T PROVE it[T] = f[y] + it[T \ {y}]
    <3> DEFINE x == Some(T)
    <3>1. x \in T /\ T # {}
      BY SomeIsIn
    <3>2. it[T] = f[x] + it[T \ {x}]
      BY <3>1 DEF Sums
    <3> HIDE DEF x
    <3>3. CASE x = y
      BY <3>2, <3>3
    <3>4. CASE x # y
      <4>1. y \in T \ {x} /\ x \in T \ {y} /\ T \ {x} \in P /\ T \ {y} \in P
        BY <1>1, <3>1, <3>4
      <4> DEFINE R == (T \ {x}) \ {y}
      <4>2. (T \ {y}) \ {x} = R /\ R \in SUBSET S
        OBVIOUS
      <4>3. it[T \ {x}] = f[y] + it[R] /\ it[T \ {y}] = f[x] + it[R]
        BY <4>1, <4>2
      <4>4. f[x] \in Int /\ f[y] \in Int /\ it[R] \in Int
        BY <3>1, <4>2
      <4> HIDE DEF R
      <4> QED BY <3>2, <4>3, <4>4
    <3> QED BY <3>3, <3>4
  <2> QED BY <2>1
<1> HIDE DEF P
<1>2. \A T \in SUBSET S : T \in P
  BY <1>1, SubsetInduction
<1> QED BY <1>2 DEF P, Takes

\* Two sums of the same summands are one.
LEMMA SumsAgree ==
  ASSUME NEW S, IsFiniteSet(S), NEW f, NEW it, Sums(it, S, f),
         NEW R, NEW g, NEW ig, Sums(ig, R, g), NEW V \in SUBSET S, V \in SUBSET R,
         \A x \in V : f[x] = g[x]
  PROVE  it[V] = ig[V]
<1> DEFINE P == {T \in SUBSET V : it[T] = ig[T]}
<1>1. ASSUME NEW T \in SUBSET V, \A x \in T : T \ {x} \in P PROVE T \in P
  <2>1. T \in SUBSET S /\ T \in SUBSET R
    OBVIOUS
  <2>2. CASE T = {}
    BY <2>1, <2>2 DEF Sums
  <2>3. CASE T # {}
    <3>1. Some(T) \in T
      BY <2>3, SomeIsIn
    <3>2. it[T \ {Some(T)}] = ig[T \ {Some(T)}] /\ f[Some(T)] = g[Some(T)]
      BY <1>1, <3>1
    <3>3. it[T] = f[Some(T)] + it[T \ {Some(T)}] /\ ig[T] = g[Some(T)] + ig[T \ {Some(T)}]
      BY <2>1, <2>3 DEF Sums
    <3> QED BY <3>2, <3>3
  <2> QED BY <2>2, <2>3
<1> HIDE DEF P
<1>2. IsFiniteSet(V)
  BY FS_Subset
<1>3. \A T \in SUBSET V : T \in P
  BY <1>1, <1>2, SubsetInduction
<1> QED BY <1>3 DEF P

-----------------------------------------------------------------------------
(* Lists.                                                                  *)

\* What FlattenSeq does, list by list.
LEMMA FlattenSteps ==
    ASSUME NEW S, NEW n \in Nat, NEW s \in [1..n -> Seq(S)]
    PROVE  \E g \in [0..n -> Seq(S)] :
              g[0] = << >> /\ (\A k \in 1..n : g[k] = g[k-1] \o s[k]) /\ FlattenSeq(s) = g[n]
<1>0. s \in Seq(Seq(S)) /\ Len(s) = n
  OBVIOUS
<1>1. CASE n = 0
  <2>1. s = << >>
    BY <1>0, <1>1
  <2>2. FlattenSeq(s) = s
    <3> DEFINE flatten == CHOOSE f : f = [i \in 1..Len(s) |->
                                          IF i = 1 THEN s[i] ELSE f[i-1] \o s[i]]
    <3>1. Len(s) = 0
      BY <1>0, <1>1
    <3>2. FlattenSeq(s) = IF Len(s) = 0 THEN s ELSE flatten[Len(s)]
      BY DEF FlattenSeq
    <3> HIDE DEF flatten
    <3> QED BY <3>1, <3>2
  <2> DEFINE g == [i \in 0..0 |-> << >>]
  <2>3. g \in [0..0 -> Seq(S)] /\ g[0] = << >>
    OBVIOUS
  <2> HIDE DEF g
  <2>4. 1..n = {}
    BY <1>1
  <2> QED BY <1>1, <2>1, <2>2, <2>3, <2>4
<1>2. CASE n # 0
  <2> DEFINE From(f, i) == IF i = 1 THEN s[i] ELSE f[i-1] \o s[i]
             flatten == CHOOSE f : f = [i \in 1..n |-> From(f, i)]
             step == [x \in Seq(S) \X (1..n) |-> x[1] \o s[x[2]]]
  <2>1. FlattenSeq(s) = flatten[n]
    BY <1>0, <1>2 DEF FlattenSeq
  <2>2. step \in [Seq(S) \X (1..n) -> Seq(S)] /\ << >> \in Seq(S)
    OBVIOUS
  <2>3. PICK g : Recursion(g, Seq(S), << >>, n, step)
    BY <2>2, Recurs
  <2>4. /\ g \in [0..n -> Seq(S)] /\ g[0] = << >>
        /\ \A k \in 1..n : g[k] = step[<<g[k-1], k>>]
    BY <2>3 DEF Recursion
  <2>5. ASSUME NEW k \in 1..n PROVE g[k] = g[k-1] \o s[k]
    <3>1. g[k-1] \in Seq(S)
      BY <2>4
    <3> QED BY <2>4, <3>1
  <2> HIDE DEF step
  <2> DEFINE h == [i \in 1..n |-> g[i]]
  <2>6. ASSUME NEW i \in 1..n PROVE h[i] = From(h, i)
    <3>1. CASE i = 1
      <4>1. g[1] = g[0] \o s[1] /\ s[1] \in Seq(S)
        BY <2>5, <3>1
      <4>2. << >> \o s[1] = s[1]
        BY <4>1
      <4> QED BY <2>4, <3>1, <4>1, <4>2
    <3>2. CASE i # 1
      <4>1. i - 1 \in 1..n
        BY <3>2
      <4>2. h[i] = g[i] /\ h[i-1] = g[i-1]
        BY <4>1
      <4> HIDE DEF h
      <4> QED BY <2>5, <3>2, <4>2
    <3> QED BY <3>1, <3>2
  <2>7. h = [i \in 1..n |-> From(h, i)]
    <3>1. h = [i \in 1..n |-> h[i]]
      OBVIOUS
    <3> HIDE DEF h, From
    <3> QED BY <2>6, <3>1
  <2>8. flatten = [i \in 1..n |-> From(flatten, i)]
    <3> HIDE DEF h, From
    <3> QED BY <2>7
  <2> HIDE DEF flatten
  <2>9. ASSUME NEW i \in 1..n
        PROVE  flatten[i] = IF i = 1 THEN s[i] ELSE flatten[i-1] \o s[i]
    <3>1. flatten[i] = From(flatten, i)
      <4> HIDE DEF From
      <4> QED BY <2>8
    <3> QED BY <3>1
  <2> HIDE DEF From
  <2> DEFINE T == {i \in 0..n : i = 0 \/ flatten[i] = g[i]}
  <2>10. ASSUME NEW i \in 0..n-1, i \in T PROVE i + 1 \in T
    <3>1. i + 1 \in 1..n /\ (i + 1) - 1 = i /\ i + 1 \in 0..n
      OBVIOUS
    <3>2. s[i + 1] \in Seq(S) /\ g[i + 1] = g[i] \o s[i + 1]
      BY <2>5, <3>1
    <3>3. CASE i = 0
      <4>1. flatten[1] = s[1]
        BY <2>9, <3>1, <3>3
      <4>2. 1 \in 1..n /\ g[1] = g[1-1] \o s[1] /\ 1 - 1 = 0
        BY <2>5, <3>1, <3>3
      <4>3. s[1] \in Seq(S) /\ g[1] = << >> \o s[1]
        BY <2>4, <4>2
      <4>4. \A t \in Seq(S) : << >> \o t = t
        OBVIOUS
      <4>5. g[1] = s[1]
        BY <4>3, <4>4
      <4> QED BY <3>1, <3>3, <4>1, <4>5
    <3>4. CASE i # 0
      <4>1. flatten[i + 1] = flatten[i] \o s[i + 1]
        <5>1. i + 1 # 1
          BY <3>4
        <5> QED BY <2>9, <3>1, <5>1
      <4>2. flatten[i] = g[i]
        BY <2>10, <3>4
      <4> QED BY <3>1, <3>2, <4>1, <4>2
    <3> QED BY <3>3, <3>4
  <2>11. 0 \in T
    OBVIOUS
  <2> HIDE DEF T
  <2>12. \A i \in 0..n : i \in T
    BY <2>10, <2>11, UpTo
  <2>13. flatten[n] = g[n]
    <3>1. n \in 0..n
      OBVIOUS
    <3> QED BY <1>2, <2>12, <3>1 DEF T
  <2> QED BY <2>1, <2>4, <2>5, <2>13
<1> QED BY <1>1, <1>2

\* Lists put one after the other are a list.
LEMMA FlattenIsSeq ==
    ASSUME NEW S, NEW n \in Nat, NEW s \in [1..n -> Seq(S)]
    PROVE  FlattenSeq(s) \in Seq(S)
<1>1. PICK g \in [0..n -> Seq(S)] :
         g[0] = << >> /\ (\A k \in 1..n : g[k] = g[k-1] \o s[k]) /\ FlattenSeq(s) = g[n]
  BY FlattenSteps
<1>2. n \in 0..n
  OBVIOUS
<1> QED BY <1>1, <1>2

\* The list of a finite set has each element once.
Lists(s, S) ==
    /\ Listed(s) /\ \A n \in 1..Len(s) : s[n] \in S
    /\ \A n, m \in 1..Len(s) : s[n] = s[m] => n = m
    /\ Len(s) = 0 => S = {}

LEMMA SetToSeqLists ==
    ASSUME NEW S, IsFiniteSet(S)
    PROVE  Lists(SetToSeq(S), S)
<1> DEFINE N == Cardinality(S)
           s == SetToSeq(S)
<1>1. N \in Nat /\ ExistsBijection(1..N, S)
  BY FS_CardinalityType
<1>2. \E f \in [1..N -> S] : IsInjective(f)
  BY <1>1, Zenon DEF ExistsBijection, Bijection, Injection
<1>3. s \in [1..N -> S] /\ IsInjective(s)
  BY <1>2, Zenon DEF SetToSeq
<1>4. N = 0 => S = {}
  BY FS_EmptySet
<1> HIDE DEF s, N
<1>5. Len(s) = N /\ s \in Seq(S)
  BY <1>1, <1>3
<1>6. Listed(s)
  BY <1>5, ListedOf
<1> QED BY <1>3, <1>4, <1>5, <1>6 DEF Lists, s, IsInjective

LEMMA SubSeqOf ==
    ASSUME NEW s, Listed(s), NEW m \in 1..Len(s) + 1, NEW n \in (m - 1)..Len(s)
    PROVE  /\ Listed(SubSeq(s, m, n)) /\ Len(SubSeq(s, m, n)) = n - m + 1
           /\ \A i \in 1..n - m + 1 : SubSeq(s, m, n)[i] = s[m + i - 1]
<1> DEFINE S == {s[i] : i \in DOMAIN s}
           t == SubSeq(s, m, n)
<1>1. s \in Seq(S) /\ Len(s) \in Nat
  BY ListedIsSeq DEF Listed
<1> HIDE DEF S
<1>2. t = [i \in 1..(1 + n - m) |-> s[i + m - 1]]
  BY <1>1
<1>3. 1 + n - m \in Nat /\ 1 + n - m = n - m + 1
  BY <1>1
<1> HIDE DEF t
<1>4. Len(t) = n - m + 1 /\ Listed(t)
  BY <1>2, <1>3 DEF Listed
<1>5. \A i \in 1..n - m + 1 : t[i] = s[m + i - 1]
  BY <1>1, <1>2
<1> QED BY <1>4, <1>5 DEF t

LEMMA MinOfTwo ==
    ASSUME NEW a \in Nat, NEW b \in Nat
    PROVE  /\ Min({a, b}) \in Nat /\ Min({a, b}) <= a /\ Min({a, b}) <= b
           /\ a <= b => Min({a, b}) = a
<1>1. \E x \in {a, b} : \A y \in {a, b} : x <= y
  OBVIOUS
<1>2. Min({a, b}) \in {a, b} /\ \A y \in {a, b} : Min({a, b}) <= y
  BY <1>1, Zenon DEF Min
<1> QED BY <1>2

LEMMA ReverseOf ==
    ASSUME NEW s, Listed(s)
    PROVE  /\ Listed(Reverse(s)) /\ Len(Reverse(s)) = Len(s)
           /\ \A i \in 1..Len(s) : Reverse(s)[Len(s) - i + 1] = s[i]
<1>1. Len(s) \in Nat
  BY DEF Listed
<1>2. Len(Reverse(s)) = Len(s) /\ Listed(Reverse(s))
  BY <1>1 DEF Reverse, Listed
<1>3. ASSUME NEW i \in 1..Len(s) PROVE Reverse(s)[Len(s) - i + 1] = s[i]
  <2>1. Len(s) - i + 1 \in 1..Len(s) /\ (Len(s) - (Len(s) - i + 1)) + 1 = i
    BY <1>1
  <2> QED BY <2>1 DEF Reverse
<1> QED BY <1>2, <1>3

\* Two lists of distinct items one after the other, as mutations.
IsJoined(l, f, g, a, b) ==
    /\ Listed(l) /\ Len(l) = a + b /\ a \in Nat /\ b \in Nat
    /\ \A n \in 1..Len(l) :
         \/ n \in 1..a /\ l[n] = f[n]
         \/ n - a \in 1..b /\ l[n] = g[n - a]

LEMMA TwoLists ==
    ASSUME NEW s, NEW S, Lists(s, S), NEW t, NEW T, Lists(t, T),
           NEW f, f = [n \in 1..Len(s) |-> f[n]], NEW g, g = [n \in 1..Len(t) |-> g[n]]
    PROVE  IsJoined(f \o g, f, g, Len(s), Len(t))
<1> DEFINE l == f \o g
<1>1. Len(s) \in Nat /\ Len(t) \in Nat
  BY DEF Lists, Listed
<1>2. Len(f) = Len(s) /\ Listed(f) /\ Len(g) = Len(t) /\ Listed(g)
  BY <1>1 DEF Listed
<1>3. /\ Listed(l) /\ Len(l) = Len(s) + Len(t)
      /\ \A n \in 1..Len(s) : l[n] = f[n]
      /\ \A n \in 1..Len(t) : l[Len(s) + n] = g[n]
  BY <1>2, ConcatOf
<1> HIDE DEF l
<1>4. ASSUME NEW n \in 1..Len(l)
      PROVE  \/ n \in 1..Len(s) /\ l[n] = f[n]
             \/ n - Len(s) \in 1..Len(t) /\ l[n] = g[n - Len(s)]
  <2> DEFINE a == Len(s)
             b == Len(t)
             m == n - a
  <2>1. a \in Nat /\ b \in Nat /\ n \in 1..a + b
    BY <1>1, <1>3
  <2> HIDE DEF a, b
  <2>2. n \in 1..a \/ (m \in 1..b /\ a + m = n)
    BY <2>1
  <2> HIDE DEF m
  <2>3. CASE n \in 1..a
    BY <1>3, <2>3 DEF a
  <2>4. CASE m \in 1..b /\ a + m = n
    <3>1. l[a + m] = g[m]
      BY <1>3, <2>4 DEF a, b
    <3> QED BY <2>4, <3>1 DEF a, b, m
  <2> QED BY <2>2, <2>3, <2>4
<1>5. IsJoined(l, f, g, Len(s), Len(t))
  BY <1>1, <1>3, <1>4 DEF IsJoined
<1> QED BY <1>5 DEF l

\* A log with one more op.
Longer(h, l, op) ==
    /\ Listed(h) /\ Len(h) = Len(l) + 1 /\ h[Len(l) + 1] = op
    /\ \A m \in 1..Len(l) : h[m] = l[m]

LEMMA SameList ==
    ASSUME NEW s, Listed(s), NEW t, Listed(t), Len(s) = Len(t),
           \A n \in 1..Len(s) : s[n] = t[n]
    PROVE  s = t
  BY DEF Listed

LEMMA NothingMore ==
    ASSUME NEW s, Listed(s)
    PROVE  Listed(<< >>) /\ s \o << >> = s
<1>1. Listed(<< >>) /\ Len(<< >>) = 0
  BY DEF Listed
<1> DEFINE e == << >>
<1> HIDE DEF e
<1>2. Listed(s \o e) /\ Len(s \o e) = Len(s) /\ \A n \in 1..Len(s) : (s \o e)[n] = s[n]
  <2>1. Len(s) \in Nat /\ Listed(e) /\ Len(e) = 0
    BY <1>1 DEF Listed, e
  <2>2. Listed(s \o e) /\ Len(s \o e) = Len(s) + Len(e) /\ \A n \in 1..Len(s) : (s \o e)[n] = s[n]
    BY <2>1, ConcatOf
  <2> QED BY <2>1, <2>2
<1>3. s \o e = s
  <2> DEFINE t == s \o e
  <2>1. Listed(t) /\ Len(t) = Len(s) /\ \A n \in 1..Len(t) : t[n] = s[n]
    BY <1>2
  <2> HIDE DEF t
  <2>2. t = s
    BY <2>1, SameList
  <2> QED BY <2>2 DEF t
<1> QED BY <1>1, <1>3 DEF e

LEMMA NothingFirst ==
    ASSUME NEW s, Listed(s)
    PROVE  << >> \o s = s
<1> DEFINE e == << >>
           t == e \o s
<1>1. Listed(e) /\ Len(e) = 0 /\ Len(s) \in Nat
  BY DEF Listed
<1> HIDE DEF e
<1>2. Listed(t) /\ Len(t) = Len(e) + Len(s) /\ \A n \in 1..Len(s) : t[Len(e) + n] = s[n]
  BY <1>1, ConcatOf
<1> HIDE DEF t
<1>3. Len(t) = Len(s) /\ \A n \in 1..Len(t) : t[n] = s[n]
  BY <1>1, <1>2
<1>4. t = s
  BY <1>2, <1>3, SameList
<1> QED BY <1>4 DEF t, e

LEMMA OneAfterOther ==
    ASSUME NEW r, Listed(r), NEW s, Listed(s), NEW t, Listed(t)
    PROVE  r \o (s \o t) = (r \o s) \o t
<1> DEFINE A == Len(r)
           B == Len(s)
           C == Len(t)
           m == s \o t
           x == r \o m
           o == r \o s
           y == o \o t
<1>1. A \in Nat /\ B \in Nat /\ C \in Nat
  BY DEF Listed
<1>2. /\ Listed(m) /\ Len(m) = B + C
      /\ \A n \in 1..B : m[n] = s[n]
      /\ \A n \in 1..C : m[B + n] = t[n]
  BY ConcatOf
<1>3. /\ Listed(o) /\ Len(o) = A + B
      /\ \A n \in 1..A : o[n] = r[n]
      /\ \A n \in 1..B : o[A + n] = s[n]
  BY ConcatOf
<1>4. /\ Listed(x) /\ Len(x) = A + Len(m)
      /\ \A n \in 1..A : x[n] = r[n]
      /\ \A n \in 1..Len(m) : x[A + n] = m[n]
  <2> HIDE DEF m
  <2> QED BY <1>2, ConcatOf
<1>5. /\ Listed(y) /\ Len(y) = Len(o) + C
      /\ \A n \in 1..Len(o) : y[n] = o[n]
      /\ \A n \in 1..C : y[Len(o) + n] = t[n]
  <2> HIDE DEF o
  <2> QED BY <1>3, ConcatOf
<1> HIDE DEF m, x, o, y, A, B, C
<1>6. Len(x) = Len(y)
  BY <1>1, <1>2, <1>3, <1>4, <1>5
<1>7. ASSUME NEW n \in 1..Len(x) PROVE x[n] = y[n]
  <2>1. n \in Nat /\ 1 <= n /\ n <= A + B + C
    BY <1>1, <1>2, <1>4
  <2>2. CASE n <= A
    <3>1. n \in 1..A /\ n \in 1..Len(o)
      BY <1>1, <1>3, <2>1, <2>2
    <3> QED BY <1>3, <1>4, <1>5, <3>1
  <2>3. CASE n > A /\ n <= A + B
    <3> DEFINE i == n - A
    <3>1. i \in 1..B /\ n = A + i /\ i \in 1..Len(m) /\ n \in 1..Len(o)
      BY <1>1, <1>2, <1>3, <2>1, <2>3
    <3> HIDE DEF i
    <3> QED BY <1>2, <1>3, <1>4, <1>5, <3>1
  <2>4. CASE n > A + B
    <3> DEFINE i == n - A
               j == i - B
    <3>1. j \in 1..C /\ i = B + j /\ n = A + i /\ i \in 1..Len(m) /\ n = Len(o) + j
      BY <1>1, <1>2, <1>3, <2>1, <2>4
    <3> HIDE DEF i, j
    <3> QED BY <1>2, <1>4, <1>5, <3>1
  <2> QED BY <1>1, <2>1, <2>2, <2>3, <2>4
<1>8. x = y
  BY <1>4, <1>5, <1>6, <1>7, SameList
<1> QED BY <1>8 DEF m, x, o, y

LEMMA TailFirst ==
    ASSUME NEW s, Listed(s), s # << >>, NEW t, Listed(t)
    PROVE  /\ Listed(s \o t) /\ s \o t # << >> /\ Head(s \o t) = Head(s)
           /\ Len(Tail(s) \o t) = Len(s \o t) - 1
           /\ \A n \in 1..Len(s \o t) - 1 : (Tail(s) \o t)[n] = (s \o t)[n + 1]
<1> DEFINE N == Len(s)
           M == Len(t)
           w == s \o t
           r == Tail(s)
           v == r \o t
<1>1. N \in Nat \ {0} /\ Head(s) = s[1] /\ Listed(r) /\ Len(r) = N - 1 /\ \A n \in 1..N - 1 : r[n] = s[n + 1]
  BY TailOf
<1>2. M \in Nat
  BY DEF Listed
<1>3. /\ Listed(w) /\ Len(w) = N + M
      /\ \A n \in 1..N : w[n] = s[n]
      /\ \A n \in 1..M : w[N + n] = t[n]
  BY ConcatOf
<1>4. /\ Listed(v) /\ Len(v) = Len(r) + M
      /\ \A n \in 1..Len(r) : v[n] = r[n]
      /\ \A n \in 1..M : v[Len(r) + n] = t[n]
  <2>1. Listed(r)
    BY <1>1
  <2> HIDE DEF r, w, N
  <2> QED BY <2>1, ConcatOf
<1>5. w # << >>
  <2>1. Len(w) # 0 /\ Len(<< >>) = 0
    BY <1>1, <1>2, <1>3
  <2> QED BY <2>1
<1> HIDE DEF w, v, r, N, M
<1>6. Head(w) = Head(s)
  <2>1. Head(w) = w[1]
    BY <1>3, <1>5, TailOf
  <2>2. 1 \in 1..N
    BY <1>1
  <2> QED BY <1>1, <1>3, <2>1, <2>2
<1>7. Len(v) = Len(w) - 1
  BY <1>1, <1>2, <1>3, <1>4
<1>8. ASSUME NEW n \in 1..Len(w) - 1 PROVE v[n] = w[n + 1]
  <2>1. CASE n \in 1..N - 1
    <3>1. n + 1 \in 1..N
      BY <1>1, <2>1
    <3> QED BY <1>1, <1>3, <1>4, <2>1, <3>1
  <2>2. CASE n \notin 1..N - 1
    <3> DEFINE m == n - (N - 1)
    <3>1. m \in 1..M /\ n = (N - 1) + m /\ n + 1 = N + m
      BY <1>1, <1>2, <1>3, <2>2
    <3> HIDE DEF m
    <3>2. v[n] = t[m]
      BY <1>1, <1>4, <3>1
    <3>3. w[n + 1] = t[m]
      BY <1>3, <3>1
    <3> QED BY <3>2, <3>3
  <2> QED BY <2>1, <2>2
<1> QED BY <1>3, <1>5, <1>6, <1>7, <1>8 DEF w, v, r

LEMMA AppendIsLonger ==
    ASSUME NEW l, Listed(l), NEW op
    PROVE  Longer(Append(l, op), l, op)
  BY AppendOf DEF Longer

\* One op more is that op at the end.
LEMMA LongerByOne ==
    ASSUME NEW l, Listed(l), NEW op, NEW h, Longer(h, l, op),
           NEW o, Listed(o), Len(o) = 1, o[1] = op
    PROVE  h = l \o o
<1> DEFINE v == l \o o
           L == Len(l)
<1>0. L \in Nat
  BY DEF Listed
<1>1. /\ Listed(v) /\ Len(v) = L + Len(o)
      /\ \A n \in 1..L : v[n] = l[n]
      /\ \A n \in 1..Len(o) : v[L + n] = o[n]
  <2>1. Listed(l) /\ Listed(o)
    OBVIOUS
  <2> QED BY ONLY <2>1, ConcatOf
<1>2. 1 \in 1..Len(o)
  OBVIOUS
<1>3. /\ Listed(h) /\ Len(h) = L + 1 /\ h[L + 1] = op
      /\ \A n \in 1..L : h[n] = l[n]
  BY DEF Longer
<1> HIDE DEF v, L
<1>4. Len(v) = L + 1 /\ v[L + 1] = op
  BY <1>1, <1>2
<1>5. \A n \in 1..Len(h) : n \in 1..L \/ n = L + 1
  BY <1>0, <1>3
<1>6. \A n \in 1..Len(h) : h[n] = v[n]
  BY <1>1, <1>3, <1>4, <1>5, Zenon
<1>7. h = v
  BY <1>1, <1>3, <1>4, <1>6, SameList
<1> QED BY <1>7 DEF v

\* Where the elements of s \o t are.
LEMMA ConcatAt ==
    ASSUME NEW s, NEW t, Listed(s), Listed(t)
    PROVE  /\ DOMAIN (s \o t) = 1..(Len(s) + Len(t))
           /\ \A n \in DOMAIN s : n \in DOMAIN (s \o t) /\ (s \o t)[n] = s[n]
           /\ \A n \in DOMAIN t : Len(s) + n \in DOMAIN (s \o t) /\ (s \o t)[Len(s) + n] = t[n]
           /\ \A n \in DOMAIN (s \o t) : n \in DOMAIN s \/ \E m \in DOMAIN t : n = Len(s) + m
<1> DEFINE u == s \o t
<1>1. /\ Listed(u) /\ Len(u) = Len(s) + Len(t)
      /\ \A n \in 1..Len(s) : u[n] = s[n]
      /\ \A n \in 1..Len(t) : u[Len(s) + n] = t[n]
  BY ConcatOf
<1> HIDE DEF u
<1>2. /\ DOMAIN s = 1..Len(s) /\ DOMAIN t = 1..Len(t) /\ DOMAIN u = 1..Len(u)
      /\ Len(s) \in Nat /\ Len(t) \in Nat
  BY <1>1 DEF Listed
<1>3. ASSUME NEW n \in DOMAIN u PROVE n \in DOMAIN s \/ \E m \in DOMAIN t : n = Len(s) + m
  <2>1. n \in 1..(Len(s) + Len(t))
    BY <1>1, <1>2
  <2>2. CASE n > Len(s)
    <3>1. n - Len(s) \in 1..Len(t) /\ n = Len(s) + (n - Len(s))
      BY <1>2, <2>1, <2>2
    <3> QED BY <1>2, <3>1
  <2>3. CASE n <= Len(s)
    BY <1>2, <2>1, <2>3
  <2> QED BY <1>2, <2>1, <2>2, <2>3
<1> QED BY <1>1, <1>2, <1>3 DEF u

LEMMA ConcatHas ==
    ASSUME NEW s, NEW t, Listed(s), Listed(t)
    PROVE  \A x : x \in Range(s \o t) <=> x \in Range(s) \/ x \in Range(t)
<1> DEFINE u == s \o t
<1>1. /\ \A n \in DOMAIN s : n \in DOMAIN u /\ u[n] = s[n]
      /\ \A n \in DOMAIN t : Len(s) + n \in DOMAIN u /\ u[Len(s) + n] = t[n]
      /\ \A n \in DOMAIN u : n \in DOMAIN s \/ \E m \in DOMAIN t : n = Len(s) + m
  BY ConcatAt
<1> HIDE DEF u
<1>2. \A x : x \in Range(u) => x \in Range(s) \/ x \in Range(t)
  BY <1>1 DEF Range
<1>3. \A x : x \in Range(s) => x \in Range(u)
  BY <1>1 DEF Range
<1>4. \A x : x \in Range(t) => x \in Range(u)
  BY <1>1 DEF Range
<1> QED BY <1>2, <1>3, <1>4 DEF u

\* All elements of the lists, and of no others, are in their concatenation.
LEMMA FlattenHas ==
    ASSUME NEW S, NEW n \in Nat, NEW s \in [1..n -> Seq(S)]
    PROVE  \A x : x \in Range(FlattenSeq(s)) <=> \E k \in 1..n : x \in Range(s[k])
<1>1. PICK f \in [0..n -> Seq(S)] :
         f[0] = << >> /\ (\A k \in 1..n : f[k] = f[k-1] \o s[k]) /\ FlattenSeq(s) = f[n]
  BY FlattenSteps
<1> DEFINE U == {k \in 0..n : \A x : x \in Range(f[k]) <=> \E i \in 1..k : x \in Range(s[i])}
<1>2. 0 \in U
  <2>1. Range(f[0]) = {} /\ 1..0 = {} /\ 0 \in 0..n
    BY <1>1 DEF Range
  <2> QED BY <2>1
<1>3. ASSUME NEW k \in 0..n-1, k \in U PROVE k + 1 \in U
  <2> DEFINE j == k + 1
  <2>1. /\ j \in 1..n /\ j \in 0..n /\ j - 1 = k /\ k \in 0..n
        /\ \A i : i \in 1..j <=> i \in 1..k \/ i = j
    OBVIOUS
  <2> HIDE DEF j
  <2>2. f[j] = f[k] \o s[j] /\ f[k] \in Seq(S) /\ s[j] \in Seq(S)
    BY <1>1, <2>1
  <2>3. \A x : x \in Range(f[j]) <=> x \in Range(f[k]) \/ x \in Range(s[j])
    BY <2>2, ListedOf, ConcatHas
  <2>4. \A x : x \in Range(f[k]) <=> \E i \in 1..k : x \in Range(s[i])
    BY <1>3
  <2>5. \A x : x \in Range(f[j]) <=> \E i \in 1..j : x \in Range(s[i])
    BY <2>1, <2>3, <2>4
  <2> QED BY <2>1, <2>5 DEF j
<1> HIDE DEF U
<1>4. \A k \in 0..n : k \in U
  BY <1>2, <1>3, UpTo
<1>5. n \in 0..n
  OBVIOUS
<1> QED BY <1>1, <1>4, <1>5 DEF U

\* Lists that have nothing in common, and nothing twice.
LEMMA FlattenIsInjective ==
    ASSUME NEW S, NEW n \in Nat, NEW s \in [1..n -> Seq(S)],
           \A k \in 1..n : IsInjective(s[k]),
           \A k, i \in 1..n : k # i => Range(s[k]) \cap Range(s[i]) = {}
    PROVE  IsInjective(FlattenSeq(s))
<1>1. PICK f \in [0..n -> Seq(S)] :
         f[0] = << >> /\ (\A k \in 1..n : f[k] = f[k-1] \o s[k]) /\ FlattenSeq(s) = f[n]
  BY FlattenSteps, ZenonT(40)
<1> DEFINE Has(k) == \A x : x \in Range(f[k]) => \E i \in 1..k : x \in Range(s[i])
           U == {k \in 0..n : IsInjective(f[k]) /\ Has(k)}
<1>2. 0 \in U
  <2>1. Range(f[0]) = {} /\ DOMAIN f[0] = {} /\ 0 \in 0..n
    BY <1>1 DEF Range
  <2> QED BY <2>1 DEF IsInjective
<1>3. ASSUME NEW k \in 0..n-1, k \in U PROVE k + 1 \in U
  <2> DEFINE j == k + 1
             a == f[k]
             b == s[j]
             u == f[j]
  <2>1. j \in 1..n /\ j \in 0..n /\ j - 1 = k /\ k \in 0..n /\ (\A i \in 1..k : i \in 1..n /\ i \in 1..j /\ i # j)
    OBVIOUS
  <2> HIDE DEF j
  <2>9. f[k] \in Seq(S) /\ s[j] \in Seq(S)
    BY <1>1, <2>1
  <2>2. u = a \o b /\ Listed(a) /\ Listed(b)
    <3>1. f[j] = f[k] \o s[j]
      BY <1>1, <2>1
    <3> QED BY <2>9, <3>1, ListedOf
  <2>3. IsInjective(a) /\ IsInjective(b) /\ Has(k)
    BY <1>3, <2>1
  <2>4. Range(a) \cap Range(b) = {}
    BY <2>1, <2>3
  <2> HIDE DEF a, b, u
  <2>5. /\ \A i \in DOMAIN a : i \in DOMAIN u /\ u[i] = a[i]
        /\ \A i \in DOMAIN b : Len(a) + i \in DOMAIN u /\ u[Len(a) + i] = b[i]
        /\ \A i \in DOMAIN u : i \in DOMAIN a \/ \E h \in DOMAIN b : i = Len(a) + h
    <3> DEFINE v == a \o b
    <3>1. Listed(a) /\ Listed(b)
      BY <2>2
    <3>2. /\ \A i \in DOMAIN a : i \in DOMAIN v /\ v[i] = a[i]
          /\ \A i \in DOMAIN b : Len(a) + i \in DOMAIN v /\ v[Len(a) + i] = b[i]
          /\ \A i \in DOMAIN v : i \in DOMAIN a \/ \E h \in DOMAIN b : i = Len(a) + h
      BY <3>1, ConcatAt
    <3>3. u = v
      BY <2>2
    <3> HIDE DEF v
    <3> QED BY <3>2, <3>3
  <2>6. IsInjective(u)
    <3> SUFFICES ASSUME NEW p \in DOMAIN u, NEW q \in DOMAIN u, u[p] = u[q] PROVE p = q
      BY DEF IsInjective
    <3>1. CASE p \in DOMAIN a /\ q \in DOMAIN a
      BY <2>3, <2>5, <3>1 DEF IsInjective
    <3>2. CASE (\E h \in DOMAIN b : p = Len(a) + h) /\ \E h \in DOMAIN b : q = Len(a) + h
      BY <2>3, <2>5, <3>2 DEF IsInjective
    <3>3. \A i \in DOMAIN a, h \in DOMAIN b : a[i] # b[h]
      <4>1. (\A i \in DOMAIN a : a[i] \in Range(a)) /\ \A h \in DOMAIN b : b[h] \in Range(b)
        BY DEF Range
      <4> QED BY <2>4, <4>1
    <3> QED BY <2>5, <3>1, <3>2, <3>3
  <2>7. Has(j)
    <3>1. \A x : x \in Range(u) => x \in Range(a) \/ x \in Range(b)
      BY <2>2, ConcatHas
    <3>2. j \in 1..j
      BY <2>1
    <3> QED BY <2>1, <2>3, <3>1, <3>2 DEF a, b, u
  <2> QED BY <2>1, <2>6, <2>7 DEF j, u
<1> HIDE DEF U
<1>4. \A k \in 0..n : k \in U
  BY <1>2, <1>3, UpTo
<1>5. n \in 0..n
  OBVIOUS
<1> QED BY <1>1, <1>4, <1>5 DEF U

\* s with b put in after its first p elements.
Squeezed(s, p, b) ==
    [i \in 1..Len(s) + 1 |-> IF i <= p THEN s[i] ELSE IF i = p + 1 THEN b ELSE s[i - 1]]

IsSqueezed(t, s, p, b) ==
    /\ Listed(t) /\ Len(t) = Len(s) + 1 /\ DOMAIN t = 1..Len(s) + 1
    /\ \A i \in 1..p : i \in 1..Len(s) /\ t[i] = s[i]
    /\ t[p + 1] = b
    /\ \A i \in p + 1..Len(s) : i \in 1..Len(s) /\ t[i + 1] = s[i]
    /\ \A i \in 1..Len(s) + 1 : i \in 1..p \/ i = p + 1 \/ \E j \in p + 1..Len(s) : i = j + 1

LEMMA SqueezedIs ==
    ASSUME NEW s, Listed(s), NEW p \in 0..Len(s), NEW b, NEW t, t = Squeezed(s, p, b)
    PROVE  IsSqueezed(t, s, p, b)
<1> DEFINE n == Len(s)
<1>1. n \in Nat /\ p \in Nat /\ p <= n
  BY DEF Listed
<1> HIDE DEF n
<1>2. t = [i \in 1..n + 1 |-> IF i <= p THEN s[i] ELSE IF i = p + 1 THEN b ELSE s[i - 1]]
  BY DEF Squeezed, n
<1>3. Listed(t) /\ Len(t) = n + 1 /\ DOMAIN t = 1..n + 1
  BY <1>1, <1>2 DEF Listed
<1>4. \A i \in 1..p : i \in 1..n /\ t[i] = s[i]
  BY <1>1, <1>2
<1>5. t[p + 1] = b
  BY <1>1, <1>2
<1>6. \A i \in p + 1..n : i \in 1..n /\ t[i + 1] = s[i]
  <2> TAKE i \in p + 1..n
  <2>1. i \in 1..n /\ i + 1 \in 1..n + 1 /\ ~ (i + 1 <= p) /\ i + 1 # p + 1 /\ (i + 1) - 1 = i
    BY <1>1
  <2> QED BY <1>2, <2>1
<1>7. ASSUME NEW i \in 1..n + 1 PROVE i \in 1..p \/ i = p + 1 \/ \E j \in p + 1..n : i = j + 1
  <2>1. i > p + 1 => i - 1 \in p + 1..n /\ i = (i - 1) + 1
    BY <1>1
  <2> QED BY <1>1, <2>1
<1> QED BY <1>3, <1>4, <1>5, <1>6, <1>7 DEF IsSqueezed, n

\* It has b besides.
LEMMA SqueezedHas ==
    ASSUME NEW s, Listed(s), NEW p \in 0..Len(s), NEW b, b \notin Range(s), IsInjective(s),
           NEW t, t = Squeezed(s, p, b)
    PROVE  IsInjective(t) /\ \A i : i \in Range(t) <=> i \in Range(s) \/ i = b
<1> DEFINE n == Len(s)
<1>1. n \in Nat /\ p \in Nat /\ p <= n /\ DOMAIN s = 1..n
  BY DEF Listed
<1>2. /\ DOMAIN t = 1..n + 1
      /\ \A i \in 1..p : i \in 1..n /\ t[i] = s[i]
      /\ t[p + 1] = b
      /\ \A i \in p + 1..n : i \in 1..n /\ t[i + 1] = s[i]
      /\ \A i \in 1..n + 1 : i \in 1..p \/ i = p + 1 \/ \E j \in p + 1..n : i = j + 1
  <2>1. IsSqueezed(t, s, p, b)
    BY SqueezedIs
  <2> QED BY <2>1 DEF IsSqueezed
<1> HIDE DEF n
<1>3. \A i \in 1..n : s[i] \in Range(s)
  BY <1>1 DEF Range
\* What is at i.
<1> DEFINE At1(i) == i \in 1..p /\ i \in 1..n /\ t[i] = s[i]
           At3(i) == \E j \in p + 1..n : j \in 1..n /\ i = j + 1 /\ t[i] = s[j]
<1>4. ASSUME NEW i \in DOMAIN t PROVE At1(i) \/ (i = p + 1 /\ t[i] = b) \/ At3(i)
  <2>1. CASE i \in 1..p
    BY <1>2, <2>1
  <2>2. CASE i = p + 1
    BY <1>2, <2>2
  <2>3. ASSUME NEW j \in p + 1..n, i = j + 1 PROVE At3(i)
    BY <1>2, <2>3
  <2> QED BY <1>2, <2>1, <2>2, <2>3
<1>5. \A i : i \in Range(t) <=> i \in Range(s) \/ i = b
  <2>1. \A i \in DOMAIN t : t[i] \in Range(s) \/ t[i] = b
    BY <1>3, <1>4
  <2>2. ASSUME NEW i \in 1..n PROVE s[i] \in Range(t)
    <3>1. i \in 1..p \/ i \in p + 1..n
      BY <1>1
    <3>2. i \in 1..n + 1 /\ i + 1 \in 1..n + 1
      BY <1>1
    <3> QED BY <1>2, <3>1, <3>2 DEF Range
  <2>3. b \in Range(t)
    <3>1. p + 1 \in DOMAIN t
      BY <1>1, <1>2
    <3> QED BY <1>2, <3>1 DEF Range
  <2> QED BY <1>1, <2>1, <2>2, <2>3 DEF Range
<1>6. ASSUME NEW i \in DOMAIN t, NEW j \in DOMAIN t, t[i] = t[j] PROVE i = j
  <2>0. \A h, k \in 1..n : s[h] = s[k] => h = k
    BY <1>1 DEF IsInjective
  <2>1. CASE i = p + 1
    BY <1>3, <1>4, <1>6, <2>1
  <2>2. CASE j = p + 1
    BY <1>3, <1>4, <1>6, <2>2
  <2>3. CASE i # p + 1 /\ j # p + 1
    <3>1. PICK h \in 1..n : t[i] = s[h] /\ ((h = i /\ i \in 1..p) \/ (h \in p + 1..n /\ i = h + 1))
      <4>1. At1(i) \/ At3(i)
        BY <1>4, <2>3
      <4> QED BY <4>1
    <3>2. PICK k \in 1..n : t[j] = s[k] /\ ((k = j /\ j \in 1..p) \/ (k \in p + 1..n /\ j = k + 1))
      <4>1. At1(j) \/ At3(j)
        BY <1>4, <2>3
      <4> QED BY <4>1
    <3>3. h = k
      BY <1>6, <2>0, <3>1, <3>2
    <3> QED BY <1>1, <3>1, <3>2, <3>3
  <2> QED BY <2>1, <2>2, <2>3
<1> QED BY <1>5, <1>6 DEF IsInjective

\* The list of a finite set has every element.
LEMMA SetToSeqHas ==
    ASSUME NEW S, IsFiniteSet(S)
    PROVE  \A x \in S : \E n \in 1..Len(SetToSeq(S)) : SetToSeq(S)[n] = x
<1> DEFINE N == Cardinality(S)
           s == SetToSeq(S)
<1>1. N \in Nat /\ ExistsBijection(1..N, S)
  BY FS_CardinalityType
<1>2. \E f \in [1..N -> S] : IsInjective(f)
  BY <1>1, Zenon DEF ExistsBijection, Bijection, Injection
<1>3. s \in [1..N -> S] /\ IsInjective(s)
  BY <1>2, Zenon DEF SetToSeq
<1> HIDE DEF s
<1>4. s \in Injection(1..N, S)
  BY <1>3 DEF Injection
<1>5. Cardinality(1..N) = N /\ IsFiniteSet(1..N)
  BY <1>1, FS_Interval
<1>6. s \in Surjection(1..N, S)
  BY <1>4, <1>5, FS_Injection DEF N
<1>7. Len(s) = N
  BY <1>1, <1>3
<1>8. \A x \in S : \E n \in 1..N : s[n] = x
  BY <1>6 DEF Surjection
<1> QED BY <1>7, <1>8 DEF s

\* Two lists of mutations, of the elements of S and of T.
IsBoth(ms, s, t, f, g) ==
    /\ \A n \in 1..Len(ms) : \/ \E j \in 1..Len(s) : ms[n] = f[j]
                             \/ \E j \in 1..Len(t) : ms[n] = g[j]
    /\ \A j \in 1..Len(s) : \E n \in 1..Len(ms) : ms[n] = f[j]
    /\ \A j \in 1..Len(t) : \E n \in 1..Len(ms) : ms[n] = g[j]

LEMMA BothAre ==
    ASSUME NEW s, NEW S, Lists(s, S), NEW t, NEW T, Lists(t, T),
           NEW f, f = [n \in 1..Len(s) |-> f[n]], NEW g, g = [n \in 1..Len(t) |-> g[n]]
    PROVE  IsBoth(f \o g, s, t, f, g)
<1> DEFINE l == f \o g
           a == Len(s)
           b == Len(t)
<1>1. a \in Nat /\ b \in Nat
  BY DEF Lists, Listed
<1>2. Len(f) = a /\ Listed(f) /\ Len(g) = b /\ Listed(g)
  BY <1>1 DEF Listed
<1>3. /\ Len(l) = a + b
      /\ \A n \in 1..a : l[n] = f[n]
      /\ \A n \in 1..b : l[a + n] = g[n]
  BY <1>2, ConcatOf
<1>4. \A n \in 1..Len(l) : \/ n \in 1..a /\ l[n] = f[n]
                           \/ n - a \in 1..b /\ l[n] = g[n - a]
  <2>1. IsJoined(l, f, g, a, b)
    BY TwoLists
  <2> HIDE DEF l, a, b
  <2> QED BY <2>1 DEF IsJoined
<1> HIDE DEF l, a, b
<1>5. \A n \in 1..Len(l) : (\E j \in 1..a : l[n] = f[j]) \/ \E j \in 1..b : l[n] = g[j]
  BY <1>4
<1>6. \A j \in 1..a : \E n \in 1..Len(l) : l[n] = f[j]
  <2> TAKE j \in 1..a
  <2>1. j \in 1..Len(l)
    BY <1>1, <1>3
  <2>2. l[j] = f[j]
    BY <1>3
  <2> QED BY <2>1, <2>2
<1>7. \A j \in 1..b : \E n \in 1..Len(l) : l[n] = g[j]
  <2> TAKE j \in 1..b
  <2> DEFINE n == a + j
  <2>1. n \in 1..Len(l)
    BY <1>1, <1>3
  <2>2. l[n] = g[j]
    BY <1>3
  <2> HIDE DEF n
  <2> QED BY <2>1, <2>2
<1>8. IsBoth(l, s, t, f, g)
  BY <1>5, <1>6, <1>7 DEF IsBoth, a, b
<1> QED BY <1>8 DEF l
=============================================================================
