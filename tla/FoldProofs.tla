----------------------------- MODULE FoldProofs -----------------------------
(***************************************************************************)
(* What FoldLeft computes, for any step and any number of elements.  A     *)
(* module that folds instantiates Step and Base with its own, and takes    *)
(* FoldLeft apart down to Iter.                                            *)
(***************************************************************************)
EXTENDS Integers, WellFoundedInduction, TLAPS

CONSTANTS
  Step(_, _), \* the result after one more element
  Base        \* the result for no element

-----------------------------------------------------------------------------
(* Induction without an operator for the property *)

\* A set of numbers that is not empty has a least member.
LEMMA LeastNumber ==
  ASSUME NEW T, T \subseteq Nat, T # { }
  PROVE  \E x \in T : \A y \in T : x <= y
<1>1. IsWellFoundedOn(OpToRel(<, Nat), Nat)
  BY NatLessThanWellFounded, Zenon
<1>2. PICK x \in T : \A y \in T : ~(<< y, x >> \in OpToRel(<, Nat))
  BY <1>1, WFMin, Zenon
<1>3. ASSUME NEW y \in T, y < x PROVE FALSE
  BY <1>2, <1>3, Zenon DEF OpToRel
<1>4. QED
  BY <1>3

\* A set that holds 0, and m if it holds m - 1, holds all numbers up to n.
LEMMA UpTo ==
  ASSUME NEW n \in Nat, NEW G, 0 \in G, \A m \in 1 .. n : m - 1 \in G => m \in G
  PROVE  \A m \in 0 .. n : m \in G
<1> DEFINE T == { m \in 0 .. n : m \notin G }
<1>1. SUFFICES ASSUME T # { } PROVE FALSE
  OBVIOUS
<1>2. PICK m \in T : \A y \in T : m <= y
  <2>1. T \subseteq Nat
    OBVIOUS
  <2> HIDE DEF T
  <2>2. QED
    BY <1>1, <2>1, LeastNumber
<1>3. m \in 1 .. n /\ m - 1 \in 0 .. n
  BY <1>2
<1>4. m - 1 \in G
  BY <1>2, <1>3
<1>5. QED
  BY <1>2, <1>3, <1>4

-----------------------------------------------------------------------------
(* The recursion in FoldLeft *)

\* The greatest element of S.
Greatest(S) == CHOOSE x \in S : \A y \in S : x >= y

\* it is what FoldLeft chooses, for a sequence s of length n.
Iter(it, s, n) ==
  it = [S \in SUBSET (1 .. n) |->
          IF S = { } THEN Base ELSE Step(it[S \ { Greatest(S) }], s[Greatest(S)])]

\* The result for the first n elements of s.
Folded(s, n) == (CHOOSE it : Iter(it, s, n))[1 .. n]

\* A set of indices has a greatest element.
LEMMA GreatestIs ==
  ASSUME NEW n \in Nat, NEW S, S \subseteq 1 .. n, S # { }
  PROVE  Greatest(S) \in S /\ \A y \in S : y <= Greatest(S)
<1> DEFINE T == { n - x : x \in S }
<1>1. T \subseteq Nat /\ T # { }
  OBVIOUS
<1>2. PICK z \in T : \A y \in T : z <= y
  BY <1>1, LeastNumber
<1>3. \E x \in S : \A y \in S : x >= y
  <2>1. PICK x \in S : z = n - x
    BY <1>2
  <2>2. ASSUME NEW y \in S PROVE x >= y
    <3>1. n - y \in T
      OBVIOUS
    <3>2. QED
      BY <1>2, <2>1, <3>1
  <2>3. QED
    BY <2>2
<1>4. Greatest(S) \in S /\ \A y \in S : Greatest(S) >= y
  BY <1>3, Zenon DEF Greatest
<1>5. QED
  BY <1>4

\* The recursion is well-defined.
LEMMA IterExists ==
  ASSUME NEW n \in Nat, NEW s
  PROVE  \E it : Iter(it, s, n)
<1> DEFINE G == { m \in Nat : \E it : Iter(it, s, m) }
<1>1. 0 \in G
  <2>1. Iter([S \in SUBSET (1 .. 0) |-> Base], s, 0)
    BY DEF Iter
  <2>2. QED
    BY <2>1
<1>2. ASSUME NEW m \in 1 .. n, m - 1 \in G PROVE m \in G
  <2>1. PICK h : Iter(h, s, m - 1)
    BY <1>2
  <2> DEFINE it == [S \in SUBSET (1 .. m) |->
                      IF m \in S THEN Step(h[S \ { m }], s[m]) ELSE h[S]]
  <2>2. ASSUME NEW S \in SUBSET (1 .. m), m \notin S
        PROVE  S \in SUBSET (1 .. (m - 1)) /\ it[S] = h[S]
    BY <2>2
  <2>3. ASSUME NEW S \in SUBSET (1 .. m)
        PROVE  it[S] = IF S = { } THEN Base ELSE Step(it[S \ { Greatest(S) }], s[Greatest(S)])
    <3>1. CASE m \in S
      <4>1. Greatest(S) = m
        <5>1. m \in Nat /\ S \subseteq 1 .. m /\ S # { }
          BY <3>1
        <5>2. Greatest(S) \in S /\ m <= Greatest(S)
          BY <3>1, <5>1, GreatestIs
        <5>3. \A y \in 1 .. m : m <= y => y = m
          OBVIOUS
        <5>4. QED
          BY <5>1, <5>2, <5>3
      <4>2. it[S \ { m }] = h[S \ { m }]
        BY <2>2
      <4>3. QED
        BY <3>1, <4>1, <4>2
    <3>2. CASE m \notin S
      <4>1. S \in SUBSET (1 .. (m - 1)) /\ it[S] = h[S]
        BY <2>2, <3>2
      <4>2. h[S] = IF S = { } THEN Base ELSE Step(h[S \ { Greatest(S) }], s[Greatest(S)])
        BY <2>1, <4>1, Zenon DEF Iter
      <4>3. it[S \ { Greatest(S) }] = h[S \ { Greatest(S) }]
        BY <2>2, <3>2
      <4>4. QED
        BY <4>1, <4>2, <4>3, Zenon
    <3>3. QED
      BY <3>1, <3>2
  <2>4. Iter(it, s, m)
    BY <2>3 DEF Iter
  <2>5. QED
    BY <2>4
<1>3. \A m \in 1 .. n : m - 1 \in G => m \in G
  BY <1>2
<1>4. n \in G
  <2> HIDE DEF G
  <2>1. QED
    BY <1>1, <1>3, UpTo
<1>5. QED
  BY <1>4

\* The fold of nothing.
THEOREM FoldEmpty ==
  ASSUME NEW s
  PROVE  Folded(s, 0) = Base
<1>1. PICK it : it = (CHOOSE g : Iter(g, s, 0)) /\ Iter(it, s, 0)
  BY IterExists, Zenon
<1>2. 1 .. 0 = { }
  OBVIOUS
<1>3. QED
  BY <1>1, <1>2, Zenon DEF Iter, Folded

\* Two recursions over sequences that agree up to n give the same result there.
LEMMA IterAgrees ==
  ASSUME NEW m \in Nat, NEW n \in Nat, NEW l \in Nat, n <= m, n <= l,
         NEW s, NEW t, NEW g, NEW h, Iter(g, s, m), Iter(h, t, l),
         \A k \in 1 .. n : s[k] = t[k]
  PROVE  g[1 .. n] = h[1 .. n]
<1> DEFINE G == { k \in Nat : k <= n => g[1 .. k] = h[1 .. k] }
<1>1. g[{ }] = Base /\ h[{ }] = Base
  BY Zenon DEF Iter
<1>2. 0 \in G
  BY <1>1
<1>3. ASSUME NEW k \in 1 .. n, k - 1 \in G PROVE k \in G
  <2>1. 1 .. k \in SUBSET (1 .. m) /\ 1 .. k \in SUBSET (1 .. l) /\ 1 .. k # { }
    OBVIOUS
  <2>2. Greatest(1 .. k) = k
    <3>1. k \in Nat /\ 1 .. k \subseteq 1 .. k /\ k \in 1 .. k
      OBVIOUS
    <3>2. Greatest(1 .. k) \in 1 .. k /\ k <= Greatest(1 .. k)
      BY <2>1, <3>1, GreatestIs
    <3>3. QED
      BY <3>2
  <2>3. (1 .. k) \ { k } = 1 .. (k - 1)
    OBVIOUS
  <2>4. g[1 .. k] = Step(g[1 .. (k - 1)], s[k])
    BY <2>1, <2>2, <2>3, Zenon DEF Iter
  <2>5. h[1 .. k] = Step(h[1 .. (k - 1)], t[k])
    BY <2>1, <2>2, <2>3, Zenon DEF Iter
  <2>6. g[1 .. (k - 1)] = h[1 .. (k - 1)]
    BY <1>3
  <2>7. g[1 .. k] = h[1 .. k]
    BY <2>4, <2>5, <2>6
  <2>8. QED
    BY <2>7
<1>4. \A k \in 1 .. n : k - 1 \in G => k \in G
  BY <1>3
<1>5. n \in G
  <2> HIDE DEF G
  <2>1. QED
    BY <1>2, <1>4, UpTo
<1>6. QED
  BY <1>5

\* The fold of one element more, of a sequence t that begins as s does.
THEOREM FoldAppend ==
  ASSUME NEW n \in Nat, NEW s, NEW t, \A k \in 1 .. n : s[k] = t[k]
  PROVE  Folded(t, n + 1) = Step(Folded(s, n), t[n + 1])
<1>1. PICK g : g = (CHOOSE it : Iter(it, s, n)) /\ Iter(g, s, n)
  BY IterExists, Zenon
<1>2. PICK h : h = (CHOOSE it : Iter(it, t, n + 1)) /\ Iter(h, t, n + 1)
  <2>1. n + 1 \in Nat
    OBVIOUS
  <2>2. QED
    BY <2>1, IterExists, Zenon
<1>3. g[1 .. n] = h[1 .. n]
  <2>1. n + 1 \in Nat /\ n <= n /\ n <= n + 1
    OBVIOUS
  <2>2. QED
    BY <1>1, <1>2, <2>1, IterAgrees
<1>4. 1 .. (n + 1) \in SUBSET (1 .. (n + 1)) /\ 1 .. (n + 1) # { }
  <2>1. n + 1 \in 1 .. (n + 1)
    OBVIOUS
  <2>2. QED
    BY <2>1
<1>5. Greatest(1 .. (n + 1)) = n + 1
  <2>1. n + 1 \in Nat /\ 1 .. (n + 1) \subseteq 1 .. (n + 1) /\ n + 1 \in 1 .. (n + 1)
    OBVIOUS
  <2>2. Greatest(1 .. (n + 1)) \in 1 .. (n + 1) /\ n + 1 <= Greatest(1 .. (n + 1))
    BY <1>4, <2>1, GreatestIs
  <2>3. QED
    BY <2>2
<1>6. (1 .. (n + 1)) \ { n + 1 } = 1 .. n
  OBVIOUS
<1>7. h[1 .. (n + 1)] = Step(h[1 .. n], t[n + 1])
  BY <1>2, <1>4, <1>5, <1>6, Zenon DEF Iter
<1>8. QED
  BY <1>1, <1>2, <1>3, <1>7, Zenon DEF Folded

\* The fold of one element more of the same sequence.
LEMMA FoldNext ==
  ASSUME NEW n \in Nat, NEW k, k = n + 1, NEW s
  PROVE  Folded(s, k) = Step(Folded(s, n), s[k])
BY FoldAppend

\* Sequences that differ only in elements which no result depends on are
\* folded to the same.
THEOREM FoldSimilar ==
  ASSUME NEW n \in Nat, NEW s, NEW t,
         \A k \in 1 .. n : s[k] = t[k] \/ \A r : Step(r, s[k]) = r /\ Step(r, t[k]) = r
  PROVE  Folded(s, n) = Folded(t, n)
<1> DEFINE G == { k \in Nat : k <= n => Folded(s, k) = Folded(t, k) }
<1>1. 0 \in G
  BY FoldEmpty
<1>2. ASSUME NEW k \in 1 .. n, k - 1 \in G PROVE k \in G
  <2>1. k - 1 \in Nat /\ (k - 1) + 1 = k /\ k \in Nat
    OBVIOUS
  <2>2. Folded(s, k) = Step(Folded(s, k - 1), s[k]) /\ Folded(t, k) = Step(Folded(t, k - 1), t[k])
    BY <2>1, FoldNext
  <2>3. Folded(s, k - 1) = Folded(t, k - 1)
    BY <1>2
  <2>4. Folded(s, k) = Folded(t, k)
    BY <2>2, <2>3, Zenon
  <2>5. QED
    BY <2>1, <2>4
<1>3. n \in G
  <2> HIDE DEF G
  <2>1. \A k \in 1 .. n : k - 1 \in G => k \in G
    BY <1>2
  <2>2. QED
    BY <1>1, <2>1, UpTo
<1>4. QED
  BY <1>3

\* Elements at the end which no result depends on may be left out.
THEOREM FoldNeutral ==
  ASSUME NEW n \in Nat, NEW m \in Nat, NEW s, n <= m,
         \A k \in n + 1 .. m : \A r : Step(r, s[k]) = r
  PROVE  Folded(s, m) = Folded(s, n)
<1> DEFINE G == { k \in Nat : n + k <= m => Folded(s, n + k) = Folded(s, n) }
<1>1. 0 \in G
  OBVIOUS
<1>2. ASSUME NEW k \in 1 .. m - n, k - 1 \in G PROVE k \in G
  <2>1. n + (k - 1) \in Nat /\ (n + (k - 1)) + 1 = n + k /\ n + k \in n + 1 .. m /\ k \in Nat
    OBVIOUS
  <2>2. Folded(s, n + k) = Step(Folded(s, n + (k - 1)), s[n + k])
    BY <2>1, FoldNext
  <2>3. Step(Folded(s, n + (k - 1)), s[n + k]) = Folded(s, n + (k - 1))
    BY <2>1, Zenon
  <2>4. Folded(s, n + (k - 1)) = Folded(s, n)
    BY <1>2
  <2>5. Folded(s, n + k) = Folded(s, n)
    BY <2>2, <2>3, <2>4, Zenon
  <2>6. QED
    BY <2>1, <2>5
<1>3. m - n \in G
  <2>1. m - n \in Nat /\ m - n \in 0 .. m - n
    OBVIOUS
  <2> HIDE DEF G
  <2>2. \A k \in 1 .. m - n : k - 1 \in G => k \in G
    BY <1>2
  <2>3. QED
    BY <1>1, <2>1, <2>2, UpTo
<1>4. n + (m - n) = m
  OBVIOUS
<1>5. QED
  BY <1>3, <1>4

=============================================================================
