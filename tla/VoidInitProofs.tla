--------------------------- MODULE VoidInitProofs ---------------------------
(* Proofs about VoidInit, for any media that MediaAssumption allows, any    *)
(* interfaces and faults, and any number of runs, reboots and crashes.      *)
EXTENDS VoidInit, WellFoundedInduction, TLAPS

-----------------------------------------------------------------------------
(* Lists of any length *)

\* A set of numbers that is not empty has a least member.
LEMMA LeastMember ==
  ASSUME NEW T, T \subseteq Nat, T # { }
  PROVE  \E x \in T : \A y \in T : x <= y
<1>1. IsWellFoundedOn(OpToRel(<, Nat), Nat)
  BY NatLessThanWellFounded, Zenon
<1>2. PICK x \in T : \A y \in T : ~(<< y, x >> \in OpToRel(<, Nat))
  BY <1>1, WFMin, Zenon
<1>3. \A y \in T : ~(y < x)
  <2>1. SUFFICES ASSUME NEW y \in T, y < x PROVE FALSE
    OBVIOUS
  <2>2. << y, x >> \in OpToRel(<, Nat)
    BY <2>1, Zenon DEF OpToRel
  <2>3. QED
    BY <1>2, <2>2
<1>4. QED
  BY <1>3

\* f[i] joins the first i of the sequences ss: the recursion in FlattenSeq.
Joins(f, ss, n) ==
  f = [i \in 1 .. n |-> IF i = 1 THEN ss[i] ELSE f[i - 1] \o ss[i]]

\* The recursion is well-defined.
LEMMA JoinsExist ==
  ASSUME NEW ss, NEW n \in Nat
  PROVE  \E f : Joins(f, ss, n)
<1> DEFINE T == { m \in Nat : ~\E f : Joins(f, ss, m) }
<1>1. SUFFICES ASSUME T # { } PROVE FALSE
  OBVIOUS
<1>2. PICK m \in T : \A y \in T : m <= y
  BY <1>1, LeastMember
<1>3. m # 0
  <2>1. Joins([i \in 1 .. 0 |-> << >>], ss, 0)
    BY DEF Joins
  <2>2. QED
    BY <2>1
<1>4. m - 1 \in Nat /\ m - 1 \notin T
  BY <1>2, <1>3
<1>5. PICK f : Joins(f, ss, m - 1)
  BY <1>4
<1> DEFINE g == [i \in 1 .. m |-> IF i = 1 THEN ss[i] ELSE f[i - 1] \o ss[i]]
<1>6. \A i \in 1 .. m - 1 : g[i] = f[i]
  <2>1. SUFFICES ASSUME NEW i \in 1 .. m - 1 PROVE g[i] = f[i]
    OBVIOUS
  <2>2. i \in 1 .. m
    BY <1>2, <1>4
  <2>3. f[i] = IF i = 1 THEN ss[i] ELSE f[i - 1] \o ss[i]
    BY <1>5 DEF Joins
  <2>4. QED
    BY <2>2, <2>3
<1>7. \A i \in 1 .. m : i # 1 => i - 1 \in 1 .. m - 1
  BY <1>2, <1>4
<1>8. g = [i \in 1 .. m |-> IF i = 1 THEN ss[i] ELSE g[i - 1] \o ss[i]]
  BY <1>6, <1>7
<1>9. QED
  BY <1>8 DEF Joins

\* FlattenSeq is the last of the joins.
LEMMA FlattenIsLast ==
  ASSUME NEW ss, Len(ss) \in Nat \ { 0 }
  PROVE  \E f : Joins(f, ss, Len(ss)) /\ FlattenSeq(ss) = f[Len(ss)]
BY JoinsExist, Zenon DEF FlattenSeq, Joins

\* Induction up to a number.
LEMMA InductionTo ==
  ASSUME NEW n \in Nat, NEW G, 1 \in G, \A m \in 2 .. n : m - 1 \in G => m \in G
  PROVE  \A m \in 1 .. n : m \in G
<1> DEFINE T == { m \in 1 .. n : m \notin G }
<1>1. SUFFICES ASSUME T # { } PROVE FALSE
  OBVIOUS
<1>2. T \subseteq Nat
  OBVIOUS
<1>3. PICK m \in T : \A y \in T : m <= y
  BY <1>1, <1>2, LeastMember
<1>4. m \in 2 .. n /\ m - 1 \in 1 .. n /\ ~(m <= m - 1)
  BY <1>3
<1>5. m - 1 \notin T
  BY <1>3, <1>4
<1>6. QED
  BY <1>3, <1>4, <1>5

\* What is closed under concatenation is closed under FlattenSeq.
LEMMA FlattenCloses ==
  ASSUME NEW G, << >> \in G, \A s, t \in G : s \o t \in G,
         NEW ss \in Seq(G)
  PROVE  FlattenSeq(ss) \in G
<1>1. CASE Len(ss) = 0
  BY <1>1 DEF FlattenSeq
<1>2. CASE Len(ss) # 0
  <2>1. Len(ss) \in Nat \ { 0 } /\ \A m \in 1 .. Len(ss) : ss[m] \in G
    BY <1>2
  <2>2. PICK f : Joins(f, ss, Len(ss)) /\ FlattenSeq(ss) = f[Len(ss)]
    BY <2>1, FlattenIsLast
  <2>3. \A m \in 1 .. Len(ss) : f[m] = IF m = 1 THEN ss[m] ELSE f[m - 1] \o ss[m]
    BY <2>2 DEF Joins
  <2> DEFINE H == { m \in 1 .. Len(ss) : f[m] \in G }
  <2>4. 1 \in H
    BY <2>1, <2>3
  <2>5. ASSUME NEW m \in 2 .. Len(ss), m - 1 \in H PROVE m \in H
    <3>1. m \in 1 .. Len(ss) /\ m # 1
      BY <2>1
    <3>2. f[m] = f[m - 1] \o ss[m]
      BY <2>3, <3>1
    <3>3. QED
      BY <2>1, <2>5, <3>1, <3>2
  <2>6. \A m \in 1 .. Len(ss) : m \in H
    <3> HIDE DEF H
    <3> QED
      BY <2>1, <2>4, <2>5, InductionTo
  <2>7. QED
    BY <2>1, <2>2, <2>6
<1>3. QED
  BY <1>1, <1>2

\* The members of a concatenation.
LEMMA JoinRange ==
  ASSUME NEW R, NEW s \in Seq(R), NEW t \in Seq(R)
  PROVE  s \o t \in Seq(R) /\ \A x : x \in Range(s \o t) <=> x \in Range(s) \/ x \in Range(t)
<1>1. /\ s \o t \in Seq(R) /\ Len(s \o t) = Len(s) + Len(t)
      /\ \A k \in 1 .. Len(s \o t) : (s \o t)[k] = IF k <= Len(s) THEN s[k] ELSE t[k - Len(s)]
  OBVIOUS
<1>2. ASSUME NEW x, x \in Range(s \o t) PROVE x \in Range(s) \/ x \in Range(t)
  <2>1. PICK k \in 1 .. Len(s \o t) : x = (s \o t)[k]
    BY <1>1, <1>2 DEF Range
  <2>2. CASE k <= Len(s)
    BY <1>1, <2>1, <2>2 DEF Range
  <2>3. CASE ~(k <= Len(s))
    <3>1. k - Len(s) \in 1 .. Len(t)
      BY <1>1, <2>1, <2>3
    <3>2. QED
      BY <1>1, <2>1, <2>3, <3>1 DEF Range
  <2>4. QED
    BY <2>2, <2>3
<1>3. ASSUME NEW x, x \in Range(s) PROVE x \in Range(s \o t)
  BY <1>1, <1>3 DEF Range
<1>4. ASSUME NEW x, x \in Range(t) PROVE x \in Range(s \o t)
  <2>1. PICK k \in 1 .. Len(t) : x = t[k]
    BY <1>4 DEF Range
  <2>2. Len(s) + k \in 1 .. Len(s \o t) /\ (Len(s) + k) - Len(s) = k /\ ~(Len(s) + k <= Len(s))
    BY <1>1, <2>1
  <2>3. (s \o t)[Len(s) + k] = t[k]
    BY <1>1, <2>2
  <2>4. QED
    BY <1>1, <2>1, <2>2, <2>3 DEF Range
<1>5. QED
  BY <1>1, <1>2, <1>3, <1>4

\* What is in one of the sequences is in their concatenation, and no more.
LEMMA FlattenRange ==
  ASSUME NEW R, NEW ss \in Seq(Seq(R))
  PROVE  /\ FlattenSeq(ss) \in Seq(R)
         /\ \A x : x \in Range(FlattenSeq(ss)) <=> \E k \in 1 .. Len(ss) : x \in Range(ss[k])
<1>1. FlattenSeq(ss) \in Seq(R)
  <2>1. << >> \in Seq(R) /\ \A s, t \in Seq(R) : s \o t \in Seq(R)
    OBVIOUS
  <2>2. QED
    BY <2>1, FlattenCloses
<1>2. CASE Len(ss) = 0
  <2>1. FlattenSeq(ss) = << >>
    BY <1>2 DEF FlattenSeq
  <2>2. QED
    BY <1>1, <1>2, <2>1 DEF Range
<1>3. CASE Len(ss) # 0
  <2>1. Len(ss) \in Nat \ { 0 } /\ \A m \in 1 .. Len(ss) : ss[m] \in Seq(R)
    BY <1>3
  <2>2. PICK f : Joins(f, ss, Len(ss)) /\ FlattenSeq(ss) = f[Len(ss)]
    BY <2>1, FlattenIsLast
  <2>3. \A m \in 1 .. Len(ss) : f[m] = IF m = 1 THEN ss[m] ELSE f[m - 1] \o ss[m]
    BY <2>2 DEF Joins
  <2> DEFINE G == { m \in 1 .. Len(ss) :
                      /\ f[m] \in Seq(R)
                      /\ \A x : x \in Range(f[m]) <=> \E k \in 1 .. m : x \in Range(ss[k]) }
  <2>4. 1 \in G
    BY <2>1, <2>3
  <2>5. ASSUME NEW m \in 2 .. Len(ss), m - 1 \in G PROVE m \in G
    <3>1. m \in 1 .. Len(ss) /\ m # 1 /\ m - 1 \in 1 .. Len(ss)
      BY <2>1
    <3>2. f[m] = f[m - 1] \o ss[m]
      BY <2>3, <3>1
    <3>3. /\ f[m] \in Seq(R)
          /\ \A x : x \in Range(f[m]) <=> x \in Range(f[m - 1]) \/ x \in Range(ss[m])
      BY <2>1, <2>5, <3>1, <3>2, JoinRange
    <3>4. \A x : x \in Range(f[m - 1]) <=> \E k \in 1 .. m - 1 : x \in Range(ss[k])
      BY <2>5
    <3>5. \A k : k \in 1 .. m <=> k \in 1 .. m - 1 \/ k = m
      BY <3>1
    <3>6. \A x : x \in Range(f[m]) <=> \E k \in 1 .. m : x \in Range(ss[k])
      BY <3>3, <3>4, <3>5
    <3>7. QED
      BY <3>1, <3>3, <3>6
  <2>6. \A m \in 1 .. Len(ss) : m \in G
    <3> HIDE DEF G
    <3> QED
      BY <2>1, <2>4, <2>5, InductionTo
  <2>7. Len(ss) \in 1 .. Len(ss)
    BY <2>1
  <2>8. Len(ss) \in G
    <3> HIDE DEF G
    <3> QED
      BY <2>6, <2>7
  <2>9. QED
    BY <1>1, <2>2, <2>8
<1>4. QED
  BY <1>2, <1>3

-----------------------------------------------------------------------------
(* Plans: what a run has left *)

\* writeManagedFile reads, truncates and writes a file in this order, with no
\* other step between (fsutil.go), and so is the hostname truncated and written.
BracketAt(s, k) ==
  /\ s[k].op = "truncate" =>
       k + 1 \in DOMAIN s /\ s[k + 1].op = "write" /\ s[k + 1].on = s[k].on
  /\ s[k].op = "truncateHostname" =>
       k + 1 \in DOMAIN s /\ s[k + 1].op = "writeHostname"
  /\ s[k].op = "truncate" /\ k > 1 => s[k - 1].op = "read" /\ s[k - 1].on = s[k].on
  /\ s[k].op = "write" /\ k > 1 => s[k - 1].op = "truncate" /\ s[k - 1].on = s[k].on

Bracketed(s) == \A k \in DOMAIN s : BracketAt(s, k)

\* It does not begin in the middle of writeManagedFile.
Whole(s) == s # << >> => s[1].op \notin { "truncate", "write" }

\* An interface is in M, or is looked up before it is used.
Resolved(s, M) ==
  \A k \in DOMAIN s :
    s[k].op = "up" =>
      s[k].on \in M \/ \E j \in DOMAIN s : j < k /\ s[j].op = "lookup" /\ s[j].on = s[k].on

Plan(s, M) == IsSeq(s) /\ Bracketed(s) /\ Whole(s) /\ Resolved(s, M)

\* A sequence of length one.
LEMMA Singleton ==
  ASSUME NEW a
  PROVE  /\ << a >>[1] = a /\ \A k \in DOMAIN << a >> : k = 1
         /\ Range(<< a >>) = { a } /\ IsSeq(<< a >>)
<1>1. Len(<< a >>) = 1 /\ << a >>[1] = a /\ DOMAIN << a >> = 1 .. 1
  OBVIOUS
<1>2. Range(<< a >>) = { a }
  BY <1>1 DEF Range
<1>3. << a >> \in Seq({ a })
  OBVIOUS
<1>4. \A k \in DOMAIN << a >> : k = 1
  OBVIOUS
<1>5. QED
  BY <1>1, <1>2, <1>3, <1>4 DEF IsSeq

\* A step that is no part of a bracket is a plan.
LEMMA OneStep ==
  ASSUME NEW a, NEW M, a.op \notin { "truncate", "write", "truncateHostname" },
         a.op = "up" => a.on \in M
  PROVE  Plan(<< a >>, M) /\ Range(<< a >>) = { a }
<1>1. /\ << a >>[1] = a /\ \A k \in DOMAIN << a >> : k = 1
      /\ Range(<< a >>) = { a } /\ IsSeq(<< a >>)
  BY Singleton, Zenon
<1> DEFINE s == << a >>
<1> HIDE DEF s
<1>2. s[1] = a /\ \A k \in DOMAIN s : k = 1
  BY <1>1 DEF s
<1>3. Bracketed(s) /\ Whole(s) /\ Resolved(s, M)
  BY <1>2 DEF Bracketed, BracketAt, Whole, Resolved
<1>4. QED
  BY <1>1, <1>3 DEF s, Plan

\* So is no step at all.
LEMMA NoStep ==
  ASSUME NEW M
  PROVE  Plan(<< >>, M) /\ Range(<< >>) = { }
<1>1. DOMAIN << >> = { }
  OBVIOUS
<1>2. Range(<< >>) = { }
  BY <1>1 DEF Range
<1>3. << >> \in Seq(Range(<< >>))
  OBVIOUS
<1>4. QED
  BY <1>1, <1>2, <1>3 DEF Plan, IsSeq, Bracketed, BracketAt, Whole, Resolved

\* A step that has the neighbours it had before is bracketed as before.
LEMMA SameBracket ==
  ASSUME NEW s, NEW j \in Nat, BracketAt(s, j), NEW c, NEW k \in Nat, c[k] = s[j],
         j + 1 \in DOMAIN s => k + 1 \in DOMAIN c /\ c[k + 1] = s[j + 1],
         k > 1 => \/ j > 1 /\ c[k - 1] = s[j - 1]
                  \/ c[k].op \notin { "truncate", "write" }
  PROVE  BracketAt(c, k)
BY DEF BracketAt

\* One plan after another.
LEMMA JoinPlans ==
  ASSUME NEW M, NEW s, NEW t, Plan(s, M), Plan(t, M)
  PROVE  Plan(s \o t, M) /\ \A x : x \in Range(s \o t) <=> x \in Range(s) \/ x \in Range(t)
<1> DEFINE R == Range(s) \union Range(t)
<1>1. s \in Seq(R) /\ t \in Seq(R)
  BY DEF Plan, IsSeq
<1>2. \A x : x \in Range(s \o t) <=> x \in Range(s) \/ x \in Range(t)
  BY <1>1, JoinRange
<1>3. IsSeq(s \o t)
  <2>1. Range(s \o t) = R
    BY <1>2
  <2>2. QED
    BY <1>1, <2>1 DEF IsSeq
<1> HIDE DEF R
<1>4. /\ DOMAIN s = 1 .. Len(s) /\ DOMAIN t = 1 .. Len(t) /\ Len(s) \in Nat /\ Len(t) \in Nat
      /\ DOMAIN (s \o t) = 1 .. Len(s) + Len(t)
      /\ \A k \in 1 .. Len(s) : (s \o t)[k] = s[k]
      /\ \A k \in 1 .. Len(t) : (s \o t)[Len(s) + k] = t[k]
  BY <1>1
<1>5. \A k \in 1 .. Len(s) + Len(t) :
        k \in 1 .. Len(s) \/ (k - Len(s) \in 1 .. Len(t) /\ k = Len(s) + (k - Len(s)))
  BY <1>4
<1>6. \A k \in 1 .. Len(t) : (s \o t)[Len(s) + k] = t[k] /\ Len(s) + k \in DOMAIN (s \o t)
  BY <1>4
<1>7. Bracketed(s \o t)
  <2>1. SUFFICES ASSUME NEW k \in DOMAIN (s \o t) PROVE BracketAt(s \o t, k)
    BY DEF Bracketed
  <2> DEFINE c == s \o t
  <2>2. CASE k \in 1 .. Len(s)
    <3>1. c[k] = s[k] /\ k \in DOMAIN s /\ k \in Nat
      BY <1>4, <2>2
    <3>2. k + 1 \in DOMAIN s => k + 1 \in DOMAIN c /\ c[k + 1] = s[k + 1]
      BY <1>4, <2>2
    <3>3. k > 1 => c[k - 1] = s[k - 1]
      BY <1>4, <2>2
    <3>4. BracketAt(s, k)
      BY <3>1 DEF Plan, Bracketed
    <3> HIDE DEF c
    <3>5. BracketAt(c, k)
      BY <3>1, <3>2, <3>3, <3>4, SameBracket
    <3>6. QED
      BY <3>5 DEF c
  <2>3. CASE k \notin 1 .. Len(s)
    <3>1. PICK j \in 1 .. Len(t) : k = Len(s) + j
      BY <1>4, <1>5, <2>3
    <3>2. c[k] = t[j] /\ j \in DOMAIN t /\ j \in Nat /\ k \in Nat
      BY <1>4, <3>1
    <3>3. j + 1 \in DOMAIN t => k + 1 \in DOMAIN c /\ c[k + 1] = t[j + 1]
      <4>1. k + 1 = Len(s) + (j + 1)
        BY <1>4, <3>1
      <4>2. QED
        BY <1>4, <1>6, <4>1
    <3>4. j > 1 => c[k - 1] = t[j - 1]
      <4>1. k - 1 = Len(s) + (j - 1) /\ (j > 1 => j - 1 \in 1 .. Len(t))
        BY <1>4, <3>1
      <4>2. QED
        BY <1>4, <4>1
    <3>5. j = 1 => t[j].op \notin { "truncate", "write" }
      BY <1>4, <3>1 DEF Plan, Whole
    <3>6. BracketAt(t, j)
      BY <3>2 DEF Plan, Bracketed
    <3>7. j = 1 \/ j > 1
      BY <3>1
    <3> HIDE DEF c
    <3>8. BracketAt(c, k)
      BY <3>2, <3>3, <3>4, <3>5, <3>6, <3>7, SameBracket
    <3>9. QED
      BY <3>8 DEF c
  <2>4. QED
    BY <2>2, <2>3
<1>8. Whole(s \o t)
  <2>1. CASE s = << >>
    BY <1>1, <2>1 DEF Plan, Whole
  <2>2. CASE s # << >>
    <3>1. 1 \in 1 .. Len(s)
      BY <1>1, <2>2
    <3>2. QED
      BY <1>4, <2>2, <3>1 DEF Plan, Whole
  <2>3. QED
    BY <2>1, <2>2
<1>9. Resolved(s \o t, M)
  <2>1. SUFFICES ASSUME NEW k \in DOMAIN (s \o t), (s \o t)[k].op = "up", (s \o t)[k].on \notin M
                 PROVE  \E j \in DOMAIN (s \o t) :
                          j < k /\ (s \o t)[j].op = "lookup" /\ (s \o t)[j].on = (s \o t)[k].on
    BY DEF Resolved
  <2>2. CASE k \in 1 .. Len(s)
    <3>1. PICK j \in DOMAIN s : j < k /\ s[j].op = "lookup" /\ s[j].on = s[k].on
      BY <1>4, <2>1, <2>2 DEF Plan, Resolved
    <3>2. QED
      BY <1>4, <2>2, <3>1
  <2>3. CASE k \notin 1 .. Len(s)
    <3>1. PICK i \in 1 .. Len(t) : k = Len(s) + i
      BY <1>4, <1>5, <2>3
    <3>2. PICK j \in DOMAIN t : j < i /\ t[j].op = "lookup" /\ t[j].on = t[i].on
      BY <1>4, <2>1, <3>1 DEF Plan, Resolved
    <3>3. Len(s) + j < k
      BY <1>4, <3>1, <3>2
    <3>4. QED
      BY <1>4, <1>6, <3>1, <3>2, <3>3
  <2>4. QED
    BY <2>2, <2>3
<1>10. QED
  BY <1>2, <1>3, <1>7, <1>8, <1>9 DEF Plan

\* Two steps are one after another.
LEMMA TwoSteps ==
  ASSUME NEW a, NEW b
  PROVE  << a, b >> = << a >> \o << b >>
<1> DEFINE R == { a, b }
           s == << a >>
           t == << b >>
           c == << a, b >>
<1>1. /\ s \in Seq(R) /\ Len(s) = 1 /\ s[1] = a
      /\ t \in Seq(R) /\ Len(t) = 1 /\ t[1] = b
      /\ c \in Seq(R) /\ Len(c) = 2 /\ c[1] = a /\ c[2] = b
  OBVIOUS
<1> HIDE DEF R, s, t, c
<1>2. s \in Seq(R) /\ t \in Seq(R) /\ c \in Seq(R)
  BY <1>1, Zenon
<1>3. c = s \o t
  <2>1. /\ s \o t \in Seq(R) /\ Len(s \o t) = Len(s) + Len(t)
        /\ \A k \in 1 .. Len(s) : (s \o t)[k] = s[k]
        /\ \A k \in 1 .. Len(t) : (s \o t)[Len(s) + k] = t[k]
    BY <1>2
  <2>2. Len(s \o t) = Len(c) /\ Len(c) = 2
    BY <1>1, <2>1
  <2>3. (s \o t)[1] = a
    <3>1. 1 \in 1 .. Len(s)
      BY <1>1
    <3>2. QED
      BY <1>1, <2>1, <3>1, Zenon
  <2>4. (s \o t)[2] = b
    <3>1. 1 \in 1 .. Len(t) /\ Len(s) + 1 = 2
      BY <1>1
    <3>2. (s \o t)[Len(s) + 1] = t[1]
      BY <2>1, <3>1, Zenon
    <3>3. QED
      BY <1>1, <3>1, <3>2, Zenon
  <2>5. \A k \in 1 .. Len(c) : k = 1 \/ k = 2
    BY <2>2
  <2>6. \A k \in 1 .. Len(c) : c[k] = (s \o t)[k]
    BY <1>1, <2>3, <2>4, <2>5, Zenon
  <2> DEFINE e == s \o t
  <2>7. e \in Seq(R) /\ Len(e) = Len(c) /\ \A k \in 1 .. Len(c) : c[k] = e[k]
    BY <2>1, <2>2, <2>6, Zenon
  <2> HIDE DEF e
  <2>8. c = e
    BY <1>2, <2>7
  <2>9. QED
    BY <2>8 DEF e
<1>4. QED
  BY <1>3 DEF s, t, c

\* Any number of plans, one after another.
LEMMA FlattenPlans ==
  ASSUME NEW M, NEW n \in Nat, NEW ss, ss = [k \in 1 .. n |-> ss[k]],
         \A k \in 1 .. n : Plan(ss[k], M)
  PROVE  /\ Plan(FlattenSeq(ss), M)
         /\ \A x : x \in Range(FlattenSeq(ss)) <=> \E k \in 1 .. n : x \in Range(ss[k])
<1> DEFINE R == UNION { Range(ss[k]) : k \in 1 .. n }
           G == { s \in Seq(R) : Plan(s, M) }
<1>1. Len(ss) = n
  OBVIOUS
<1>2. \A k \in 1 .. n : ss[k] \in Seq(R)
  <2>1. SUFFICES ASSUME NEW k \in 1 .. n PROVE ss[k] \in Seq(R)
    OBVIOUS
  <2>2. Range(ss[k]) \subseteq R
    OBVIOUS
  <2>3. ss[k] \in Seq(Range(ss[k]))
    BY DEF Plan, IsSeq
  <2> HIDE DEF R
  <2>4. QED
    BY <2>2, <2>3
<1>3. ss \in Seq(Seq(R)) /\ ss \in Seq(G)
  <2>1. \A k \in 1 .. n : ss[k] \in G
    BY <1>2
  <2> HIDE DEF R, G
  <2>2. ss \in [1 .. n -> Seq(R)] /\ ss \in [1 .. n -> G]
    BY <1>2, <2>1
  <2>3. QED
    BY <2>2
<1>4. \A x : x \in Range(FlattenSeq(ss)) <=> \E k \in 1 .. n : x \in Range(ss[k])
  <2> HIDE DEF R
  <2>1. QED
    BY <1>1, <1>3, FlattenRange
<1>5. FlattenSeq(ss) \in G
  <2>1. << >> \in G
    BY NoStep
  <2>2. \A s, t \in G : s \o t \in G
    BY JoinPlans
  <2> HIDE DEF G
  <2>3. QED
    BY <1>3, <2>1, <2>2, FlattenCloses
<1>6. QED
  BY <1>4, <1>5

-----------------------------------------------------------------------------
(* The plans that main.go, userdata.go and network.go make *)

\* The fields of a step.
LEMMA DoFields ==
  \A x, a, b, c : x = Do(a, b, c) => x.op = a /\ x.on = b /\ x.value = c
BY DEF Do

\* A sequence of length four.
LEMMA Quadruple ==
  ASSUME NEW a, NEW b, NEW c, NEW d
  PROVE  /\ << a, b, c, d >>[1] = a /\ << a, b, c, d >>[2] = b
         /\ << a, b, c, d >>[3] = c /\ << a, b, c, d >>[4] = d
         /\ \A k : k \in DOMAIN << a, b, c, d >> <=> k \in { 1, 2, 3, 4 }
         /\ Range(<< a, b, c, d >>) = { a, b, c, d } /\ IsSeq(<< a, b, c, d >>)
<1> DEFINE s == << a, b, c, d >>
<1>1. s[1] = a /\ s[2] = b /\ s[3] = c /\ s[4] = d
  OBVIOUS
<1>2. \A k : k \in DOMAIN s <=> k \in { 1, 2, 3, 4 }
  OBVIOUS
<1>3. s \in Seq({ a, b, c, d })
  OBVIOUS
<1>4. Range(s) = { a, b, c, d }
  <2> HIDE DEF s
  <2> QED
    BY <1>1, <1>2 DEF Range
<1>5. QED
  BY <1>1, <1>2, <1>3, <1>4 DEF IsSeq

\* The calls of writeManagedFile.
FileSteps(f, head) ==
  { Do("read", f, ""), Do("truncate", f, ""), Do("write", f, head), Do("chmod", f, "") }

\* Four such calls form one whole bracket on the file.
LEMMA FileBracket ==
  ASSUME NEW s, NEW a, NEW b, NEW c, NEW d, NEW f, NEW M,
         s[1] = a, s[2] = b, s[3] = c, s[4] = d,
         \A k : k \in DOMAIN s <=> k \in { 1, 2, 3, 4 },
         a.op = "read", a.on = f, b.op = "truncate", b.on = f, c.op = "write", c.on = f,
         d.op = "chmod"
  PROVE  Bracketed(s) /\ Whole(s) /\ Resolved(s, M)
<1>1. /\ s[1].op = "read" /\ s[1].on = f /\ s[2].op = "truncate" /\ s[2].on = f
      /\ s[3].op = "write" /\ s[3].on = f /\ s[4].op = "chmod"
  OBVIOUS
<1>2. BracketAt(s, 1) /\ BracketAt(s, 2)
  BY <1>1 DEF BracketAt
<1>3. BracketAt(s, 3) /\ BracketAt(s, 4)
  BY <1>1 DEF BracketAt
<1>4. Bracketed(s)
  BY <1>2, <1>3 DEF Bracketed
<1>5. Whole(s) /\ Resolved(s, M)
  BY <1>1 DEF Whole, Resolved
<1>6. QED
  BY <1>4, <1>5

\* writeManagedFile is a plan, of exactly these calls.
LEMMA FilePlan ==
  ASSUME NEW f, NEW head, NEW M
  PROVE  Plan(writeManagedFile(f, head), M) /\ Range(writeManagedFile(f, head)) = FileSteps(f, head)
<1> DEFINE s == writeManagedFile(f, head)
           a == Do("read", f, "")
           b == Do("truncate", f, "")
           c == Do("write", f, head)
           d == Do("chmod", f, "")
<1>1. s = << a, b, c, d >> /\ FileSteps(f, head) = { a, b, c, d }
  BY DEF writeManagedFile, FileSteps
<1>2. /\ a.op = "read" /\ a.on = f /\ b.op = "truncate" /\ b.on = f
      /\ c.op = "write" /\ c.on = f /\ d.op = "chmod"
  BY DoFields
<1> HIDE DEF a, b, c, d, s
<1>3. /\ s[1] = a /\ s[2] = b /\ s[3] = c /\ s[4] = d
      /\ \A k : k \in DOMAIN s <=> k \in { 1, 2, 3, 4 }
      /\ Range(s) = { a, b, c, d } /\ IsSeq(s)
  BY <1>1, Quadruple
<1>4. Bracketed(s) /\ Whole(s) /\ Resolved(s, M)
  BY <1>2, <1>3, FileBracket
<1>5. QED
  BY <1>1, <1>3, <1>4 DEF s, Plan

\* The calls of applyHostname.
HostnameSteps(name) ==
  { Do("truncateHostname", "", ""), Do("writeHostname", "", name), Do("sethostname", "", name) }

\* The calls of applyHostname form one whole bracket.
LEMMA HostnameBracket ==
  ASSUME NEW s, NEW M, \A k : k \in DOMAIN s <=> k \in { 1, 2, 3 },
         s[1].op = "truncateHostname", s[2].op = "writeHostname", s[3].op = "sethostname"
  PROVE  Bracketed(s) /\ Whole(s) /\ Resolved(s, M)
<1>1. BracketAt(s, 1)
  BY DEF BracketAt
<1>2. BracketAt(s, 2) /\ BracketAt(s, 3)
  BY DEF BracketAt
<1>3. Bracketed(s)
  BY <1>1, <1>2 DEF Bracketed
<1>4. Whole(s) /\ Resolved(s, M)
  BY DEF Whole, Resolved
<1>5. QED
  BY <1>3, <1>4

\* applyHostname is a plan, of exactly these calls.
LEMMA HostnamePlan ==
  ASSUME NEW name, NEW M
  PROVE  LET s == << Do("truncateHostname", "", ""), Do("writeHostname", "", name),
                     Do("sethostname", "", name) >>
         IN  Plan(s, M) /\ Range(s) = HostnameSteps(name)
<1> DEFINE a == Do("truncateHostname", "", "")
           b == Do("writeHostname", "", name)
           c == Do("sethostname", "", name)
           s == << a, b, c >>
<1>1. s[1] = a /\ s[2] = b /\ s[3] = c /\ \A k : k \in DOMAIN s <=> k \in { 1, 2, 3 }
  <2> HIDE DEF a, b, c
  <2> QED
    OBVIOUS
<1>2. s \in Seq({ a, b, c })
  <2> HIDE DEF a, b, c
  <2> QED
    OBVIOUS
<1>3. a.op = "truncateHostname" /\ b.op = "writeHostname" /\ c.op = "sethostname"
  BY DoFields
<1>4. HostnameSteps(name) = { a, b, c }
  BY DEF HostnameSteps
<1>5. s = << Do("truncateHostname", "", ""), Do("writeHostname", "", name),
             Do("sethostname", "", name) >>
  OBVIOUS
<1> HIDE DEF a, b, c, s
<1>6. Range(s) = { a, b, c }
  BY <1>1 DEF Range
<1>7. Bracketed(s) /\ Whole(s) /\ Resolved(s, M)
  <2>1. s[1].op = a.op /\ s[2].op = b.op /\ s[3].op = c.op
    BY <1>1
  <2>2. s[1].op = "truncateHostname" /\ s[2].op = "writeHostname" /\ s[3].op = "sethostname"
    BY <1>3, <2>1
  <2>3. QED
    BY <1>1, <2>2, HostnameBracket
<1>8. QED
  BY <1>2, <1>4, <1>5, <1>6, <1>7 DEF Plan, IsSeq

\* The calls of ApplyUserData, and the scan for a network-config after them.
UserCalls(u) ==
  (IF u.hostname = "" THEN { } ELSE HostnameSteps(u.hostname))
  \union (IF u.name = "" \/ u.password = "" THEN { } ELSE { Do("chpasswd", "", u.password) })
  \union (IF u.name = "" \/ u.keys = "" THEN { } ELSE
            { Do("chown", ".ssh", ""), Do("chown", "authorized_keys", "") }
            \union FileSteps("authorized_keys", << u.keys >>))

UserSteps(u) == UserCalls(u) \union { Do("findNetworkConfig", "", "") }

\* ApplyUserData is a plan, of exactly these calls.
LEMMA UserPlan ==
  ASSUME NEW u, NEW M
  PROVE  Plan(ApplyUserData(u), M) /\ \A x : x \in Range(ApplyUserData(u)) <=> x \in UserCalls(u)
<1> DEFINE H == IF u.hostname = "" THEN << >> ELSE
                  << Do("truncateHostname", "", ""), Do("writeHostname", "", u.hostname),
                     Do("sethostname", "", u.hostname) >>
           P == IF u.name = "" \/ u.password = "" THEN << >> ELSE << Do("chpasswd", "", u.password) >>
           W == writeManagedFile("authorized_keys", << u.keys >>)
           D == << Do("chown", ".ssh", "") >>
           E == << Do("chown", "authorized_keys", "") >>
           K == IF u.name = "" \/ u.keys = "" THEN << >> ELSE D \o W \o E
<1>1. Plan(H, M) /\ Range(H) = IF u.hostname = "" THEN { } ELSE HostnameSteps(u.hostname)
  BY NoStep, HostnamePlan, Zenon
<1>2. /\ Plan(P, M)
      /\ Range(P) = IF u.name = "" \/ u.password = "" THEN { } ELSE { Do("chpasswd", "", u.password) }
  <2>1. Do("chpasswd", "", u.password).op = "chpasswd"
    BY DEF Do
  <2>2. /\ Plan(<< Do("chpasswd", "", u.password) >>, M)
        /\ Range(<< Do("chpasswd", "", u.password) >>) = { Do("chpasswd", "", u.password) }
    BY <2>1, OneStep
  <2>3. QED
    BY <2>2, NoStep, Zenon
<1>3. /\ Plan(D, M) /\ Range(D) = { Do("chown", ".ssh", "") }
      /\ Plan(E, M) /\ Range(E) = { Do("chown", "authorized_keys", "") }
  BY OneStep DEF Do
<1>4. Plan(W, M) /\ Range(W) = FileSteps("authorized_keys", << u.keys >>)
  BY FilePlan
<1>5. ApplyUserData(u) = H \o P \o K
  BY DEF ApplyUserData
<1> DEFINE DW == D \o W
           HP == H \o P
           HPK == HP \o K
<1> HIDE DEF H, P, W, D, E
<1>6. /\ Plan(DW \o E, M)
      /\ \A x : x \in Range(DW \o E) <=> x \in Range(D) \/ x \in Range(W) \/ x \in Range(E)
  <2>1. Plan(DW, M) /\ \A x : x \in Range(DW) <=> x \in Range(D) \/ x \in Range(W)
    BY <1>3, <1>4, JoinPlans, Zenon
  <2> HIDE DEF DW
  <2>2. Plan(DW \o E, M) /\ \A x : x \in Range(DW \o E) <=> x \in Range(DW) \/ x \in Range(E)
    BY <1>3, <2>1, JoinPlans, Zenon
  <2>3. QED
    BY <2>1, <2>2
<1>7. /\ Plan(K, M)
      /\ \A x : x \in Range(K) <=>
           /\ ~(u.name = "" \/ u.keys = "")
           /\ x \in Range(D) \/ x \in Range(W) \/ x \in Range(E)
  BY <1>6, NoStep
<1> HIDE DEF K
<1>8. Plan(HP, M) /\ \A x : x \in Range(HP) <=> x \in Range(H) \/ x \in Range(P)
  BY <1>1, <1>2, JoinPlans, Zenon
<1>9. Plan(HPK, M) /\ \A x : x \in Range(HPK) <=> x \in Range(HP) \/ x \in Range(K)
  <2> HIDE DEF HP
  <2> QED
    BY <1>7, <1>8, JoinPlans, Zenon
<1>10. ASSUME NEW x
       PROVE  x \in Range(HPK) <=> x \in UserCalls(u)
  <2>1. x \in Range(HPK) <=> x \in Range(H) \/ x \in Range(P) \/ x \in Range(K)
    BY <1>8, <1>9
  <2>2. x \in Range(K) <=>
          /\ ~(u.name = "" \/ u.keys = "")
          /\ x \in { Do("chown", ".ssh", ""), Do("chown", "authorized_keys", "") }
                   \union FileSteps("authorized_keys", << u.keys >>)
    BY <1>3, <1>4, <1>7
  <2> HIDE DEF HPK
  <2>3. QED
    BY <1>1, <1>2, <2>1, <2>2 DEF UserCalls
<1>11. QED
  BY <1>5, <1>9, <1>10

\* The scan for a network-config comes after all of them.
LEMMA ScanPlan ==
  ASSUME NEW u, NEW M
  PROVE  LET s == ApplyUserData(u) \o << Do("findNetworkConfig", "", "") >>
         IN  /\ Plan(s, M) /\ \A x : x \in Range(s) <=> x \in UserSteps(u)
             /\ \A k \in DOMAIN s : k = Len(s) \/ s[k] \in UserCalls(u)
<1> DEFINE A == ApplyUserData(u)
           N == << Do("findNetworkConfig", "", "") >>
           s == A \o N
<1>1. Plan(A, M) /\ \A x : x \in Range(A) <=> x \in UserCalls(u)
  BY UserPlan
<1>2. Plan(N, M) /\ Range(N) = { Do("findNetworkConfig", "", "") } /\ Len(N) = 1
  BY OneStep DEF Do
<1> HIDE DEF A, N
<1>3. Plan(s, M) /\ \A x : x \in Range(s) <=> x \in Range(A) \/ x \in Range(N)
  BY <1>1, <1>2, JoinPlans, Zenon
<1>4. ASSUME NEW k \in DOMAIN s PROVE k = Len(s) \/ s[k] \in UserCalls(u)
  <2>1. A \in Seq(Range(A)) /\ N \in Seq(Range(N))
    BY <1>1, <1>2 DEF Plan, IsSeq
  <2>2. A \in Seq(Range(A) \union Range(N)) /\ N \in Seq(Range(A) \union Range(N))
    BY <2>1
  <2>3. /\ Len(A) \in Nat /\ Len(s) = Len(A) + Len(N) /\ k \in 1 .. Len(s)
        /\ k \in 1 .. Len(A) => s[k] = A[k] /\ A[k] \in Range(A)
    BY <2>2 DEF Range
  <2> HIDE DEF s
  <2>4. k = Len(s) \/ k \in 1 .. Len(A)
    <3> DEFINE l == Len(N)
    <3>1. l = 1 /\ Len(s) = Len(A) + l
      BY <1>2, <2>3
    <3> HIDE DEF l
    <3>2. Len(s) = Len(A) + 1
      BY <3>1
    <3>3. QED
      BY <2>3, <3>2
  <2>5. QED
    BY <1>1, <2>3, <2>4
<1>5. \A x : x \in Range(s) <=> x \in UserSteps(u)
  <2> HIDE DEF s
  <2> QED
    BY <1>1, <1>2, <1>3 DEF UserSteps
<1>6. QED
  BY <1>3, <1>4, <1>5 DEF A, N

\* The calls for a subnet: applyDynamicNetwork, applyStaticNetwork, or an error.
SubnetSteps(mac, s) ==
  CASE s.type = "dynamic" ->
         { Do("up", mac, ""), Do("enable", "dhcpcd", "") }
         \union FileSteps("dhcpcd.conf", << "template" >>)
    [] s.type = "static" ->
         IF ~s.prefix THEN { Do("error", "", "") } ELSE
         { Do("up", mac, ""), Do("addr", mac, s.address), Do("disable", "dhcpcd", "") }
         \union (IF s.gateway = << >> THEN { } ELSE { Do("route", "", s.gateway) })
    [] OTHER -> { Do("error", "", "") }

\* What is done for a subnet is a plan, once the interface has been looked up.
LEMMA SubnetPlan ==
  ASSUME NEW mac, NEW s
  PROVE  /\ Plan(subnetSteps(mac, s), { mac })
         /\ \A x : x \in Range(subnetSteps(mac, s)) <=> x \in SubnetSteps(mac, s)
<1> DEFINE M == { mac }
           U == << Do("up", mac, "") >>
           W == writeManagedFile("dhcpcd.conf", << "template" >>)
           E == << Do("enable", "dhcpcd", "") >>
           A == << Do("addr", mac, s.address) >>
           R == << Do("route", "", s.gateway) >>
           D == << Do("disable", "dhcpcd", "") >>
           F == << Do("error", "", "") >>
           G == IF s.gateway = << >> THEN << >> ELSE R
           UA == << Do("up", mac, ""), Do("addr", mac, s.address) >>
           UW == U \o W
           UAG == UA \o G
<1>1. /\ Plan(U, M) /\ Range(U) = { Do("up", mac, "") }
      /\ Plan(A, M) /\ Range(A) = { Do("addr", mac, s.address) }
  <2>1. /\ Do("up", mac, "").op = "up" /\ Do("up", mac, "").on = mac
        /\ Do("addr", mac, s.address).op = "addr"
    BY DoFields
  <2>2. Do("up", mac, "").op \notin { "truncate", "write", "truncateHostname" }
    BY <2>1
  <2>3. Do("up", mac, "").on \in M
    BY <2>1
  <2>4. Plan(U, M) /\ Range(U) = { Do("up", mac, "") }
    <3> HIDE DEF M
    <3> QED
      BY <2>2, <2>3, OneStep
  <2>5. Plan(A, M) /\ Range(A) = { Do("addr", mac, s.address) }
    BY <2>1, OneStep
  <2>6. QED
    BY <2>4, <2>5
<1>2. /\ Plan(E, M) /\ Range(E) = { Do("enable", "dhcpcd", "") }
      /\ Plan(D, M) /\ Range(D) = { Do("disable", "dhcpcd", "") }
  BY OneStep DEF Do
<1>3. /\ Plan(F, M) /\ Range(F) = { Do("error", "", "") }
      /\ Plan(R, M) /\ Range(R) = { Do("route", "", s.gateway) }
  BY OneStep DEF Do
<1>4. Plan(W, M) /\ Range(W) = FileSteps("dhcpcd.conf", << "template" >>)
  BY FilePlan
<1>5. Plan(G, M) /\ Range(G) = IF s.gateway = << >> THEN { } ELSE { Do("route", "", s.gateway) }
  <2>1. Plan(<< >>, M) /\ Range(<< >>) = { }
    BY NoStep
  <2> HIDE DEF R, M
  <2>2. QED
    BY <1>3, <2>1
<1>6. UA = U \o A
  BY TwoSteps
<1>7. subnetSteps(mac, s) =
        CASE s.type = "dynamic" -> UW \o E
          [] s.type = "static" -> (IF ~s.prefix THEN F ELSE UAG \o D)
          [] OTHER -> F
  BY DEF subnetSteps, applyDynamicNetwork, applyStaticNetwork
<1> HIDE DEF U, W, E, A, R, D, F, G, UA, M
<1>8. Plan(UA, M) /\ \A x : x \in Range(UA) <=> x \in Range(U) \/ x \in Range(A)
  BY <1>1, <1>6, JoinPlans, Zenon
<1>9. Plan(UW, M) /\ \A x : x \in Range(UW) <=> x \in Range(U) \/ x \in Range(W)
  BY <1>1, <1>4, JoinPlans, Zenon
<1>10. Plan(UAG, M) /\ \A x : x \in Range(UAG) <=> x \in Range(UA) \/ x \in Range(G)
  BY <1>5, <1>8, JoinPlans, Zenon
<1> HIDE DEF UW, UAG
<1>11. Plan(UW \o E, M) /\ \A x : x \in Range(UW \o E) <=> x \in Range(UW) \/ x \in Range(E)
  BY <1>2, <1>9, JoinPlans, Zenon
<1>12. Plan(UAG \o D, M) /\ \A x : x \in Range(UAG \o D) <=> x \in Range(UAG) \/ x \in Range(D)
  BY <1>2, <1>10, JoinPlans, Zenon
<1> DEFINE UWE == UW \o E
           UAGD == UAG \o D
           p == subnetSteps(mac, s)
<1>13. /\ Plan(UWE, M) /\ Plan(UAGD, M)
       /\ p = CASE s.type = "dynamic" -> UWE
                [] s.type = "static" -> (IF ~s.prefix THEN F ELSE UAGD)
                [] OTHER -> F
  BY <1>7, <1>11, <1>12
<1>14. /\ \A x : x \in Range(UWE) <=> x \in Range(U) \/ x \in Range(W) \/ x \in Range(E)
       /\ \A x : x \in Range(UAGD) <=> x \in Range(U) \/ x \in Range(A) \/ x \in Range(G) \/ x \in Range(D)
  BY <1>8, <1>9, <1>10, <1>11, <1>12
<1> HIDE DEF UWE, UAGD, p
<1>15. CASE s.type = "dynamic"
  <2>1. p = UWE
    BY <1>13, <1>15
  <2>2. SubnetSteps(mac, s) = { Do("up", mac, ""), Do("enable", "dhcpcd", "") }
                              \union FileSteps("dhcpcd.conf", << "template" >>)
    BY <1>15 DEF SubnetSteps
  <2>3. \A x : x \in Range(p) <=> x \in SubnetSteps(mac, s)
    BY <1>1, <1>2, <1>4, <1>14, <2>1, <2>2
  <2>4. QED
    BY <1>13, <2>1, <2>3 DEF M, p
<1>16. CASE s.type = "static" /\ s.prefix
  <2>1. p = UAGD
    BY <1>13, <1>16
  <2>2. SubnetSteps(mac, s) =
          { Do("up", mac, ""), Do("addr", mac, s.address), Do("disable", "dhcpcd", "") }
          \union (IF s.gateway = << >> THEN { } ELSE { Do("route", "", s.gateway) })
    BY <1>16 DEF SubnetSteps
  <2>3. \A x : x \in Range(p) <=> x \in SubnetSteps(mac, s)
    BY <1>1, <1>2, <1>5, <1>14, <2>1, <2>2
  <2>4. QED
    BY <1>13, <2>1, <2>3 DEF M, p
<1>17. CASE s.type # "dynamic" /\ ~(s.type = "static" /\ s.prefix)
  <2>1. p = F
    BY <1>13, <1>17
  <2>2. SubnetSteps(mac, s) = { Do("error", "", "") }
    BY <1>17 DEF SubnetSteps
  <2>3. QED
    BY <1>3, <2>1, <2>2 DEF M, p
<1>18. QED
  BY <1>15, <1>16, <1>17

\* The calls for an entry of the network-config.
DeviceSteps(d) ==
  CASE d.type = "physical" ->
         { Do("lookup", d.mac, "") }
         \union UNION { SubnetSteps(d.mac, s) : s \in Range(d.subnets) }
    [] d.type = "nameserver" -> { }
    [] OTHER -> { Do("error", "", "") }

\* What is done for an entry of network-config is a plan: the lookup comes first.
LEMMA DevicePlan ==
  ASSUME NEW M, NEW d, IsSeq(d.subnets)
  PROVE  /\ Plan(deviceSteps(d), M)
         /\ \A x : x \in Range(deviceSteps(d)) <=> x \in DeviceSteps(d)
<1> DEFINE F == << Do("error", "", "") >>
           L == << Do("lookup", d.mac, "") >>
           ss == [k \in DOMAIN d.subnets |-> subnetSteps(d.mac, d.subnets[k])]
           n == Len(d.subnets)
           T == FlattenSeq(ss)
<1>1. n \in Nat /\ DOMAIN d.subnets = 1 .. n /\ \A k \in 1 .. n : d.subnets[k] \in Range(d.subnets)
  BY DEF IsSeq, Range
<1>2. Plan(F, M) /\ Range(F) = { Do("error", "", "") }
  BY OneStep DEF Do
<1>3. Plan(L, { d.mac }) /\ Range(L) = { Do("lookup", d.mac, "") }
  BY OneStep DEF Do
<1>4. /\ Plan(T, { d.mac })
      /\ \A x : x \in Range(T) <=> \E k \in 1 .. n : x \in Range(ss[k])
  <2>1. \A k \in 1 .. n : ss[k] = subnetSteps(d.mac, d.subnets[k])
    BY <1>1
  <2>2. \A k \in 1 .. n : Plan(ss[k], { d.mac })
    BY <2>1, SubnetPlan
  <2>3. ss = [k \in 1 .. n |-> ss[k]]
    BY <1>1
  <2> HIDE DEF ss, n
  <2>4. QED
    BY <1>1, <2>2, <2>3, FlattenPlans
<1>5. \A x : x \in Range(T) <=> \E s \in Range(d.subnets) : x \in SubnetSteps(d.mac, s)
  <2>1. \A x : \A k \in 1 .. n : x \in Range(ss[k]) <=> x \in SubnetSteps(d.mac, d.subnets[k])
    BY <1>1, SubnetPlan
  <2>2. \A s : s \in Range(d.subnets) <=> \E k \in 1 .. n : s = d.subnets[k]
    BY <1>1 DEF Range
  <2> HIDE DEF ss, n, T
  <2>3. QED
    BY <1>4, <2>1, <2>2
<1>6. deviceSteps(d) =
        CASE d.type = "physical" -> L \o T [] d.type = "nameserver" -> << >> [] OTHER -> F
  BY DEF deviceSteps
<1> HIDE DEF T
<1>7. Plan(L \o T, M) /\ \A x : x \in Range(L \o T) <=> x \in Range(L) \/ x \in Range(T)
  <2> DEFINE c == L \o T
  <2>1. Plan(c, { d.mac }) /\ \A x : x \in Range(c) <=> x \in Range(L) \/ x \in Range(T)
    <3> HIDE DEF L
    <3> QED
      BY <1>3, <1>4, JoinPlans
  <2>2. T \in Seq(Range(T))
    BY <1>4 DEF Plan, IsSeq
  <2>3. c[1] = Do("lookup", d.mac, "") /\ DOMAIN c = 1 .. Len(c) /\ Len(c) \in Nat /\ Len(c) >= 1
    <3> DEFINE l == Do("lookup", d.mac, "")
    <3> HIDE DEF l
    <3>1. (<< l >> \o T)[1] = l /\ DOMAIN (<< l >> \o T) = 1 .. Len(<< l >> \o T)
          /\ Len(<< l >> \o T) \in Nat /\ Len(<< l >> \o T) >= 1
      BY <2>2
    <3>2. QED
      BY <3>1 DEF l
  <2>4. c[1].op = "lookup" /\ c[1].on = d.mac
    <3> HIDE DEF c
    <3>1. c[1].op = Do("lookup", d.mac, "").op /\ c[1].on = Do("lookup", d.mac, "").on
      BY <2>3, Zenon
    <3>2. QED
      BY <3>1, DoFields, Zenon
  <2> HIDE DEF c
  <2>5. Resolved(c, M)
    <3>1. SUFFICES ASSUME NEW k \in DOMAIN c, c[k].op = "up"
                   PROVE  \E j \in DOMAIN c : j < k /\ c[j].op = "lookup" /\ c[j].on = c[k].on
      BY DEF Resolved
    <3>2. CASE c[k].on = d.mac
      <4>1. k # 1
        BY <2>4, <3>1
      <4>2. k \in 1 .. Len(c)
        BY <2>3
      <4>3. 1 \in 1 .. Len(c) /\ 1 < k
        <5> HIDE DEF c
        <5>1. Len(c) \in Nat /\ Len(c) >= 1
          BY <2>3, Zenon
        <5>2. QED
          BY <4>1, <4>2, <5>1
      <4>4. 1 \in DOMAIN c
        BY <2>3, <4>3
      <4>5. QED
        BY <2>4, <3>2, <4>3, <4>4
    <3>3. CASE c[k].on # d.mac
      BY <2>1, <3>1, <3>3 DEF Plan, Resolved
    <3>4. QED
      BY <3>2, <3>3
  <2>6. QED
    BY <2>1, <2>5 DEF c, Plan
<1> DEFINE LT == L \o T
           p == deviceSteps(d)
<1>8. /\ p = CASE d.type = "physical" -> LT [] d.type = "nameserver" -> << >> [] OTHER -> F
      /\ Plan(LT, M)
      /\ \A x : x \in Range(LT) <=> x = Do("lookup", d.mac, "") \/ x \in Range(T)
  BY <1>3, <1>6, <1>7
<1> HIDE DEF LT, p, L, F
<1>9. CASE d.type = "physical"
  <2>1. p = LT
    BY <1>8, <1>9
  <2>2. \A x : x \in DeviceSteps(d) <=>
          x = Do("lookup", d.mac, "") \/ \E s \in Range(d.subnets) : x \in SubnetSteps(d.mac, s)
    BY <1>9 DEF DeviceSteps
  <2>3. QED
    BY <1>5, <1>8, <2>1, <2>2 DEF p
<1>10. CASE d.type = "nameserver"
  <2>1. p = << >> /\ DeviceSteps(d) = { }
    BY <1>8, <1>10 DEF DeviceSteps
  <2>2. Plan(<< >>, M) /\ Range(<< >>) = { }
    BY NoStep
  <2>3. QED
    BY <2>1, <2>2 DEF p
<1>11. CASE d.type \notin { "physical", "nameserver" }
  <2>1. p = F /\ DeviceSteps(d) = { Do("error", "", "") }
    BY <1>8, <1>11 DEF DeviceSteps
  <2>2. QED
    BY <1>2, <2>1 DEF p
<1>12. QED
  BY <1>9, <1>10, <1>11

\* The calls of ApplyNetworkConfig, ApplyHosts and the guest agent's service.
ResolvSteps(n) ==
  IF nameservers(n) = { } THEN { } ELSE FileSteps("resolv.conf", << nameservers(n) >>)

HostsSteps(u, n) ==
  IF ~u.manage \/ u.hostname = "" THEN { }
  ELSE FileSteps("hosts", << staticAddress(n), u.hostname >>)

NetSteps(u, n) ==
  (UNION { DeviceSteps(d) : d \in Range(n) }) \union ResolvSteps(n) \union HostsSteps(u, n)
  \union { Do("enable", "qemu-ga", "") }

\* What main does after reading network-config is a plan, of exactly these calls.
LEMMA NetPlan ==
  ASSUME NEW M, NEW u, NEW n, IsSeq(n), \A d \in Range(n) : IsSeq(d.subnets)
  PROVE  LET s == ApplyNetworkConfig(n) \o Finish(u, n)
         IN  Plan(s, M) /\ \A x : x \in Range(s) <=> x \in NetSteps(u, n)
<1> DEFINE ds == [k \in DOMAIN n |-> deviceSteps(n[k])]
           l == Len(n)
           T == FlattenSeq(ds)
           R == applyResolvConf(n)
           H == ApplyHosts(u, staticAddress(n))
           Q == << Do("enable", "qemu-ga", "") >>
           TR == T \o R
           HQ == H \o Q
<1>1. l \in Nat /\ DOMAIN n = 1 .. l /\ \A k \in 1 .. l : n[k] \in Range(n)
  BY DEF IsSeq, Range
<1>2. Plan(T, M) /\ \A x : x \in Range(T) <=> \E k \in 1 .. l : x \in Range(ds[k])
  <2>1. \A k \in 1 .. l : ds[k] = deviceSteps(n[k])
    BY <1>1
  <2>2. \A k \in 1 .. l : Plan(ds[k], M)
    BY <1>1, <2>1, DevicePlan
  <2>3. ds = [k \in 1 .. l |-> ds[k]]
    BY <1>1
  <2> HIDE DEF ds, l
  <2>4. QED
    BY <1>1, <2>2, <2>3, FlattenPlans
<1>3. \A x : x \in Range(T) <=> \E d \in Range(n) : x \in DeviceSteps(d)
  <2>1. \A x : \A k \in 1 .. l : x \in Range(ds[k]) <=> x \in DeviceSteps(n[k])
    BY <1>1, DevicePlan
  <2>2. \A d : d \in Range(n) <=> \E k \in 1 .. l : d = n[k]
    BY <1>1 DEF Range
  <2> HIDE DEF ds, l, T
  <2>3. QED
    BY <1>2, <2>1, <2>2
<1>4. Plan(R, M) /\ Range(R) = ResolvSteps(n)
  <2> DEFINE W == writeManagedFile("resolv.conf", << nameservers(n) >>)
             S == FileSteps("resolv.conf", << nameservers(n) >>)
  <2>1. Plan(W, M) /\ Range(W) = S
    BY FilePlan
  <2>2. R = IF nameservers(n) = { } THEN << >> ELSE W
    BY DEF applyResolvConf
  <2>3. Plan(<< >>, M) /\ Range(<< >>) = { }
    BY NoStep
  <2> HIDE DEF R, W, S
  <2>4. Plan(R, M) /\ Range(R) = IF nameservers(n) = { } THEN { } ELSE S
    BY <2>1, <2>2, <2>3
  <2>5. QED
    BY <2>4 DEF S, ResolvSteps
<1>5. Plan(H, M) /\ Range(H) = HostsSteps(u, n)
  <2> DEFINE W == writeManagedFile("hosts", << staticAddress(n), u.hostname >>)
             S == FileSteps("hosts", << staticAddress(n), u.hostname >>)
             C == ~u.manage \/ u.hostname = ""
  <2>1. Plan(W, M) /\ Range(W) = S
    BY FilePlan
  <2>2. H = IF C THEN << >> ELSE W
    BY DEF ApplyHosts
  <2>3. Plan(<< >>, M) /\ Range(<< >>) = { }
    BY NoStep
  <2> HIDE DEF H, W, S, C
  <2>4. Plan(H, M) /\ Range(H) = IF C THEN { } ELSE S
    BY <2>1, <2>2, <2>3
  <2>5. QED
    BY <2>4 DEF S, C, HostsSteps
<1>6. Plan(Q, M) /\ Range(Q) = { Do("enable", "qemu-ga", "") }
  BY OneStep DEF Do
<1>7. ApplyNetworkConfig(n) \o Finish(u, n) = TR \o HQ
  BY DEF ApplyNetworkConfig, Finish
<1> HIDE DEF T, R, H, Q
<1>8. Plan(TR, M) /\ \A x : x \in Range(TR) <=> x \in Range(T) \/ x \in Range(R)
  BY <1>2, <1>4, JoinPlans, Zenon
<1>9. Plan(HQ, M) /\ \A x : x \in Range(HQ) <=> x \in Range(H) \/ x \in Range(Q)
  BY <1>5, <1>6, JoinPlans, Zenon
<1> HIDE DEF TR, HQ
<1>10. Plan(TR \o HQ, M) /\ \A x : x \in Range(TR \o HQ) <=> x \in Range(TR) \/ x \in Range(HQ)
  BY <1>8, <1>9, JoinPlans, Zenon
<1> DEFINE p == TR \o HQ
<1>11. \A x : x \in Range(p) <=> x \in Range(T) \/ x \in Range(R) \/ x \in Range(H) \/ x \in Range(Q)
  BY <1>8, <1>9, <1>10
<1> HIDE DEF p
<1>12. \A x : x \in Range(p) <=> x \in NetSteps(u, n)
  <2>1. SUFFICES ASSUME NEW x PROVE x \in Range(p) <=> x \in NetSteps(u, n)
    OBVIOUS
  <2> DEFINE A == UNION { DeviceSteps(d) : d \in Range(n) }
             E == { Do("enable", "qemu-ga", "") }
  <2>2. x \in Range(T) <=> x \in A
    BY <1>3
  <2>3. NetSteps(u, n) = A \union ResolvSteps(n) \union HostsSteps(u, n) \union E
    BY DEF NetSteps
  <2>4. Range(Q) = E
    BY <1>6
  <2> HIDE DEF A, E
  <2>5. x \in NetSteps(u, n) <=> x \in A \/ x \in ResolvSteps(n) \/ x \in HostsSteps(u, n) \/ x \in E
    BY <2>3
  <2>6. QED
    BY <1>4, <1>5, <1>11, <2>2, <2>4, <2>5, Zenon
<1>13. QED
  BY <1>7, <1>10, <1>12 DEF p

\* hosts.go: the address of the hostname is the loopback alias if there is no
\* static subnet, and otherwise the address of one.
LEMMA StaticAddress ==
  ASSUME NEW n, IsSeq(n), \A d \in Range(n) : IsSeq(d.subnets)
  PROVE  \/ /\ staticAddress(n) = LoopbackAlias
            /\ \A d \in Range(n) : \A s \in Range(d.subnets) : s.type # "static"
         \/ \E d \in Range(n) : \E s \in Range(d.subnets) :
              s.type = "static" /\ staticAddress(n) = s.address
<1> DEFINE ss == [k \in DOMAIN n |-> n[k].subnets]
           l == Len(n)
           R == UNION { Range(d.subnets) : d \in Range(n) }
           all == FlattenSeq(ss)
           I == { i \in 1 .. Len(all) : all[i].type = "static" }
<1>1. l \in Nat /\ DOMAIN n = 1 .. l /\ \A k \in 1 .. l : n[k] \in Range(n)
  BY DEF IsSeq, Range
<1>2. ss \in Seq(Seq(R)) /\ Len(ss) = l
  <2>1. \A k \in 1 .. l : ss[k] \in Seq(R)
    <3>1. SUFFICES ASSUME NEW k \in 1 .. l PROVE ss[k] \in Seq(R)
      OBVIOUS
    <3>2. Range(n[k].subnets) \subseteq R
      BY <1>1
    <3>3. n[k].subnets \in Seq(Range(n[k].subnets))
      BY <1>1 DEF IsSeq
    <3> HIDE DEF R
    <3>4. n[k].subnets \in Seq(R)
      BY <3>2, <3>3
    <3>5. QED
      BY <1>1, <3>4
  <2>2. ss = [k \in 1 .. l |-> ss[k]]
    BY <1>1
  <2> HIDE DEF R, ss, l
  <2>3. ss \in [1 .. l -> Seq(R)]
    BY <2>1, <2>2
  <2>4. QED
    BY <1>1, <2>3
<1>3. /\ all \in Seq(R)
      /\ \A x : x \in Range(all) <=> \E k \in 1 .. l : x \in Range(n[k].subnets)
  <2>1. \A k \in 1 .. l : ss[k] = n[k].subnets
    BY <1>1
  <2> HIDE DEF R, ss, l
  <2>2. QED
    BY <1>2, <2>1, FlattenRange
<1>4. \A x : x \in Range(all) <=> \E d \in Range(n) : x \in Range(d.subnets)
  <2>1. \A d : d \in Range(n) <=> \E k \in 1 .. l : d = n[k]
    BY <1>1 DEF Range
  <2> HIDE DEF all
  <2>2. QED
    BY <1>3, <2>1
<1>5. I # { } => Min(I) \in I
  <2>1. I \subseteq Nat
    BY <1>3
  <2> HIDE DEF I
  <2>2. I # { } => \E x \in I : \A y \in I : x <= y
    BY <2>1, LeastMember
  <2>3. QED
    BY <2>2 DEF Min
<1>6. staticAddress(n) = IF I = { } THEN LoopbackAlias ELSE all[Min(I)].address
  <2> DEFINE first == SelectInSeq(all, LAMBDA s : s.type = "static")
  <2>1. staticAddress(n) = IF first = 0 THEN LoopbackAlias ELSE all[first].address
    BY DEF staticAddress
  <2>2. first = IF I # { } THEN Min(I) ELSE 0
    BY DEF SelectInSeq
  <2>3. I # { } => Min(I) # 0
    BY <1>5
  <2> HIDE DEF all, first, I
  <2>4. QED
    BY <2>1, <2>2, <2>3
<1> HIDE DEF all
<1>7. DOMAIN all = 1 .. Len(all)
  BY <1>3
<1>8. CASE I = { }
  <2>1. \A x \in Range(all) : x.type # "static"
    BY <1>7, <1>8 DEF Range
  <2>2. staticAddress(n) = LoopbackAlias
    BY <1>6, <1>8, Zenon
  <2>3. QED
    BY <1>4, <2>1, <2>2
<1>9. CASE I # { }
  <2>1. PICK i \in 1 .. Len(all) : all[i].type = "static" /\ staticAddress(n) = all[i].address
    BY <1>5, <1>6, <1>9
  <2>2. all[i] \in Range(all)
    BY <1>7 DEF Range
  <2>3. QED
    BY <1>4, <2>1, <2>2
<1>10. QED
  BY <1>8, <1>9

-----------------------------------------------------------------------------
(* The inductive invariant *)

\* The head that void-init gives a file.
HeadOf(f, u, n) ==
  CASE f = "authorized_keys" -> << u.keys >>
    [] f = "dhcpcd.conf"     -> << "template" >>
    [] f = "resolv.conf"     -> << nameservers(n) >>
    [] OTHER                 -> << staticAddress(n), u.hostname >>

\* What the calls of a run with this user-data and network-config look like:
\* two of them on the same object do not disagree about its value.
Known(x, u, n) ==
  /\ x = Do(x.op, x.on, x.value)
  /\ x.op \in { "read", "truncate", "write", "chmod" } => x.on \in File
  /\ x.op = "write" => x.value = HeadOf(x.on, u, n)
  /\ x.op = "writeHostname" => x.on = "" /\ x.value = u.hostname
  /\ x.op = "sethostname" => x.value = u.hostname
  /\ x.op = "chpasswd" => x.value = u.password
  /\ x.op = "chown" => x.on \in { ".ssh", "authorized_keys" }
  /\ x.op = "enable" => x.on \in { "dhcpcd", "qemu-ga" }
  /\ x.op = "disable" => x.on = "dhcpcd"

FindUser == Do("findUserData", "", "")
FindNet  == Do("findNetworkConfig", "", "")

\* What a call achieves, as far as no later call may take it back: dhcpcd may be
\* disabled after it was enabled, and nothing achieves an error.
Done(x) ==
  /\ x.op # "error"
  /\ x.op = "writeHostname" => hostname = x.value
  /\ x.op = "sethostname" => kernel.hostname = x.value
  /\ x.op = "chpasswd" => password = x.value
  /\ x.op = "chown" => x.on \in owned
  /\ x.op = "write" => files[x.on].head = x.value
  /\ x.op = "chmod" => files[x.on].mode
  /\ x.op = "up" => x.on \in kernel.up
  /\ x.op = "addr" => << x.on, x.value >> \in kernel.addrs
  /\ x.op = "route" => x.value \in kernel.routes
  /\ (x.op = "enable" /\ x.on = "qemu-ga") => x.on \in services

IsFile(r) ==
  /\ r = [there |-> r.there, head |-> r.head, section |-> r.section, mode |-> r.mode]
  /\ r.there \in BOOLEAN /\ r.mode \in BOOLEAN

IsKernel(k) == k = [hostname |-> k.hostname, up |-> k.up, addrs |-> k.addrs, routes |-> k.routes]

\* The variables have their types.
ShapeInv ==
  /\ media \in Media /\ NetIsSeq(net)
  /\ status \in { "off", "running", "ok", "failed" }
  /\ status # "running" => todo = << >>
  /\ from \in (0 .. Len(media)) \X (0 .. Len(media)) \/ status = "off"
  /\ files = [f \in File |-> files[f]] /\ \A f \in File : IsFile(files[f])
  /\ edits \in [File -> { "", "edit" }]
  /\ owned \subseteq { ".ssh", "authorized_keys" }
  /\ services \subseteq { "dhcpcd", "qemu-ga" }
  /\ IsKernel(kernel) /\ kernel.up \subseteq Mac
  /\ runs \in 0 .. MaxRuns /\ crashes \in 0 .. MaxCrashes

\* What is left is the end of a plan, and a scan is the last call of one.
TodoInv ==
  /\ IsSeq(todo) /\ Bracketed(todo) /\ Resolved(todo, Mac)
  /\ \A k \in DOMAIN todo : todo[k].op \in { "findUserData", "findNetworkConfig" } => k = Len(todo)
  /\ \A x \in Range(todo) :
       x \in { FindUser } \union UserSteps(user) \union NetSteps(user, net.config)

\* From reading a file to writing it, carry is what the user put there, or
\* nothing after a loss.
CarryInv ==
  /\ carry \in { "", "edit" }
  /\ \A f \in File : files[f].section \in { "", edits[f] }
  /\ (todo # << >> /\ todo[1].op \in { "truncate", "write" }) => carry \in { "", edits[todo[1].on] }

\* Each call that the configuration needs is still to come, or is in effect.
NothingSkipped ==
  status \in { "running", "ok" } =>
    /\ FindUser \in Range(todo) \/ \A x \in UserSteps(user) : x \in Range(todo) \/ Done(x)
    /\ \/ FindUser \in Range(todo) \/ FindNet \in Range(todo)
       \/ \A x \in NetSteps(user, net.config) : x \in Range(todo) \/ Done(x)

RunInv == ShapeInv /\ TodoInv /\ CarryInv /\ NothingSkipped

\* Without a failing call and before the first crash, nothing is lost.
KeptInv ==
  crashes = 0 =>
    /\ \A f \in File :
         files[f].section = edits[f] \/ (todo # << >> /\ todo[1].op = "write" /\ todo[1].on = f)
    /\ (todo # << >> /\ todo[1].op \in { "truncate", "write" }) => carry = edits[todo[1].on]

-----------------------------------------------------------------------------
(* The calls of a configuration *)

\* The calls of writeManagedFile are such calls.
LEMMA FileKnown ==
  ASSUME NEW u, NEW n, NEW f \in File, NEW x \in FileSteps(f, HeadOf(f, u, n))
  PROVE  Known(x, u, n) /\ x.op \in { "read", "truncate", "write", "chmod" }
<1> DEFINE h == HeadOf(f, u, n)
<1>1. x \in { Do("read", f, ""), Do("truncate", f, ""), Do("write", f, h), Do("chmod", f, "") }
  BY DEF FileSteps
<1> HIDE DEF h
<1>2. CASE x = Do("read", f, "")
  <2>1. x.op = "read" /\ x.on = f /\ x.value = ""
    BY <1>2 DEF Do
  <2>2. QED
    BY <1>2, <2>1 DEF Known
<1>3. CASE x = Do("truncate", f, "")
  <2>1. x.op = "truncate" /\ x.on = f /\ x.value = ""
    BY <1>3 DEF Do
  <2>2. QED
    BY <1>3, <2>1 DEF Known
<1>4. CASE x = Do("write", f, h)
  <2>1. x.op = "write" /\ x.on = f /\ x.value = h
    BY <1>4 DEF Do
  <2>2. QED
    BY <1>4, <2>1 DEF Known, h
<1>5. CASE x = Do("chmod", f, "")
  <2>1. x.op = "chmod" /\ x.on = f /\ x.value = ""
    BY <1>5 DEF Do
  <2>2. QED
    BY <1>5, <2>1 DEF Known
<1>6. QED
  BY <1>1, <1>2, <1>3, <1>4, <1>5

\* The calls of ApplyUserData are such calls, and none of them is a scan.
LEMMA UserKnown ==
  ASSUME NEW u, NEW n, NEW x \in UserCalls(u)
  PROVE  Known(x, u, n) /\ x.op \notin { "findUserData", "findNetworkConfig" }
<1>1. CASE x \in HostnameSteps(u.hostname)
  <2>1. \/ x = Do("truncateHostname", "", "")
        \/ x = Do("writeHostname", "", u.hostname)
        \/ x = Do("sethostname", "", u.hostname)
    BY <1>1 DEF HostnameSteps
  <2>2. CASE x = Do("truncateHostname", "", "")
    <3>1. x.op = "truncateHostname" /\ x.on = "" /\ x.value = ""
      BY <2>2 DEF Do
    <3>2. QED
      BY <2>2, <3>1 DEF Known
  <2>3. CASE x = Do("writeHostname", "", u.hostname)
    <3>1. x.op = "writeHostname" /\ x.on = "" /\ x.value = u.hostname
      BY <2>3 DEF Do
    <3>2. QED
      BY <2>3, <3>1 DEF Known
  <2>4. CASE x = Do("sethostname", "", u.hostname)
    <3>1. x.op = "sethostname" /\ x.on = "" /\ x.value = u.hostname
      BY <2>4 DEF Do
    <3>2. QED
      BY <2>4, <3>1 DEF Known
  <2>5. QED
    BY <2>1, <2>2, <2>3, <2>4
<1>2. CASE x = Do("chpasswd", "", u.password)
  <2>1. x.op = "chpasswd" /\ x.on = "" /\ x.value = u.password
    BY <1>2 DEF Do
  <2>2. QED
    BY <1>2, <2>1 DEF Known
<1>3. CASE x \in { Do("chown", ".ssh", ""), Do("chown", "authorized_keys", "") }
  <2>1. PICK f \in { ".ssh", "authorized_keys" } : x = Do("chown", f, "")
    BY <1>3
  <2>2. x.op = "chown" /\ x.on = f /\ x.value = ""
    BY <2>1 DEF Do
  <2>3. x = Do(x.op, x.on, x.value)
    BY <2>1, <2>2
  <2>4. QED
    BY <2>2, <2>3 DEF Known
<1>4. CASE x \in FileSteps("authorized_keys", << u.keys >>)
  <2>1. HeadOf("authorized_keys", u, n) = << u.keys >> /\ "authorized_keys" \in File
    BY DEF HeadOf, File
  <2>2. Known(x, u, n) /\ x.op \in { "read", "truncate", "write", "chmod" }
    BY <1>4, <2>1, FileKnown
  <2>3. QED
    BY <2>2
<1>5. QED
  BY <1>1, <1>2, <1>3, <1>4 DEF UserCalls

\* The calls for a subnet are such calls, and none of them is a scan.
LEMMA SubnetKnown ==
  ASSUME NEW u, NEW n, NEW mac, NEW s, NEW x \in SubnetSteps(mac, s)
  PROVE  Known(x, u, n) /\ x.op \notin { "findUserData", "findNetworkConfig" }
<1>1. CASE x = Do("up", mac, "")
  <2>1. x.op = "up" /\ x.on = mac /\ x.value = ""
    BY <1>1 DEF Do
  <2>2. QED
    BY <1>1, <2>1 DEF Known
<1>2. CASE x \in { Do("enable", "dhcpcd", ""), Do("disable", "dhcpcd", "") }
  <2>1. PICK o \in { "enable", "disable" } : x = Do(o, "dhcpcd", "")
    BY <1>2
  <2>2. x.op = o /\ x.on = "dhcpcd" /\ x.value = ""
    BY <2>1 DEF Do
  <2>3. x = Do(x.op, x.on, x.value)
    BY <2>1, <2>2
  <2>4. QED
    BY <2>2, <2>3 DEF Known
<1>3. CASE x \in FileSteps("dhcpcd.conf", << "template" >>)
  <2>1. HeadOf("dhcpcd.conf", u, n) = << "template" >> /\ "dhcpcd.conf" \in File
    BY DEF HeadOf, File
  <2>2. Known(x, u, n) /\ x.op \in { "read", "truncate", "write", "chmod" }
    BY <1>3, <2>1, FileKnown
  <2>3. QED
    BY <2>2
<1>4. CASE x = Do("error", "", "")
  <2>1. x.op = "error" /\ x.on = "" /\ x.value = ""
    BY <1>4 DEF Do
  <2>2. QED
    BY <1>4, <2>1 DEF Known
<1>5. CASE x = Do("addr", mac, s.address)
  <2>1. x.op = "addr" /\ x.on = mac /\ x.value = s.address
    BY <1>5 DEF Do
  <2>2. QED
    BY <1>5, <2>1 DEF Known
<1>6. CASE x = Do("route", "", s.gateway)
  <2>1. x.op = "route" /\ x.on = "" /\ x.value = s.gateway
    BY <1>6 DEF Do
  <2>2. QED
    BY <1>6, <2>1 DEF Known
<1>7. QED
  BY <1>1, <1>2, <1>3, <1>4, <1>5, <1>6 DEF SubnetSteps

\* All calls after network-config was read are such calls, and none of them is a scan.
LEMMA NetKnown ==
  ASSUME NEW u, NEW n, NEW x \in NetSteps(u, n)
  PROVE  Known(x, u, n) /\ x.op \notin { "findUserData", "findNetworkConfig" }
<1>1. ASSUME NEW d, x \in DeviceSteps(d)
      PROVE  Known(x, u, n) /\ x.op \notin { "findUserData", "findNetworkConfig" }
  <2>1. CASE x = Do("lookup", d.mac, "")
    <3>1. x.op = "lookup" /\ x.on = d.mac /\ x.value = ""
      BY <2>1 DEF Do
    <3>2. QED
      BY <2>1, <3>1 DEF Known
  <2>2. CASE x = Do("error", "", "")
    <3>1. x.op = "error" /\ x.on = "" /\ x.value = ""
      BY <2>2 DEF Do
    <3>2. QED
      BY <2>2, <3>1 DEF Known
  <2>3. ASSUME NEW s, x \in SubnetSteps(d.mac, s)
        PROVE  Known(x, u, n) /\ x.op \notin { "findUserData", "findNetworkConfig" }
    BY <2>3, SubnetKnown
  <2>4. QED
    BY <1>1, <2>1, <2>2, <2>3 DEF DeviceSteps
<1>2. CASE x \in ResolvSteps(n)
  <2>1. HeadOf("resolv.conf", u, n) = << nameservers(n) >> /\ "resolv.conf" \in File
    BY DEF HeadOf, File
  <2>2. x \in FileSteps("resolv.conf", << nameservers(n) >>)
    BY <1>2 DEF ResolvSteps
  <2>3. Known(x, u, n) /\ x.op \in { "read", "truncate", "write", "chmod" }
    BY <2>1, <2>2, FileKnown
  <2>4. QED
    BY <2>3
<1>3. CASE x \in HostsSteps(u, n)
  <2>1. HeadOf("hosts", u, n) = << staticAddress(n), u.hostname >> /\ "hosts" \in File
    BY DEF HeadOf, File
  <2>2. x \in FileSteps("hosts", << staticAddress(n), u.hostname >>)
    BY <1>3 DEF HostsSteps
  <2>3. Known(x, u, n) /\ x.op \in { "read", "truncate", "write", "chmod" }
    BY <2>1, <2>2, FileKnown
  <2>4. QED
    BY <2>3
<1>4. CASE x = Do("enable", "qemu-ga", "")
  <2>1. x.op = "enable" /\ x.on = "qemu-ga" /\ x.value = ""
    BY <1>4 DEF Do
  <2>2. QED
    BY <1>4, <2>1 DEF Known
<1>5. QED
  BY <1>1, <1>2, <1>3, <1>4 DEF NetSteps

\* Every call of a run is known.
LEMMA StepKnown ==
  ASSUME NEW u, NEW n, NEW x \in { FindUser } \union UserSteps(u) \union NetSteps(u, n)
  PROVE  /\ Known(x, u, n)
         /\ x.op = "findUserData" => x = FindUser
         /\ x.op = "findNetworkConfig" => x = FindNet
<1>1. CASE x \in { FindUser, FindNet }
  <2>1. PICK o \in { "findUserData", "findNetworkConfig" } : x = Do(o, "", "")
    BY <1>1 DEF FindUser, FindNet
  <2>2. x.op = o /\ x.on = "" /\ x.value = ""
    BY <2>1 DEF Do
  <2>3. x = Do(x.op, x.on, x.value)
    BY <2>1, <2>2
  <2>4. QED
    BY <2>2, <2>3 DEF Known, FindUser, FindNet
<1>2. CASE x \in UserCalls(u)
  BY <1>2, UserKnown
<1>3. CASE x \in NetSteps(u, n)
  BY <1>3, NetKnown
<1>4. QED
  BY <1>1, <1>2, <1>3 DEF UserSteps, FindNet

\* The two scans differ.
LEMMA FindOps ==
  /\ FindUser.op = "findUserData" /\ FindNet.op = "findNetworkConfig" /\ FindUser # FindNet
<1>1. FindUser.op = "findUserData" /\ FindNet.op = "findNetworkConfig"
  BY DEF FindUser, FindNet, Do
<1>2. QED
  BY <1>1

\* Whatever is left to do is such a call, and there is one call for each scan.
LEMMA TodoKnown ==
  ASSUME TodoInv, NEW x \in Range(todo)
  PROVE  /\ Known(x, user, net.config)
         /\ x.op = "findUserData" => x = FindUser
         /\ x.op = "findNetworkConfig" => x = FindNet
BY StepKnown DEF TodoInv

-----------------------------------------------------------------------------
(* The steps of a run *)

\* What a call changes.  A file is as before except for what the calls of
\* writeManagedFile do to it, and nothing takes its mode back.
FilesStep(h) ==
  /\ files' = [f \in File |-> files'[f]] /\ \A f \in File : IsFile(files'[f])
  /\ \A f \in File :
       /\ h.op \notin { "truncate", "write" } \/ h.on # f =>
            files'[f].head = files[f].head /\ files'[f].section = files[f].section
       /\ files[f].mode => files'[f].mode
  /\ h.op = "truncate" => files'[h.on].section = ""
  /\ h.op = "write" => files'[h.on].head = h.value /\ files'[h.on].section = carry
  /\ h.op = "chmod" => files'[h.on].mode

KernelStep(h) ==
  /\ IsKernel(kernel')
  /\ kernel'.hostname = IF h.op = "sethostname" THEN h.value ELSE kernel.hostname
  /\ kernel'.up = IF h.op = "up" THEN kernel.up \union { h.on } ELSE kernel.up
  /\ kernel'.addrs = IF h.op = "addr" THEN kernel.addrs \union { << h.on, h.value >> }
                     ELSE kernel.addrs
  /\ kernel'.routes = IF h.op = "route" THEN kernel.routes \union { h.value } ELSE kernel.routes

DiskStep(h) ==
  /\ hostname' = IF h.op \in { "truncateHostname", "writeHostname" } THEN h.value ELSE hostname
  /\ password' = IF h.op = "chpasswd" THEN h.value ELSE password
  /\ owned' = IF h.op = "chown" THEN owned \union { h.on } ELSE owned
  /\ services' = IF h.op = "enable" THEN services \union { h.on }
                 ELSE IF h.op = "disable" THEN services \ { h.on } ELSE services
  /\ carry' = IF h.op = "read" THEN files[h.on].section ELSE carry

\* The first call that is left is made.
Advance(h) ==
  /\ status = "running" /\ todo # << >> /\ h = todo[1] /\ todo' = Tail(todo)
  /\ h.op \notin { "error", "findUserData", "findNetworkConfig" }
  /\ h.op = "lookup" => h.on \in Mac
  /\ UNCHANGED << status, user, net, from, media, edits, runs, crashes >>
  /\ FilesStep(h) /\ KernelStep(h) /\ DiskStep(h)

\* The run ends with an error, and what it did stays.
Fails ==
  /\ status = "running" /\ todo # << >> /\ status' = "failed" /\ todo' = << >>
  /\ MayFail \/ todo[1].op \notin { "read", "truncate", "write" }
  /\ UNCHANGED << user, net, from, carry, files, hostname, password, owned, services, kernel >>
  /\ UNCHANGED << media, edits, runs, crashes >>

\* A call that is not about files leaves them alone.
LEMMA FilesSame ==
  ASSUME ShapeInv, NEW h, h.op \notin { "truncate", "write", "chmod" }, files' = files
  PROVE  FilesStep(h)
BY DEF ShapeInv, FilesStep

\* A call about something else leaves the kernel as it is.
LEMMA KernelSame ==
  ASSUME ShapeInv, NEW h, h.op \notin { "sethostname", "up", "addr", "route" }, kernel' = kernel
  PROVE  KernelStep(h)
BY DEF ShapeInv, KernelStep

\* findUserData and findNetworkConfig apart, a step of the run makes the first
\* call that is left, or fails.
LEMMA WriteHostnameStep ==
  ASSUME ShapeInv, TodoInv, WriteHostname
  PROVE  Fails \/ \E h : Advance(h)
<1> DEFINE h == todo[1]
<1>1. /\ status = "running" /\ todo # << >> /\ Head(todo) = h
      /\ h.op \in { "truncateHostname", "writeHostname" }
  BY DEF WriteHostname, At
<1>2. /\ carry' = carry /\ files' = files /\ password' = password /\ owned' = owned
      /\ services' = services /\ kernel' = kernel
      /\ media' = media /\ edits' = edits /\ runs' = runs /\ crashes' = crashes
  BY DEF WriteHostname, envVars
<1>3. CASE Continue /\ hostname' = Value
  <2>1. /\ todo' = Tail(todo) /\ hostname' = h.value
        /\ status' = status /\ user' = user /\ net' = net /\ from' = from
    BY <1>1, <1>3 DEF Continue, Value
  <2> HIDE DEF h
  <2>2. FilesStep(h) /\ KernelStep(h)
    BY <1>1, <1>2, FilesSame, KernelSame
  <2>3. DiskStep(h)
    BY <1>1, <1>2, <2>1 DEF DiskStep
  <2>4. Advance(h)
    BY <1>1, <1>2, <2>1, <2>2, <2>3 DEF Advance, h
  <2>5. QED
    BY <2>4
<1>4. CASE MayFail /\ Fatal /\ UNCHANGED hostname
  BY <1>1, <1>2, <1>4 DEF Fatal, Fails
<1>5. QED
  BY <1>3, <1>4 DEF WriteHostname

\* In particular, the next call.
LEMMA HeadKnown ==
  ASSUME TodoInv, todo # << >>
  PROVE  Known(todo[1], user, net.config) /\ todo[1] \in Range(todo) /\ 1 \in DOMAIN todo
<1>1. 1 \in DOMAIN todo
  BY DEF TodoInv, IsSeq
<1>2. todo[1] \in Range(todo)
  BY <1>1 DEF Range
<1>3. QED
  BY <1>1, <1>2, TodoKnown

\* Sethostname is such a step.
LEMMA SethostnameStep ==
  ASSUME ShapeInv, TodoInv, Sethostname
  PROVE  Fails \/ \E h : Advance(h)
<1> DEFINE h == todo[1]
<1>1. /\ status = "running" /\ todo # << >> /\ Head(todo) = h
      /\ h.op = "sethostname"
  BY DEF Sethostname, At
<1>2. /\ carry' = carry /\ files' = files /\ hostname' = hostname /\ password' = password /\ owned' = owned /\ services' = services
      /\ media' = media /\ edits' = edits /\ runs' = runs /\ crashes' = crashes
  BY DEF Sethostname, diskVars, envVars
<1>3. CASE Continue /\ kernel' = [kernel EXCEPT !.hostname = Value]
  <2>1. /\ todo' = Tail(todo) /\ kernel' = [kernel EXCEPT !.hostname = h.value]
        /\ status' = status /\ user' = user /\ net' = net /\ from' = from
    BY <1>1, <1>3 DEF Continue, On, Value
  <2> HIDE DEF h
  <2>2. FilesStep(h)
    BY <1>1, <1>2, FilesSame
  <2>3. KernelStep(h)
    <3>1. IsKernel(kernel)
      BY DEF ShapeInv
    <3>2. QED
      BY <1>1, <2>1, <3>1 DEF IsKernel, KernelStep
  <2>4. DiskStep(h)
    BY <1>1, <1>2 DEF DiskStep
  <2>5. Advance(h)
    BY <1>1, <1>2, <2>1, <2>2, <2>3, <2>4 DEF Advance, h
  <2>6. QED
    BY <2>5
<1>4. CASE MayFail /\ Fatal /\ UNCHANGED kernel
  BY <1>1, <1>2, <1>4 DEF Fatal, Fails
<1>5. QED
  BY <1>3, <1>4 DEF Sethostname

\* ApplyPassword is such a step.
LEMMA ApplyPasswordStep ==
  ASSUME ShapeInv, TodoInv, ApplyPassword
  PROVE  Fails \/ \E h : Advance(h)
<1> DEFINE h == todo[1]
<1>1. /\ status = "running" /\ todo # << >> /\ Head(todo) = h
      /\ h.op = "chpasswd"
  BY DEF ApplyPassword, At
<1>2. /\ carry' = carry /\ files' = files /\ hostname' = hostname /\ owned' = owned /\ services' = services /\ kernel' = kernel
      /\ media' = media /\ edits' = edits /\ runs' = runs /\ crashes' = crashes
  BY DEF ApplyPassword, diskVars, envVars
<1>3. CASE Continue /\ password' = Value
  <2>1. /\ todo' = Tail(todo) /\ password' = h.value
        /\ status' = status /\ user' = user /\ net' = net /\ from' = from
    BY <1>1, <1>3 DEF Continue, On, Value
  <2> HIDE DEF h
  <2>2. FilesStep(h) /\ KernelStep(h)
    BY <1>1, <1>2, FilesSame, KernelSame
  <2>3. DiskStep(h)
    BY <1>1, <1>2, <2>1 DEF DiskStep
  <2>4. Advance(h)
    BY <1>1, <1>2, <2>1, <2>2, <2>3 DEF Advance, h
  <2>5. QED
    BY <2>4
<1>4. CASE MayFail /\ Fatal /\ UNCHANGED password
  BY <1>1, <1>2, <1>4 DEF Fatal, Fails
<1>5. QED
  BY <1>3, <1>4 DEF ApplyPassword

\* Chown is such a step.
LEMMA ChownStep ==
  ASSUME ShapeInv, TodoInv, Chown
  PROVE  Fails \/ \E h : Advance(h)
<1> DEFINE h == todo[1]
<1>1. /\ status = "running" /\ todo # << >> /\ Head(todo) = h
      /\ h.op = "chown"
  BY DEF Chown, At
<1>2. /\ carry' = carry /\ files' = files /\ hostname' = hostname /\ password' = password /\ services' = services /\ kernel' = kernel
      /\ media' = media /\ edits' = edits /\ runs' = runs /\ crashes' = crashes
  BY DEF Chown, diskVars, envVars
<1>3. CASE Continue /\ owned' = owned \union { On }
  <2>1. /\ todo' = Tail(todo) /\ owned' = owned \union { h.on }
        /\ status' = status /\ user' = user /\ net' = net /\ from' = from
    BY <1>1, <1>3 DEF Continue, On, Value
  <2> HIDE DEF h
  <2>2. FilesStep(h) /\ KernelStep(h)
    BY <1>1, <1>2, FilesSame, KernelSame
  <2>3. DiskStep(h)
    BY <1>1, <1>2, <2>1 DEF DiskStep
  <2>4. Advance(h)
    BY <1>1, <1>2, <2>1, <2>2, <2>3 DEF Advance, h
  <2>5. QED
    BY <2>4
<1>4. CASE MayFail /\ Fatal /\ UNCHANGED owned
  BY <1>1, <1>2, <1>4 DEF Fatal, Fails
<1>5. QED
  BY <1>3, <1>4 DEF Chown

\* Read is such a step: what is below the marker is carried.
LEMMA ReadStep ==
  ASSUME ShapeInv, TodoInv, Read
  PROVE  Fails \/ \E h : Advance(h)
<1> DEFINE h == todo[1]
<1>1. /\ status = "running" /\ todo # << >> /\ Head(todo) = h
      /\ h.op = "read"
  BY DEF Read, At
<1>2. /\ files' = files /\ hostname' = hostname /\ password' = password /\ owned' = owned /\ services' = services /\ kernel' = kernel
      /\ media' = media /\ edits' = edits /\ runs' = runs /\ crashes' = crashes
  BY DEF Read, diskVars, envVars
<1>3. CASE Continue /\ carry' = files[On].section
  <2>1. /\ todo' = Tail(todo) /\ carry' = files[h.on].section
        /\ status' = status /\ user' = user /\ net' = net /\ from' = from
    BY <1>1, <1>3 DEF Continue, On, Value
  <2> HIDE DEF h
  <2>2. FilesStep(h) /\ KernelStep(h)
    BY <1>1, <1>2, FilesSame, KernelSame
  <2>3. DiskStep(h)
    BY <1>1, <1>2, <2>1 DEF DiskStep
  <2>4. Advance(h)
    BY <1>1, <1>2, <2>1, <2>2, <2>3 DEF Advance, h
  <2>5. QED
    BY <2>4
<1>4. CASE MayFail /\ Fatal /\ UNCHANGED carry
  BY <1>1, <1>2, <1>4 DEF Fatal, Fails
<1>5. QED
  BY <1>3, <1>4 DEF Read

\* Truncate is such a step: head and section are gone until the write.
LEMMA TruncateStep ==
  ASSUME ShapeInv, TodoInv, Truncate
  PROVE  Fails \/ \E h : Advance(h)
<1> DEFINE h == todo[1]
<1>1. /\ status = "running" /\ todo # << >> /\ Head(todo) = h
      /\ h.op = "truncate"
  <2>1. At("truncate")
    BY Zenon DEF Truncate
  <2>2. QED
    BY <2>1 DEF At
<1>2. /\ carry' = carry /\ hostname' = hostname /\ password' = password /\ owned' = owned /\ services' = services /\ kernel' = kernel
      /\ media' = media /\ edits' = edits /\ runs' = runs /\ crashes' = crashes
  BY DEF Truncate, diskVars, envVars
<1>3. CASE Continue /\ files' = [files EXCEPT ![On] = [there |-> TRUE, head |-> << >>, section |-> "",
                                                  mode |-> @.mode \/ ~@.there]]
  <2>1. /\ todo' = Tail(todo) /\ files' = [files EXCEPT ![h.on] = [there |-> TRUE, head |-> << >>, section |-> "",
                                                  mode |-> @.mode \/ ~@.there]]
        /\ status' = status /\ user' = user /\ net' = net /\ from' = from
    BY <1>1, <1>3 DEF Continue, On, Value
  <2> HIDE DEF h
  <2>2. KernelStep(h)
    BY <1>1, <1>2, KernelSame
  <2>3. FilesStep(h)
    <3>1. h.on \in File
      BY <1>1, HeadKnown DEF h, Known
    <3>2. files = [f \in File |-> files[f]] /\ IsFile(files[h.on])
      BY <3>1 DEF ShapeInv
    <3>3. \A f \in File : f # h.on => files'[f] = files[f]
      BY <2>1, <3>2
    <3>4. files'[h.on] = [there |-> TRUE, head |-> << >>, section |-> "",
                            mode |-> files[h.on].mode \/ ~files[h.on].there]
      BY <2>1, <3>1, <3>2 DEF IsFile
    <3>5. files' = [f \in File |-> files'[f]]
      BY <2>1, <3>2
    <3> DEFINE m == files[h.on].mode \/ ~files[h.on].there
    <3>6. m \in BOOLEAN /\ (files[h.on].mode => m)
      BY <3>2 DEF IsFile
    <3>7. files'[h.on] = [there |-> TRUE, head |-> << >>, section |-> "", mode |-> m]
      BY <3>4
    <3> HIDE DEF m
    <3>8. IsFile(files'[h.on]) /\ files'[h.on].section = "" /\ files'[h.on].mode = m
      <4> DEFINE r == files'[h.on]
      <4>1. r = [there |-> TRUE, head |-> << >>, section |-> "", mode |-> m]
        BY <3>7
      <4> HIDE DEF r
      <4>2. r.there = TRUE /\ r.head = << >> /\ r.section = "" /\ r.mode = m
        BY <4>1
      <4>3. r = [there |-> r.there, head |-> r.head, section |-> r.section, mode |-> r.mode]
        BY <4>1, <4>2, Zenon
      <4>4. r.there \in BOOLEAN /\ r.mode \in BOOLEAN
        BY <3>6, <4>2, Zenon
      <4>5. QED
        BY <4>2, <4>3, <4>4, Zenon DEF IsFile, r
    <3>9. \A f \in File : IsFile(files'[f])
      BY <3>3, <3>8 DEF ShapeInv
    <3>10. files[h.on].mode => files'[h.on].mode
      BY <3>6, <3>8
    <3>11. QED
      BY <1>1, <3>3, <3>5, <3>8, <3>9, <3>10 DEF FilesStep
  <2>4. DiskStep(h)
    BY <1>1, <1>2 DEF DiskStep
  <2>5. Advance(h)
    BY <1>1, <1>2, <2>1, <2>2, <2>3, <2>4 DEF Advance, h
  <2>6. QED
    BY <2>5
<1>4. CASE MayFail /\ Fatal /\ UNCHANGED files
  BY <1>1, <1>2, <1>4 DEF Fatal, Fails
<1>5. QED
  BY <1>3, <1>4 DEF Truncate

\* WriteContent is such a step: the file has the head and what was carried.
LEMMA WriteContentStep ==
  ASSUME ShapeInv, TodoInv, WriteContent
  PROVE  Fails \/ \E h : Advance(h)
<1> DEFINE h == todo[1]
<1>1. /\ status = "running" /\ todo # << >> /\ Head(todo) = h
      /\ h.op = "write"
  BY DEF WriteContent, At
<1>2. /\ carry' = carry /\ hostname' = hostname /\ password' = password /\ owned' = owned /\ services' = services /\ kernel' = kernel
      /\ media' = media /\ edits' = edits /\ runs' = runs /\ crashes' = crashes
  BY DEF WriteContent, diskVars, envVars
<1>3. CASE Continue /\ files' = [files EXCEPT ![On].head = Value, ![On].section = carry]
  <2>1. /\ todo' = Tail(todo) /\ files' = [files EXCEPT ![h.on].head = h.value, ![h.on].section = carry]
        /\ status' = status /\ user' = user /\ net' = net /\ from' = from
    BY <1>1, <1>3 DEF Continue, On, Value
  <2> HIDE DEF h
  <2>2. KernelStep(h)
    BY <1>1, <1>2, KernelSame
  <2>3. FilesStep(h)
    <3>1. h.on \in File
      BY <1>1, HeadKnown DEF h, Known
    <3>2. files = [f \in File |-> files[f]] /\ IsFile(files[h.on])
      BY <3>1 DEF ShapeInv
    <3>3. \A f \in File : f # h.on => files'[f] = files[f]
      BY <2>1, <3>2
    <3>4. files'[h.on] = [there |-> files[h.on].there, head |-> h.value, section |-> carry,
                            mode |-> files[h.on].mode]
      BY <2>1, <3>1, <3>2 DEF IsFile
    <3>5. files' = [f \in File |-> files'[f]]
      BY <2>1, <3>2
    <3>6. IsFile(files'[h.on])
      BY <3>2, <3>4 DEF IsFile
    <3>7. \A f \in File : IsFile(files'[f])
      BY <3>3, <3>6 DEF ShapeInv
    <3>8. /\ files[h.on].mode => files'[h.on].mode
          /\ files'[h.on].head = h.value /\ files'[h.on].section = carry
      BY <3>2, <3>4 DEF IsFile
    <3>9. QED
      BY <1>1, <3>3, <3>5, <3>7, <3>8 DEF FilesStep
  <2>4. DiskStep(h)
    BY <1>1, <1>2 DEF DiskStep
  <2>5. Advance(h)
    BY <1>1, <1>2, <2>1, <2>2, <2>3, <2>4 DEF Advance, h
  <2>6. QED
    BY <2>5
<1>4. CASE MayFail /\ Fatal /\ UNCHANGED files
  BY <1>1, <1>2, <1>4 DEF Fatal, Fails
<1>5. QED
  BY <1>3, <1>4 DEF WriteContent

\* Chmod is such a step.
LEMMA ChmodStep ==
  ASSUME ShapeInv, TodoInv, Chmod
  PROVE  Fails \/ \E h : Advance(h)
<1> DEFINE h == todo[1]
<1>1. /\ status = "running" /\ todo # << >> /\ Head(todo) = h
      /\ h.op = "chmod"
  BY DEF Chmod, At
<1>2. /\ carry' = carry /\ hostname' = hostname /\ password' = password /\ owned' = owned /\ services' = services /\ kernel' = kernel
      /\ media' = media /\ edits' = edits /\ runs' = runs /\ crashes' = crashes
  BY DEF Chmod, diskVars, envVars
<1>3. CASE Continue /\ files' = [files EXCEPT ![On].mode = TRUE]
  <2>1. /\ todo' = Tail(todo) /\ files' = [files EXCEPT ![h.on].mode = TRUE]
        /\ status' = status /\ user' = user /\ net' = net /\ from' = from
    BY <1>1, <1>3 DEF Continue, On, Value
  <2> HIDE DEF h
  <2>2. KernelStep(h)
    BY <1>1, <1>2, KernelSame
  <2>3. FilesStep(h)
    <3>1. h.on \in File
      BY <1>1, HeadKnown DEF h, Known
    <3>2. files = [f \in File |-> files[f]] /\ IsFile(files[h.on])
      BY <3>1 DEF ShapeInv
    <3>3. \A f \in File : f # h.on => files'[f] = files[f]
      BY <2>1, <3>2
    <3>4. files'[h.on] = [there |-> files[h.on].there, head |-> files[h.on].head,
                            section |-> files[h.on].section, mode |-> TRUE]
      BY <2>1, <3>1, <3>2 DEF IsFile
    <3>5. files' = [f \in File |-> files'[f]]
      BY <2>1, <3>2
    <3>6. IsFile(files'[h.on])
      BY <3>2, <3>4 DEF IsFile
    <3>7. \A f \in File : IsFile(files'[f])
      BY <3>3, <3>6 DEF ShapeInv
    <3>8. /\ files'[h.on].mode
          /\ files'[h.on].head = files[h.on].head /\ files'[h.on].section = files[h.on].section
      BY <3>2, <3>4 DEF IsFile
    <3>9. QED
      BY <1>1, <3>3, <3>5, <3>7, <3>8 DEF FilesStep
  <2>4. DiskStep(h)
    BY <1>1, <1>2 DEF DiskStep
  <2>5. Advance(h)
    BY <1>1, <1>2, <2>1, <2>2, <2>3, <2>4 DEF Advance, h
  <2>6. QED
    BY <2>5
<1>4. CASE MayFail /\ Fatal /\ UNCHANGED files
  BY <1>1, <1>2, <1>4 DEF Fatal, Fails
<1>5. QED
  BY <1>3, <1>4 DEF Chmod

\* Lookup and Unsupported are such steps; a lookup succeeds on interfaces of the machine only.
LEMMA LookupStep ==
  ASSUME ShapeInv, TodoInv, Lookup \/ Unsupported
  PROVE  Fails \/ \E h : Advance(h)
<1> DEFINE h == todo[1]
<1>1. /\ status = "running" /\ todo # << >> /\ Head(todo) = h
      /\ h.op \in { "lookup", "error" }
  BY DEF Lookup, Unsupported, At
<1>2. /\ carry' = carry /\ files' = files /\ hostname' = hostname /\ password' = password
      /\ owned' = owned /\ services' = services /\ kernel' = kernel
      /\ media' = media /\ edits' = edits /\ runs' = runs /\ crashes' = crashes
  BY DEF Lookup, Unsupported, diskVars, envVars
<1>3. CASE h.op = "lookup" /\ On \in Mac /\ Continue
  <2>1. /\ todo' = Tail(todo) /\ h.on \in Mac
        /\ status' = status /\ user' = user /\ net' = net /\ from' = from
    BY <1>1, <1>3 DEF Continue, On
  <2> HIDE DEF h
  <2>2. FilesStep(h) /\ KernelStep(h)
    BY <1>2, <1>3, FilesSame, KernelSame
  <2>3. DiskStep(h)
    BY <1>2, <1>3 DEF DiskStep
  <2>4. Advance(h)
    BY <1>1, <1>2, <1>3, <2>1, <2>2, <2>3 DEF Advance, h
  <2>5. QED
    BY <2>4
<1>4. CASE Fatal
  BY <1>1, <1>2, <1>4 DEF Fatal, Fails
<1>5. QED
  BY <1>1, <1>3, <1>4 DEF Lookup, Unsupported, At

\* Ip is such a step.
LEMMA IpStep ==
  ASSUME ShapeInv, TodoInv, Ip
  PROVE  Fails \/ \E h : Advance(h)
<1> DEFINE h == todo[1]
<1>1. /\ status = "running" /\ todo # << >> /\ Head(todo) = h
      /\ h.op \in { "up", "addr", "route" }
  BY DEF Ip, At
<1>2. /\ carry' = carry /\ files' = files /\ hostname' = hostname /\ password' = password
      /\ owned' = owned /\ services' = services
      /\ media' = media /\ edits' = edits /\ runs' = runs /\ crashes' = crashes
  BY DEF Ip, diskVars, envVars
<1>3. CASE /\ Continue
           /\ kernel' = CASE At("up")    -> [kernel EXCEPT !.up = @ \union { On }]
                          [] At("addr")  -> [kernel EXCEPT !.addrs = @ \union { << On, Value >> }]
                          [] At("route") -> [kernel EXCEPT !.routes = @ \union { Value }]
  <2>1. /\ todo' = Tail(todo)
        /\ status' = status /\ user' = user /\ net' = net /\ from' = from
    BY <1>3 DEF Continue
  <2>2. On = h.on /\ Value = h.value
    BY <1>1 DEF On, Value
  <2>3. \A o : At(o) <=> h.op = o
    BY <1>1 DEF At
  <2> HIDE DEF h
  <2>4. FilesStep(h)
    BY <1>1, <1>2, FilesSame
  <2>5. /\ h.op = "up" => kernel' = [kernel EXCEPT !.up = @ \union { h.on }]
        /\ h.op = "addr" => kernel' = [kernel EXCEPT !.addrs = @ \union { << h.on, h.value >> }]
        /\ h.op = "route" => kernel' = [kernel EXCEPT !.routes = @ \union { h.value }]
    BY <1>1, <1>3, <2>2, <2>3
  <2>6. KernelStep(h)
    <3>1. IsKernel(kernel)
      BY DEF ShapeInv
    <3>2. QED
      BY <1>1, <2>5, <3>1 DEF IsKernel, KernelStep
  <2>7. DiskStep(h)
    BY <1>1, <1>2 DEF DiskStep
  <2>8. Advance(h)
    BY <1>1, <1>2, <2>1, <2>4, <2>6, <2>7 DEF Advance, h
  <2>9. QED
    BY <2>8
<1>4. CASE Fatal /\ UNCHANGED kernel
  BY <1>1, <1>2, <1>4 DEF Fatal, Fails
<1>5. QED
  BY <1>3, <1>4 DEF Ip

\* Service is such a step.
LEMMA ServiceStep ==
  ASSUME ShapeInv, TodoInv, Service
  PROVE  Fails \/ \E h : Advance(h)
<1> DEFINE h == todo[1]
<1>1. /\ status = "running" /\ todo # << >> /\ Head(todo) = h
      /\ h.op \in { "enable", "disable" }
  BY DEF Service, At
<1>2. /\ carry' = carry /\ files' = files /\ hostname' = hostname /\ password' = password
      /\ owned' = owned /\ kernel' = kernel
      /\ media' = media /\ edits' = edits /\ runs' = runs /\ crashes' = crashes
  BY DEF Service, diskVars, envVars
<1>3. CASE Continue /\ ((h.op = "enable" /\ services' = services \union { On })
                        \/ (h.op = "disable" /\ services' = services \ { On }))
  <2>1. /\ todo' = Tail(todo) /\ On = h.on
        /\ status' = status /\ user' = user /\ net' = net /\ from' = from
    BY <1>1, <1>3 DEF Continue, On
  <2> HIDE DEF h
  <2>2. FilesStep(h) /\ KernelStep(h)
    BY <1>1, <1>2, FilesSame, KernelSame
  <2>3. DiskStep(h)
    BY <1>2, <1>3, <2>1 DEF DiskStep
  <2>4. Advance(h)
    BY <1>1, <1>2, <2>1, <2>2, <2>3 DEF Advance, h
  <2>5. QED
    BY <2>4
<1>4. CASE Fatal /\ UNCHANGED services
  BY <1>1, <1>2, <1>4 DEF Fatal, Fails
<1>5. QED
  BY <1>1, <1>3, <1>4 DEF Service, At

\* Each step of the run is a scan, the end, a failure, or the next call made.
LEMMA RunSteps ==
  ASSUME ShapeInv, TodoInv, Run
  PROVE  FindUserData \/ FindNetworkConfig \/ Finished \/ Fails \/ \E h : Advance(h)
BY WriteHostnameStep, SethostnameStep, ApplyPasswordStep, ChownStep, ReadStep, TruncateStep,
   WriteContentStep, ChmodStep, LookupStep, IpStep, ServiceStep DEF Run

\* What is left after the first call.
LEMMA TailFacts ==
  ASSUME NEW s, IsSeq(s), s # << >>
  PROVE  /\ IsSeq(Tail(s)) /\ Len(s) \in Nat /\ Len(s) >= 1 /\ Len(Tail(s)) = Len(s) - 1
         /\ DOMAIN s = 1 .. Len(s) /\ DOMAIN Tail(s) = 1 .. Len(s) - 1
         /\ \A k \in 1 .. Len(s) - 1 : Tail(s)[k] = s[k + 1]
         /\ Range(Tail(s)) \subseteq Range(s)
         /\ \A x \in Range(s) : x = s[1] \/ x \in Range(Tail(s))
<1> DEFINE t == Tail(s)
           R == Range(s)
<1>1. s \in Seq(R)
  BY DEF IsSeq
<1> HIDE DEF R
<1>2. /\ t \in Seq(R) /\ Len(s) \in Nat /\ Len(s) >= 1 /\ Len(t) = Len(s) - 1
      /\ DOMAIN s = 1 .. Len(s) /\ DOMAIN t = 1 .. Len(s) - 1
      /\ \A k \in 1 .. Len(s) - 1 : t[k] = s[k + 1]
  BY <1>1
<1> HIDE DEF t
<1>3. Range(t) \subseteq R
  BY <1>2 DEF Range
<1>4. IsSeq(t)
  <2>1. \A k \in DOMAIN t : t[k] \in Range(t)
    BY DEF Range
  <2> DEFINE Q == Range(t)
  <2> HIDE DEF Q
  <2>2. t \in [1 .. Len(t) -> Q]
    BY <1>2, <2>1 DEF Q
  <2>3. t \in Seq(Q)
    BY <1>2, <2>2
  <2>4. QED
    BY <2>3 DEF Q, IsSeq
<1>5. \A x \in R : x = s[1] \/ x \in Range(t)
  <2>1. SUFFICES ASSUME NEW k \in 1 .. Len(s), k # 1 PROVE s[k] \in Range(t)
    BY <1>2 DEF Range, R
  <2>2. k - 1 \in 1 .. Len(s) - 1 /\ (k - 1) + 1 = k
    BY <1>2, <2>1
  <2>3. t[k - 1] = s[k]
    BY <1>2, <2>2
  <2>4. QED
    BY <1>2, <2>2, <2>3 DEF Range
<1>6. QED
  BY <1>2, <1>3, <1>4, <1>5 DEF t, R

\* A call of writeManagedFile is followed by the next, and preceded by the one
\* before.
LEMMA TailBracket ==
  ASSUME NEW s, IsSeq(s), s # << >>, Bracketed(s)
  PROVE  LET t == Tail(s) IN
         /\ s[1].op = "truncate" => t # << >> /\ t[1].op = "write" /\ t[1].on = s[1].on
         /\ s[1].op = "truncateHostname" => t # << >> /\ t[1].op = "writeHostname"
         /\ t # << >> /\ t[1].op = "truncate" => s[1].op = "read" /\ s[1].on = t[1].on
         /\ t # << >> /\ t[1].op = "write" => s[1].op = "truncate" /\ s[1].on = t[1].on
<1> DEFINE t == Tail(s)
<1>1. /\ IsSeq(t) /\ DOMAIN s = 1 .. Len(s) /\ Len(s) \in Nat /\ Len(s) >= 1
      /\ DOMAIN t = 1 .. Len(s) - 1
      /\ \A k \in 1 .. Len(s) - 1 : t[k] = s[k + 1]
  BY TailFacts
<1> HIDE DEF t
<1>2. 1 \in DOMAIN s /\ (2 \in DOMAIN s => t # << >> /\ t[1] = s[2])
  <2>1. 2 \in DOMAIN s => 1 \in 1 .. Len(s) - 1 /\ 1 + 1 = 2
    BY <1>1
  <2>2. 1 \in DOMAIN t => t # << >>
    OBVIOUS
  <2>3. QED
    BY <1>1, <2>1, <2>2
<1>3. t # << >> => 2 \in DOMAIN s
  <2>1. SUFFICES ASSUME t # << >> PROVE 2 \in DOMAIN s
    OBVIOUS
  <2>2. DOMAIN t = 1 .. Len(t) /\ Len(t) \in Nat /\ Len(t) >= 1
    BY <1>1, <2>1, TailFacts, Zenon
  <2>3. 1 \in DOMAIN t
    BY <2>2
  <2>4. 1 \in 1 .. Len(s) - 1
    BY <1>1, <2>3, Zenon
  <2>5. QED
    BY <1>1, <2>4
<1>4. BracketAt(s, 1) /\ (2 \in DOMAIN s => BracketAt(s, 2))
  BY <1>2 DEF Bracketed
<1>5. 1 + 1 = 2 /\ 2 - 1 = 1 /\ 2 > 1
  OBVIOUS
<1>6. /\ s[1].op = "truncate" => 2 \in DOMAIN s /\ s[2].op = "write" /\ s[2].on = s[1].on
      /\ s[1].op = "truncateHostname" => 2 \in DOMAIN s /\ s[2].op = "writeHostname"
      /\ 2 \in DOMAIN s /\ s[2].op = "truncate" => s[1].op = "read" /\ s[1].on = s[2].on
      /\ 2 \in DOMAIN s /\ s[2].op = "write" => s[1].op = "truncate" /\ s[1].on = s[2].on
  BY <1>4, <1>5 DEF BracketAt
<1>7. QED
  BY <1>2, <1>3, <1>6 DEF t

\* A call made: what is left is still the end of a plan.
LEMMA AdvanceTodo ==
  ASSUME ShapeInv, TodoInv, NEW h, Advance(h)
  PROVE  TodoInv'
<1> DEFINE s == todo
           t == Tail(s)
<1>1. /\ todo' = t /\ user' = user /\ net' = net /\ s # << >> /\ h = s[1]
      /\ h.op = "lookup" => h.on \in Mac
  BY DEF Advance
<1>2. /\ IsSeq(t) /\ DOMAIN s = 1 .. Len(s) /\ Len(s) \in Nat /\ Len(s) >= 1
      /\ DOMAIN t = 1 .. Len(s) - 1 /\ Len(t) = Len(s) - 1
      /\ \A k \in 1 .. Len(s) - 1 : t[k] = s[k + 1]
      /\ Range(t) \subseteq Range(s)
  BY <1>1, TailFacts DEF TodoInv
<1>3. Bracketed(s) /\ Resolved(s, Mac)
  BY DEF TodoInv
<1> HIDE DEF t
<1>4. Bracketed(t)
  <2>1. SUFFICES ASSUME NEW k \in DOMAIN t PROVE BracketAt(t, k)
    BY DEF Bracketed
  <2>2. k \in Nat /\ k + 1 \in Nat /\ k + 1 \in DOMAIN s /\ t[k] = s[k + 1]
    BY <1>2
  <2>3. (k + 1) + 1 \in DOMAIN s => k + 1 \in DOMAIN t /\ t[k + 1] = s[(k + 1) + 1]
    BY <1>2
  <2>4. k > 1 => k + 1 > 1 /\ t[k - 1] = s[(k + 1) - 1]
    <3>1. k > 1 => k - 1 \in 1 .. Len(s) - 1 /\ (k - 1) + 1 = (k + 1) - 1 /\ k + 1 > 1
      BY <1>2
    <3>2. QED
      BY <1>2, <3>1
  <2>5. BracketAt(s, k + 1)
    BY <1>3, <2>2 DEF Bracketed
  <2> HIDE DEF s
  <2>6. QED
    BY <2>2, <2>3, <2>4, <2>5, SameBracket
<1>5. Resolved(t, Mac)
  <2>1. SUFFICES ASSUME NEW k \in DOMAIN t, t[k].op = "up", t[k].on \notin Mac
                 PROVE  \E j \in DOMAIN t : j < k /\ t[j].op = "lookup" /\ t[j].on = t[k].on
    BY DEF Resolved
  <2>2. k + 1 \in DOMAIN s /\ t[k] = s[k + 1] /\ k \in Nat
    BY <1>2
  <2>3. PICK j \in DOMAIN s : j < k + 1 /\ s[j].op = "lookup" /\ s[j].on = t[k].on
    BY <1>3, <2>1, <2>2 DEF Resolved
  <2>4. j # 1
    BY <1>1, <2>1, <2>3
  <2>5. j \in 1 .. Len(s)
    BY <1>2, <2>3
  <2>6. j - 1 \in 1 .. Len(s) - 1 /\ (j - 1) + 1 = j /\ j - 1 < k
    BY <1>2, <2>2, <2>3, <2>4, <2>5
  <2>7. j - 1 \in DOMAIN t /\ t[j - 1] = s[j]
    BY <1>2, <2>6
  <2>8. QED
    BY <2>3, <2>6, <2>7
<1>6. \A k \in DOMAIN t : t[k].op \in { "findUserData", "findNetworkConfig" } => k = Len(t)
  <2>1. SUFFICES ASSUME NEW k \in DOMAIN t, t[k].op \in { "findUserData", "findNetworkConfig" }
                 PROVE  k = Len(t)
    OBVIOUS
  <2>2. k + 1 \in DOMAIN s /\ t[k] = s[k + 1] /\ k \in Nat
    BY <1>2
  <2>3. k + 1 = Len(s)
    BY <2>1, <2>2 DEF TodoInv
  <2>4. QED
    BY <1>2, <2>2, <2>3
<1>7. QED
  BY <1>1, <1>2, <1>4, <1>5, <1>6 DEF TodoInv, s

\* The call is one that the plan allows, and so is the next.
LEMMA AdvanceHead ==
  ASSUME ShapeInv, TodoInv, NEW h, Advance(h)
  PROVE  /\ Known(h, user, net.config) /\ h \in Range(todo)
         /\ h.op = "up" => h.on \in Mac
         /\ h.op = "truncate" => todo' # << >> /\ todo'[1].op = "write" /\ todo'[1].on = h.on
         /\ h.op = "truncateHostname" => todo' # << >> /\ todo'[1].op = "writeHostname"
         /\ todo' # << >> /\ todo'[1].op = "truncate" => h.op = "read" /\ h.on = todo'[1].on
         /\ todo' # << >> /\ todo'[1].op = "write" => h.op = "truncate" /\ h.on = todo'[1].on
<1>1. todo # << >> /\ h = todo[1] /\ todo' = Tail(todo)
  BY DEF Advance
<1>2. Known(h, user, net.config) /\ h \in Range(todo) /\ 1 \in DOMAIN todo
  BY <1>1, HeadKnown
<1>3. IsSeq(todo) /\ Bracketed(todo)
  BY DEF TodoInv
<1>4. /\ h.op = "truncate" => todo' # << >> /\ todo'[1].op = "write" /\ todo'[1].on = h.on
      /\ h.op = "truncateHostname" => todo' # << >> /\ todo'[1].op = "writeHostname"
      /\ todo' # << >> /\ todo'[1].op = "truncate" => h.op = "read" /\ h.on = todo'[1].on
      /\ todo' # << >> /\ todo'[1].op = "write" => h.op = "truncate" /\ h.on = todo'[1].on
  BY <1>1, <1>3, TailBracket
<1>5. h.op = "up" => h.on \in Mac
  <2>1. \A j \in DOMAIN todo : ~(j < 1)
    BY <1>1, <1>3, TailFacts
  <2>2. QED
    BY <1>1, <1>2, <2>1 DEF TodoInv, Resolved
<1>6. QED
  BY <1>2, <1>4, <1>5

\* A call made: the variables stay in their ranges.
LEMMA AdvanceShape ==
  ASSUME ShapeInv, TodoInv, NEW h, Advance(h)
  PROVE  ShapeInv'
<1>1. /\ status' = status /\ net' = net /\ from' = from /\ media' = media /\ edits' = edits
      /\ runs' = runs /\ crashes' = crashes /\ status = "running"
  BY DEF Advance
<1>2. FilesStep(h) /\ KernelStep(h) /\ DiskStep(h)
  BY DEF Advance
<1>3. Known(h, user, net.config) /\ (h.op = "up" => h.on \in Mac)
  BY AdvanceHead
<1>4. files' = [f \in File |-> files'[f]] /\ \A f \in File : IsFile(files'[f])
  BY <1>2 DEF FilesStep
<1>5. owned' \subseteq { ".ssh", "authorized_keys" }
  BY <1>2, <1>3 DEF DiskStep, ShapeInv, Known
<1>6. services' \subseteq { "dhcpcd", "qemu-ga" }
  BY <1>2, <1>3 DEF DiskStep, ShapeInv, Known
<1>7. IsKernel(kernel') /\ kernel'.up \subseteq Mac
  BY <1>2, <1>3 DEF KernelStep, ShapeInv
<1>8. (status' # "running" => todo' = << >>) /\ (IsKernel(kernel))'
  BY <1>1, <1>7 DEF IsKernel
<1>9. (\A f \in File : IsFile(files[f]))'
  BY <1>4 DEF IsFile
<1>10. (NetIsSeq(net))'
  BY <1>1 DEF ShapeInv, NetIsSeq
<1>11. QED
  BY <1>1, <1>4, <1>5, <1>6, <1>7, <1>8, <1>9, <1>10 DEF ShapeInv

\* A call made: nothing but the user's section is carried from Read to WriteContent.
LEMMA AdvanceCarry ==
  ASSUME ShapeInv, TodoInv, CarryInv, NEW h, Advance(h)
  PROVE  CarryInv'
<1>1. todo # << >> /\ h = todo[1] /\ edits' = edits
  BY DEF Advance
<1>2. FilesStep(h) /\ DiskStep(h)
  BY DEF Advance
<1>3. /\ h.op \in { "read", "truncate", "write" } => h.on \in File
      /\ todo' # << >> /\ todo'[1].op = "truncate" => h.op = "read" /\ h.on = todo'[1].on
      /\ todo' # << >> /\ todo'[1].op = "write" => h.op = "truncate" /\ h.on = todo'[1].on
  BY AdvanceHead DEF Known
<1>4. carry' = IF h.op = "read" THEN files[h.on].section ELSE carry
  BY <1>2 DEF DiskStep
<1>5. \A f \in File : files[f].section \in { "", edits[f] } /\ edits[f] \in { "", "edit" }
  BY DEF CarryInv, ShapeInv
<1>6. carry' \in { "", "edit" }
  BY <1>3, <1>4, <1>5 DEF CarryInv
<1>7. ASSUME NEW f \in File PROVE files'[f].section \in { "", edits[f] }
  <2>1. CASE h.op \in { "truncate", "write" } /\ h.on = f
    BY <1>1, <1>2, <2>1 DEF FilesStep, CarryInv
  <2>2. CASE h.op \notin { "truncate", "write" } \/ h.on # f
    BY <1>2, <1>5, <2>2 DEF FilesStep
  <2>3. QED
    BY <2>1, <2>2
<1>8. (todo' # << >> /\ todo'[1].op \in { "truncate", "write" }) => carry' \in { "", edits[todo'[1].on] }
  <2>1. CASE todo' # << >> /\ todo'[1].op = "truncate"
    BY <1>3, <1>4, <1>5, <2>1
  <2>2. CASE todo' # << >> /\ todo'[1].op = "write"
    BY <1>1, <1>3, <1>4, <2>2 DEF CarryInv
  <2>3. QED
    BY <2>1, <2>2
<1>9. QED
  BY <1>1, <1>6, <1>7, <1>8 DEF CarryInv

\* What was in effect is in effect, or is to be done again; and the call that was
\* made is in effect.
LEMMA AdvanceDone ==
  ASSUME ShapeInv, TodoInv, NEW h, Advance(h),
         NEW x, Known(x, user, net.config), Done(x) \/ x = h
  PROVE  x \in Range(todo') \/ Done(x)'
<1>1. FilesStep(h) /\ KernelStep(h) /\ DiskStep(h) /\ h.op # "error"
  BY DEF Advance
<1>2. Known(h, user, net.config) /\ user' = user /\ net' = net
  BY AdvanceHead DEF Advance
<1>3. SUFFICES ASSUME x \notin Range(todo') PROVE Done(x)'
  OBVIOUS
<1>4. ASSUME todo' # << >>
      PROVE  Known(todo'[1], user, net.config) /\ todo'[1] \in Range(todo')
  <2> DEFINE t == Tail(todo)
  <2>1. todo' = t /\ todo # << >> /\ IsSeq(todo)
    BY DEF Advance, TodoInv
  <2>2. IsSeq(t) /\ Range(t) \subseteq Range(todo)
    BY <2>1, TailFacts
  <2> HIDE DEF t
  <2>3. 1 \in DOMAIN t
    BY <1>4, <2>1, <2>2, TailFacts
  <2>4. t[1] \in Range(t)
    BY <2>3 DEF Range
  <2>5. QED
    BY <2>1, <2>2, <2>4, TodoKnown
<1>5. x.op = "writeHostname" => hostname' = x.value
  <2>1. SUFFICES ASSUME x.op = "writeHostname" PROVE hostname' = x.value
    OBVIOUS
  <2>2. x.on = "" /\ x.value = user.hostname
    BY <2>1 DEF Known
  <2>3. CASE h.op = "truncateHostname"
    <3>1. todo' # << >> /\ todo'[1].op = "writeHostname"
      BY <2>3, AdvanceHead
    <3>2. todo'[1] = Do("writeHostname", "", user.hostname)
      BY <1>4, <3>1 DEF Known
    <3>3. x = Do("writeHostname", "", user.hostname)
      BY <2>1, <2>2 DEF Known
    <3>4. QED
      BY <1>3, <1>4, <3>1, <3>2, <3>3
  <2>4. CASE h.op = "writeHostname"
    BY <1>1, <1>2, <2>2, <2>4 DEF Known, DiskStep
  <2>5. CASE h.op \notin { "truncateHostname", "writeHostname" }
    BY <1>1, <2>1, <2>5 DEF DiskStep, Done
  <2>6. QED
    BY <2>3, <2>4, <2>5
<1>6. x.op = "sethostname" => kernel'.hostname = x.value
  BY <1>1, <1>2 DEF Known, KernelStep, Done
<1>7. x.op = "chpasswd" => password' = x.value
  BY <1>1, <1>2 DEF Known, DiskStep, Done
<1>8. x.op = "chown" => x.on \in owned'
  BY <1>1, <1>2 DEF DiskStep, Done
<1>9. x.op = "write" => files'[x.on].head = x.value
  <2>1. SUFFICES ASSUME x.op = "write" PROVE files'[x.on].head = x.value
    OBVIOUS
  <2>2. x.on \in File /\ x.value = HeadOf(x.on, user, net.config)
    BY <2>1 DEF Known
  <2>3. CASE h.op = "truncate" /\ h.on = x.on
    <3>1. todo' # << >> /\ todo'[1].op = "write" /\ todo'[1].on = x.on
      BY <2>3, AdvanceHead
    <3>2. todo'[1] = Do("write", x.on, HeadOf(x.on, user, net.config))
      BY <1>4, <3>1 DEF Known
    <3>3. x = Do("write", x.on, HeadOf(x.on, user, net.config))
      BY <2>1, <2>2 DEF Known
    <3>4. QED
      BY <1>3, <1>4, <3>1, <3>2, <3>3
  <2>4. CASE h.op = "write" /\ h.on = x.on
    BY <1>1, <1>2, <2>2, <2>4 DEF Known, FilesStep
  <2>5. CASE h.op \notin { "truncate", "write" } \/ h.on # x.on
    <3>1. files'[x.on].head = files[x.on].head
      BY <1>1, <2>2, <2>5 DEF FilesStep
    <3>2. Done(x)
      BY <2>1, <2>5
    <3>3. QED
      BY <2>1, <3>1, <3>2 DEF Done
  <2>6. QED
    BY <2>3, <2>4, <2>5
<1>10. x.op = "chmod" => files'[x.on].mode
  <2>1. x.op = "chmod" => x.on \in File
    BY DEF Known
  <2>2. QED
    BY <1>1, <2>1 DEF FilesStep, Done
<1>11. x.op = "up" => x.on \in kernel'.up
  BY <1>1 DEF KernelStep, Done
<1>12. x.op = "addr" => << x.on, x.value >> \in kernel'.addrs
  BY <1>1 DEF KernelStep, Done
<1>13. x.op = "route" => x.value \in kernel'.routes
  BY <1>1 DEF KernelStep, Done
<1>14. (x.op = "enable" /\ x.on = "qemu-ga") => x.on \in services'
  BY <1>1, <1>2 DEF DiskStep, Done, Known
<1>15. x.op # "error"
  BY <1>1 DEF Done
<1>16. QED
  BY <1>5, <1>6, <1>7, <1>8, <1>9, <1>10, <1>11, <1>12, <1>13, <1>14, <1>15 DEF Done

\* A call made is in effect, and no later call undoes it (NothingSkipped).
LEMMA AdvanceSkips ==
  ASSUME RunInv, NEW h, Advance(h)
  PROVE  NothingSkipped'
<1>1. ShapeInv /\ TodoInv /\ NothingSkipped
  BY DEF RunInv
<1>2. /\ status = "running" /\ todo # << >> /\ h = todo[1] /\ todo' = Tail(todo)
      /\ user' = user /\ net' = net
      /\ h.op \notin { "findUserData", "findNetworkConfig" }
  BY DEF Advance
<1>3. h # FindUser /\ h # FindNet
  BY <1>2, FindOps
<1>4. \A x \in Range(todo) : x = h \/ x \in Range(todo')
  BY <1>1, <1>2, TailFacts DEF TodoInv
<1>5. ASSUME NEW x \in UserSteps(user) \union NetSteps(user, net.config),
             x \in Range(todo) \/ Done(x)
      PROVE  x \in Range(todo') \/ Done(x)'
  <2>1. Known(x, user, net.config)
    BY StepKnown
  <2>2. QED
    BY <1>1, <1>4, <1>5, <2>1, AdvanceDone
<1>6. \/ FindUser \in Range(todo')
      \/ \A x \in UserSteps(user') : x \in Range(todo') \/ Done(x)'
  BY <1>1, <1>2, <1>3, <1>4, <1>5 DEF NothingSkipped
<1>7. \/ FindUser \in Range(todo') \/ FindNet \in Range(todo')
      \/ \A x \in NetSteps(user', net'.config) : x \in Range(todo') \/ Done(x)'
  BY <1>1, <1>2, <1>3, <1>4, <1>5 DEF NothingSkipped
<1>8. (FindUser)' = FindUser /\ (FindNet)' = FindNet
  BY DEF FindUser, FindNet
<1>9. QED
  BY <1>6, <1>7, <1>8 DEF NothingSkipped, FindUser, FindNet, UserSteps, NetSteps

\* A call made: the user's section is in the file, or is about to be written.
LEMMA AdvanceKept ==
  ASSUME ShapeInv, TodoInv, KeptInv, NEW h, Advance(h)
  PROVE  KeptInv'
<1>1. /\ todo # << >> /\ h = todo[1] /\ edits' = edits /\ crashes' = crashes
  BY DEF Advance
<1>2. FilesStep(h) /\ DiskStep(h)
  BY DEF Advance
<1>3. /\ h.op \in { "read", "truncate", "write" } => h.on \in File
      /\ h.op = "truncate" => todo' # << >> /\ todo'[1].op = "write" /\ todo'[1].on = h.on
      /\ todo' # << >> /\ todo'[1].op = "truncate" => h.op = "read" /\ h.on = todo'[1].on
      /\ todo' # << >> /\ todo'[1].op = "write" => h.op = "truncate" /\ h.on = todo'[1].on
  BY AdvanceHead DEF Known
<1>4. carry' = IF h.op = "read" THEN files[h.on].section ELSE carry
  BY <1>2 DEF DiskStep
<1>5. SUFFICES ASSUME crashes = 0
               PROVE  /\ \A f \in File :
                           \/ files'[f].section = edits[f]
                           \/ todo' # << >> /\ todo'[1].op = "write" /\ todo'[1].on = f
                      /\ (todo' # << >> /\ todo'[1].op \in { "truncate", "write" }) =>
                           carry' = edits[todo'[1].on]
  BY <1>1 DEF KeptInv
<1>6. /\ \A f \in File : files[f].section = edits[f] \/ (h.op = "write" /\ h.on = f)
      /\ h.op \in { "truncate", "write" } => carry = edits[h.on]
  BY <1>1, <1>5 DEF KeptInv
<1>7. ASSUME NEW f \in File
      PROVE  \/ files'[f].section = edits[f]
             \/ todo' # << >> /\ todo'[1].op = "write" /\ todo'[1].on = f
  <2>1. CASE h.op = "truncate" /\ h.on = f
    BY <1>3, <2>1
  <2>2. CASE h.op = "write" /\ h.on = f
    BY <1>2, <1>6, <2>2 DEF FilesStep
  <2>3. CASE h.op \notin { "truncate", "write" } \/ h.on # f
    BY <1>2, <1>6, <2>3 DEF FilesStep
  <2>4. QED
    BY <2>1, <2>2, <2>3
<1>8. (todo' # << >> /\ todo'[1].op \in { "truncate", "write" }) => carry' = edits[todo'[1].on]
  <2>1. CASE todo' # << >> /\ todo'[1].op = "truncate"
    BY <1>3, <1>4, <1>6, <2>1
  <2>2. CASE todo' # << >> /\ todo'[1].op = "write"
    BY <1>3, <1>4, <1>6, <2>2
  <2>3. QED
    BY <2>1, <2>2
<1>9. QED
  BY <1>7, <1>8

-----------------------------------------------------------------------------
(* The scans, and the steps of the machine *)

\* A scan finds nothing, or a device that has the file.
LEMMA FindDevice ==
  ASSUME ShapeInv, NEW name, NEW d \in Find(name)
  PROVE  /\ d \in 0 .. Len(media)
         /\ d # 0 => d \in DOMAIN media /\ media[d][name] # << >>
<1>1. Len(media) \in Nat /\ DOMAIN media = 1 .. Len(media)
  <2>1. IsSeq(media)
    BY MediaAssumption DEF ShapeInv
  <2>2. QED
    BY <2>1 DEF IsSeq
<1> DEFINE has(skip) == { e \in DOMAIN media : media[e][name] # << >> /\ e \notin skip }
           first(D)  == IF D = { } THEN 0 ELSE CHOOSE e \in D : \A c \in D : e <= c
<1>2. PICK skip : d = first(has(skip))
  BY DEF Find
<1>3. has(skip) \subseteq Nat
  BY <1>1
<1>4. has(skip) # { } => d \in has(skip)
  <2> DEFINE D == has(skip)
  <2> HIDE DEF D
  <2>1. D # { } => \E e \in D : \A c \in D : e <= c
    BY <1>3, LeastMember DEF D
  <2>2. d = IF D = { } THEN 0 ELSE CHOOSE e \in D : \A c \in D : e <= c
    BY <1>2 DEF D
  <2>3. D # { } => d \in D
    BY <2>1, <2>2
  <2>4. QED
    BY <2>3 DEF D
<1>5. has(skip) = { } => d = 0
  BY <1>2
<1>6. CASE has(skip) = { }
  BY <1>1, <1>5, <1>6
<1>7. CASE has(skip) # { }
  <2>1. d \in DOMAIN media /\ media[d][name] # << >>
    BY <1>4, <1>7
  <2>2. QED
    BY <1>1, <2>1
<1>8. QED
  BY <1>6, <1>7

\* What no scan touches.
ScanLeaves ==
  UNCHANGED << status, carry, files, hostname, password, owned, services, kernel,
               media, edits, runs, crashes >>

UserFound ==
  /\ status = "running" /\ todo # << >> /\ todo[1].op = "findUserData"
  /\ todo' = ApplyUserData(user') \o << Do("findNetworkConfig", "", "") >>
  /\ net' = net /\ from' \in (0 .. Len(media)) \X (0 .. Len(media))
  /\ ScanLeaves

NetFound ==
  /\ status = "running" /\ todo # << >> /\ todo[1].op = "findNetworkConfig"
  /\ todo' = ApplyNetworkConfig(net'.config) \o Finish(user, net'.config)
  /\ user' = user /\ NetIsSeq(net')
  /\ net' = NoNet \/ \E d \in Range(media) : net' \in Range(d.net)
  /\ from' \in (0 .. Len(media)) \X (0 .. Len(media))
  /\ ScanLeaves

\* FindUserData fails, or finds a user-data document.
LEMMA FindUserStep ==
  ASSUME ShapeInv, FindUserData
  PROVE  Fails \/ UserFound
<1>1. status = "running" /\ todo # << >> /\ Head(todo) = todo[1] /\ todo[1].op = "findUserData"
  <2>1. At("findUserData")
    BY Zenon DEF FindUserData
  <2>2. QED
    BY <2>1 DEF At
<1>2. /\ carry' = carry /\ files' = files /\ hostname' = hostname /\ password' = password
      /\ owned' = owned /\ services' = services /\ kernel' = kernel
      /\ media' = media /\ edits' = edits /\ runs' = runs /\ crashes' = crashes
  BY DEF FindUserData, diskVars, envVars
<1>3. PICK d \in Find("user") :
        \/ Fatal
        \/ /\ from' = << d, 0 >> /\ user' = media[d].user[1]
           /\ todo' = ApplyUserData(media[d].user[1]) \o << Do("findNetworkConfig", "", "") >>
           /\ status' = status /\ net' = net
  BY Zenon DEF FindUserData
<1>4. CASE Fatal
  BY <1>1, <1>2, <1>4 DEF Fatal, Fails
<1>5. CASE ~Fatal
  <2>1. d \in 0 .. Len(media) /\ 0 \in 0 .. Len(media)
    <3>1. IsSeq(media)
      BY MediaAssumption DEF ShapeInv
    <3>2. Len(media) \in Nat
      BY <3>1 DEF IsSeq
    <3>3. QED
      BY <3>2, FindDevice
  <2>2. from' \in (0 .. Len(media)) \X (0 .. Len(media))
    <3>1. from' = << d, 0 >>
      BY <1>3, <1>5
    <3>2. QED
      BY <2>1, <3>1
  <2>3. todo' = ApplyUserData(user') \o << Do("findNetworkConfig", "", "") >>
    BY <1>3, <1>5
  <2>4. QED
    BY <1>1, <1>2, <1>3, <1>5, <2>2, <2>3 DEF UserFound, ScanLeaves
<1>6. QED
  BY <1>4, <1>5

\* FindNetworkConfig fails, or finds a network-config, or none.
LEMMA FindNetStep ==
  ASSUME ShapeInv, FindNetworkConfig
  PROVE  Fails \/ NetFound
<1>1. status = "running" /\ todo # << >> /\ Head(todo) = todo[1] /\ todo[1].op = "findNetworkConfig"
  <2>1. At("findNetworkConfig")
    BY Zenon DEF FindNetworkConfig
  <2>2. QED
    BY <2>1 DEF At
<1>2. /\ carry' = carry /\ files' = files /\ hostname' = hostname /\ password' = password
      /\ owned' = owned /\ services' = services /\ kernel' = kernel
      /\ media' = media /\ edits' = edits /\ runs' = runs /\ crashes' = crashes
  BY DEF FindNetworkConfig, diskVars, envVars
<1>3. PICK d \in Find("net") :
        \/ Fatal
        \/ /\ net' = IF d = 0 THEN NoNet ELSE media[d].net[1]
           /\ from' = [from EXCEPT ![2] = d]
           /\ todo' = ApplyNetworkConfig(net'.config) \o Finish(user, net'.config)
           /\ status' = status /\ user' = user
  BY Zenon DEF FindNetworkConfig
<1>4. CASE Fatal
  BY <1>1, <1>2, <1>4 DEF Fatal, Fails
<1>5. CASE ~Fatal
  <2>1. d \in 0 .. Len(media) /\ (d # 0 => d \in DOMAIN media /\ media[d].net # << >>)
    BY FindDevice
  <2>2. from \in (0 .. Len(media)) \X (0 .. Len(media))
    BY <1>1 DEF ShapeInv
  <2>3. from' \in (0 .. Len(media)) \X (0 .. Len(media))
    BY <1>3, <1>5, <2>1, <2>2
  <2>4. NetIsSeq(net') /\ (net' = NoNet \/ \E e \in Range(media) : net' \in Range(e.net))
    <3>1. CASE d = 0
      <4>1. net'.config = << >>
        BY <1>3, <1>5, <3>1 DEF NoNet
      <4>2. Range(<< >>) = { } /\ IsSeq(<< >>)
        BY NoStep DEF Plan
      <4>3. QED
        BY <1>3, <1>5, <3>1, <4>1, <4>2 DEF NetIsSeq
    <3>2. CASE d # 0
      <4>1. media[d] \in Range(media)
        BY <2>1, <3>2 DEF Range
      <4>2. IsSeq(media[d].net) /\ \A n \in Range(media[d].net) : NetIsSeq(n)
        BY <4>1, MediaAssumption DEF ShapeInv
      <4>3. 1 \in DOMAIN media[d].net
        BY <2>1, <3>2, <4>2, TailFacts
      <4>4. net' \in Range(media[d].net)
        BY <1>3, <1>5, <3>2, <4>3 DEF Range
      <4>5. QED
        BY <4>1, <4>2, <4>4
    <3>3. QED
      BY <3>1, <3>2
  <2>5. QED
    BY <1>1, <1>2, <1>3, <1>5, <2>3, <2>4 DEF NetFound, ScanLeaves
<1>6. QED
  BY <1>4, <1>5

\* A plan that begins now.
LEMMA NewPlan ==
  ASSUME NEW s, Plan(s, Mac), s # << >>
  PROVE  IsSeq(s) /\ Bracketed(s) /\ Resolved(s, Mac) /\ s[1].op \notin { "truncate", "write" }
BY DEF Plan, Whole

\* A scan keeps the variables in their ranges.
LEMMA ScanShape ==
  ASSUME ShapeInv, status = "running", NetIsSeq(net'),
         from' \in (0 .. Len(media)) \X (0 .. Len(media)), ScanLeaves
  PROVE  ShapeInv'
<1>1. /\ status' = status /\ files' = files /\ owned' = owned /\ services' = services
      /\ kernel' = kernel /\ media' = media /\ edits' = edits /\ runs' = runs /\ crashes' = crashes
  BY DEF ScanLeaves
<1>2. (NetIsSeq(net))' /\ (IsKernel(kernel))' /\ (\A f \in File : IsFile(files[f]))'
  BY <1>1 DEF ShapeInv, NetIsSeq, IsKernel, IsFile
<1>3. QED
  BY <1>1, <1>2 DEF ShapeInv

\* A scan carries nothing.
LEMMA ScanCarry ==
  ASSUME CarryInv, ScanLeaves, todo' # << >> => todo'[1].op \notin { "truncate", "write" }
  PROVE  CarryInv'
BY DEF CarryInv, ScanLeaves

\* A scan loses no section.
LEMMA ScanKept ==
  ASSUME KeptInv, ScanLeaves, todo # << >> => todo[1].op # "write",
         todo' # << >> => todo'[1].op \notin { "truncate", "write" }
  PROVE  KeptInv'
BY DEF KeptInv, ScanLeaves

\* After the first scan, the calls for user-data are to come.
LEMMA UserFoundInv ==
  ASSUME RunInv, UserFound
  PROVE  RunInv' /\ (KeptInv => KeptInv')
<1> DEFINE s == ApplyUserData(user') \o << Do("findNetworkConfig", "", "") >>
<1>1. /\ ShapeInv /\ TodoInv /\ CarryInv
      /\ status = "running" /\ todo # << >> /\ todo[1].op = "findUserData"
      /\ todo' = s /\ net' = net /\ from' \in (0 .. Len(media)) \X (0 .. Len(media)) /\ ScanLeaves
  BY DEF RunInv, UserFound
<1>2. /\ Plan(s, Mac) /\ \A x : x \in Range(s) <=> x \in UserSteps(user')
      /\ \A k \in DOMAIN s : k = Len(s) \/ s[k] \in UserCalls(user')
  BY ScanPlan
<1> HIDE DEF s
<1>3. ShapeInv'
  <2>1. NetIsSeq(net')
    BY <1>1 DEF ShapeInv, NetIsSeq
  <2>2. QED
    BY <1>1, <2>1, ScanShape
<1>4. TodoInv'
  <2>1. Bracketed(s) /\ Resolved(s, Mac) /\ IsSeq(s)
    BY <1>2 DEF Plan
  <2>2. (Bracketed(todo) /\ Resolved(todo, Mac) /\ IsSeq(todo))'
    BY <1>1, <2>1 DEF Bracketed, BracketAt, Resolved, IsSeq
  <2>3. ASSUME NEW k \in DOMAIN s, s[k].op \in { "findUserData", "findNetworkConfig" }
        PROVE  k = Len(s)
    BY <1>2, <2>3, UserKnown
  <2>4. \A x \in Range(s) : x \in (UserSteps(user))'
    BY <1>2 DEF UserSteps, UserCalls
  <2>5. QED
    BY <1>1, <2>2, <2>3, <2>4 DEF TodoInv
<1>5. todo' # << >> => todo'[1].op \notin { "truncate", "write" }
  BY <1>1, <1>2, NewPlan
<1>6. CarryInv' /\ (KeptInv => KeptInv')
  BY <1>1, <1>5, ScanCarry, ScanKept
<1>7. NothingSkipped'
  <2>1. FindNet \in Range(s)
    BY <1>2 DEF UserSteps, FindNet
  <2>2. (FindNet \in Range(todo))' /\ (\A x \in UserSteps(user) : x \in Range(todo))'
    BY <1>1, <1>2, <2>1 DEF UserSteps, UserCalls, FindNet
  <2>3. QED
    BY <2>2 DEF NothingSkipped
<1>8. QED
  BY <1>3, <1>4, <1>6, <1>7 DEF RunInv

\* After the second scan, the calls for network-config are to come.
LEMMA NetFoundInv ==
  ASSUME RunInv, NetFound
  PROVE  RunInv' /\ (KeptInv => KeptInv')
<1> DEFINE s == ApplyNetworkConfig(net'.config) \o Finish(user, net'.config)
<1>1. /\ ShapeInv /\ TodoInv /\ CarryInv /\ NothingSkipped
      /\ status = "running" /\ todo # << >> /\ todo[1].op = "findNetworkConfig"
      /\ todo' = s /\ user' = user /\ NetIsSeq(net')
      /\ from' \in (0 .. Len(media)) \X (0 .. Len(media)) /\ ScanLeaves
  BY DEF RunInv, NetFound
<1>2. Plan(s, Mac) /\ \A x : x \in Range(s) <=> x \in NetSteps(user, net'.config)
  BY <1>1, NetPlan DEF NetIsSeq
<1> HIDE DEF s
<1>3. ShapeInv'
  BY <1>1, ScanShape
<1>4. TodoInv'
  <2>1. Bracketed(s) /\ Resolved(s, Mac) /\ IsSeq(s)
    BY <1>2 DEF Plan
  <2>2. (Bracketed(todo) /\ Resolved(todo, Mac) /\ IsSeq(todo))'
    BY <1>1, <2>1 DEF Bracketed, BracketAt, Resolved, IsSeq
  <2>3. ASSUME NEW k \in DOMAIN s, s[k].op \in { "findUserData", "findNetworkConfig" }
        PROVE  FALSE
    <3>1. s[k] \in Range(s)
      BY DEF Range
    <3>2. QED
      BY <1>2, <2>3, <3>1, NetKnown
  <2>4. \A x \in Range(s) : x \in NetSteps(user', net'.config)
    BY <1>1, <1>2
  <2>5. QED
    BY <1>1, <2>2, <2>3, <2>4 DEF TodoInv
<1>5. todo' # << >> => todo'[1].op \notin { "truncate", "write" }
  BY <1>1, <1>2, NewPlan
<1>6. CarryInv' /\ (KeptInv => KeptInv')
  BY <1>1, <1>5, ScanCarry, ScanKept
<1>7. NothingSkipped'
  <2>1. Range(todo) = { FindNet }
    <3>1. IsSeq(todo) /\ todo[1] = FindNet /\ 1 \in DOMAIN todo
      BY <1>1, HeadKnown, TodoKnown DEF TodoInv
    <3>2. 1 = Len(todo)
      BY <1>1, <3>1 DEF TodoInv
    <3>3. \A k \in DOMAIN todo : k = 1
      BY <1>1, <3>1, <3>2, TailFacts
    <3>4. QED
      BY <3>1, <3>3 DEF Range
  <2>2. FindUser \notin Range(todo)
    BY <2>1, FindOps
  <2>3. \A x \in UserSteps(user) : x = FindNet \/ Done(x)
    BY <1>1, <2>1, <2>2 DEF NothingSkipped
  <2>4. \A x \in UserSteps(user) : Done(x)
    BY <2>3, FindOps DEF Done
  <2>5. \A x : Done(x) => Done(x)'
    BY <1>1 DEF Done, ScanLeaves
  <2>6. \A x \in UserSteps(user') : Done(x)'
    BY <1>1, <2>4, <2>5
  <2>7. \A x \in NetSteps(user', net'.config) : x \in Range(todo')
    BY <1>1, <1>2
  <2>8. QED
    BY <2>6, <2>7 DEF NothingSkipped
<1>8. QED
  BY <1>3, <1>4, <1>6, <1>7 DEF RunInv

\* A run without calls left.
LEMMA EmptyTodo ==
  ASSUME todo' = << >>
  PROVE  TodoInv'
<1>1. IsSeq(<< >>) /\ Bracketed(<< >>) /\ Resolved(<< >>, Mac) /\ Range(<< >>) = { }
  BY NoStep DEF Plan
<1>2. (IsSeq(todo) /\ Bracketed(todo) /\ Resolved(todo, Mac) /\ Range(todo) = { })'
  BY <1>1 DEF IsSeq, Bracketed, BracketAt, Resolved
<1>3. \A k \in DOMAIN todo' : FALSE
  OBVIOUS
<1>4. QED
  BY <1>2, <1>3 DEF TodoInv

\* A failure keeps the invariant; it loses a section only if a file operation fails.
LEMMA FailsInv ==
  ASSUME RunInv, Fails
  PROVE  RunInv' /\ (KeptInv /\ ~MayFail => KeptInv')
<1>1. ShapeInv /\ CarryInv
  BY DEF RunInv
<1>2. /\ status = "running" /\ status' = "failed" /\ todo' = << >> /\ todo # << >>
      /\ MayFail \/ todo[1].op \notin { "read", "truncate", "write" }
      /\ net' = net /\ from' = from /\ carry' = carry /\ files' = files /\ owned' = owned
      /\ services' = services /\ kernel' = kernel
      /\ media' = media /\ edits' = edits /\ runs' = runs /\ crashes' = crashes
  BY DEF Fails
<1>3. ShapeInv'
  <2>1. (NetIsSeq(net))' /\ (IsKernel(kernel))' /\ (\A f \in File : IsFile(files[f]))'
    BY <1>1, <1>2 DEF ShapeInv, NetIsSeq, IsKernel, IsFile
  <2>2. QED
    BY <1>1, <1>2, <2>1 DEF ShapeInv
<1>4. TodoInv'
  BY <1>2, EmptyTodo
<1>5. CarryInv' /\ NothingSkipped'
  BY <1>1, <1>2 DEF CarryInv, NothingSkipped
<1>6. KeptInv /\ ~MayFail => KeptInv'
  BY <1>2 DEF KeptInv
<1>7. QED
  BY <1>3, <1>4, <1>5, <1>6 DEF RunInv

\* A run that ends with nothing left has everything in effect.
LEMMA FinishedInv ==
  ASSUME RunInv, Finished
  PROVE  RunInv' /\ (KeptInv => KeptInv')
<1>1. ShapeInv /\ TodoInv /\ CarryInv /\ NothingSkipped
  BY DEF RunInv
<1>2. /\ status = "running" /\ status' = "ok" /\ todo' = << >> /\ todo = << >>
      /\ user' = user /\ net' = net /\ from' = from /\ carry' = carry /\ files' = files
      /\ hostname' = hostname /\ password' = password /\ owned' = owned
      /\ services' = services /\ kernel' = kernel
      /\ media' = media /\ edits' = edits /\ runs' = runs /\ crashes' = crashes
  BY DEF Finished, runVars, diskVars, envVars
<1>3. ShapeInv'
  <2>1. (NetIsSeq(net))' /\ (IsKernel(kernel))' /\ (\A f \in File : IsFile(files[f]))'
    BY <1>1, <1>2 DEF ShapeInv, NetIsSeq, IsKernel, IsFile
  <2>2. QED
    BY <1>1, <1>2, <2>1 DEF ShapeInv
<1>4. TodoInv'
  BY <1>2, EmptyTodo
<1>5. CarryInv'
  BY <1>1, <1>2 DEF CarryInv
<1>6. NothingSkipped'
  <2>1. \A x : Done(x) => Done(x)'
    BY <1>2 DEF Done
  <2>2. Range(todo') = Range(todo)
    BY <1>2
  <2>3. \/ FindUser \in Range(todo) \/ \A x \in UserSteps(user) : x \in Range(todo) \/ Done(x)
    BY <1>1, <1>2 DEF NothingSkipped
  <2>4. \/ FindUser \in Range(todo) \/ FindNet \in Range(todo)
        \/ \A x \in NetSteps(user, net.config) : x \in Range(todo) \/ Done(x)
    BY <1>1, <1>2 DEF NothingSkipped
  <2>5. /\ FindUser \in Range(todo') \/ \A x \in UserSteps(user') : x \in Range(todo') \/ Done(x)'
        /\ \/ FindUser \in Range(todo') \/ FindNet \in Range(todo')
           \/ \A x \in NetSteps(user', net'.config) : x \in Range(todo') \/ Done(x)'
    BY <1>2, <2>1, <2>2, <2>3, <2>4
  <2>6. QED
    BY <2>5 DEF NothingSkipped, FindUser, FindNet, UserSteps, NetSteps
<1>7. KeptInv => KeptInv'
  BY <1>2 DEF KeptInv
<1>8. QED
  BY <1>3, <1>4, <1>5, <1>6, <1>7 DEF RunInv

\* A run begins with both scans to come.
LEMMA MainInv ==
  ASSUME RunInv, status # "running", main
  PROVE  RunInv' /\ (KeptInv => KeptInv')
<1>1. ShapeInv /\ CarryInv
  BY DEF RunInv
<1>2. /\ status' = "running" /\ todo' = << FindUser >> /\ todo = << >>
      /\ net' = NoNet /\ from' = << 0, 0 >> /\ carry' = "" /\ files' = files
      /\ owned' = owned /\ services' = services /\ kernel' = kernel
      /\ media' = media /\ edits' = edits /\ crashes' = crashes
      /\ runs < MaxRuns /\ runs' = runs + 1
  BY <1>1 DEF main, diskVars, FindUser, ShapeInv
<1>3. ShapeInv'
  <2>1. (NetIsSeq(net))'
    <3>1. net'.config = << >>
      BY <1>2 DEF NoNet
    <3>2. Range(<< >>) = { } /\ IsSeq(<< >>)
      BY NoStep DEF Plan
    <3>3. QED
      BY <3>1, <3>2 DEF NetIsSeq, IsSeq
  <2>2. (IsKernel(kernel))' /\ (\A f \in File : IsFile(files[f]))'
    BY <1>1, <1>2 DEF ShapeInv, IsKernel, IsFile
  <2>3. from' \in (0 .. Len(media)) \X (0 .. Len(media))
    <3>1. IsSeq(media)
      BY <1>1, MediaAssumption DEF ShapeInv
    <3>2. 0 \in 0 .. Len(media)
      BY <3>1 DEF IsSeq
    <3>3. QED
      BY <1>2, <3>2
  <2>4. runs' \in 0 .. MaxRuns
    <3>1. runs \in 0 .. MaxRuns /\ runs < MaxRuns /\ runs' = runs + 1
      BY <1>1, <1>2 DEF ShapeInv
    <3>2. MaxRuns \in Nat
      BY BoundsAssumption
    <3>3. QED
      BY <3>1, <3>2
  <2>5. QED
    BY <1>1, <1>2, <2>1, <2>2, <2>3, <2>4 DEF ShapeInv
<1> DEFINE s == << FindUser >>
<1>4. s[1] = FindUser /\ (\A k \in DOMAIN s : k = 1) /\ Range(s) = { FindUser } /\ IsSeq(s) /\ Len(s) = 1
  BY Singleton
<1>5. Plan(s, Mac) /\ s # << >>
  <2>1. FindUser.op \notin { "truncate", "write", "truncateHostname", "up" }
    BY FindOps
  <2>2. Plan(s, Mac)
    BY <2>1, OneStep
  <2>3. QED
    BY <2>2
<1> HIDE DEF s
<1>6. todo' = s
  BY <1>2 DEF s
<1>7. TodoInv'
  <2>1. Bracketed(s) /\ Resolved(s, Mac) /\ IsSeq(s)
    BY <1>5 DEF Plan
  <2>2. (Bracketed(todo) /\ Resolved(todo, Mac) /\ IsSeq(todo))'
    BY <1>6, <2>1 DEF Bracketed, BracketAt, Resolved, IsSeq
  <2>3. \A k \in DOMAIN s : k = Len(s)
    BY <1>4, Zenon
  <2>4. \A x \in Range(s) : x \in { FindUser }
    BY <1>4
  <2>5. QED
    BY <1>6, <2>2, <2>3, <2>4 DEF TodoInv, FindUser
<1>8. CarryInv' /\ (KeptInv => KeptInv')
  <2>1. todo' # << >> => todo'[1].op \notin { "truncate", "write" }
    BY <1>5, <1>6, NewPlan
  <2>2. QED
    BY <1>1, <1>2, <2>1 DEF CarryInv, KeptInv
<1>9. NothingSkipped'
  <2>1. FindUser \in Range(todo')
    BY <1>4, <1>6
  <2>2. QED
    BY <2>1 DEF NothingSkipped, FindUser
<1>10. QED
  BY <1>3, <1>7, <1>8, <1>9 DEF RunInv

\* A machine that is switched off keeps its disk.
LEMMA OffInv ==
  ASSUME RunInv, Off, media' \in Media, edits' = edits, runs' = runs,
         crashes' \in 0 .. MaxCrashes
  PROVE  RunInv'
<1>1. ShapeInv /\ CarryInv
  BY DEF RunInv
<1>2. /\ status' = "off" /\ kernel' = NoKernel /\ todo' = << >>
      /\ net' = net /\ carry' = carry /\ files' = files /\ owned' = owned /\ services' = services
  BY DEF Off, diskVars
<1>3. ShapeInv'
  <2>1. (NetIsSeq(net))' /\ (\A f \in File : IsFile(files[f]))'
    BY <1>1, <1>2 DEF ShapeInv, NetIsSeq, IsFile
  <2>2. (IsKernel(kernel))' /\ kernel'.up = { }
    BY <1>2 DEF IsKernel, NoKernel
  <2>3. QED
    BY <1>1, <1>2, <2>1, <2>2 DEF ShapeInv
<1>4. TodoInv'
  BY <1>2, EmptyTodo
<1>5. CarryInv' /\ NothingSkipped'
  BY <1>1, <1>2 DEF CarryInv, NothingSkipped
<1>6. QED
  BY <1>3, <1>4, <1>5 DEF RunInv

\* An edit by the user changes a section only.
LEMMA EditInv ==
  ASSUME RunInv, NEW f \in File, Edit(f)
  PROVE  RunInv' /\ (KeptInv => KeptInv')
<1>1. ShapeInv /\ TodoInv /\ CarryInv /\ NothingSkipped
  BY DEF RunInv
<1>2. /\ status = "ok" /\ status' = status /\ todo' = todo /\ todo = << >>
      /\ user' = user /\ net' = net /\ from' = from /\ carry' = carry
      /\ hostname' = hostname /\ password' = password /\ owned' = owned
      /\ services' = services /\ kernel' = kernel
      /\ media' = media /\ runs' = runs /\ crashes' = crashes
      /\ edits' = [edits EXCEPT ![f] = "edit"] /\ files' = [files EXCEPT ![f].section = "edit"]
  BY <1>1 DEF Edit, runVars, ShapeInv
<1>3. files = [g \in File |-> files[g]] /\ IsFile(files[f])
  BY <1>1 DEF ShapeInv
<1>4. /\ files' = [g \in File |-> files'[g]]
      /\ \A g \in File : g # f => files'[g] = files[g]
      /\ files'[f] = [there |-> files[f].there, head |-> files[f].head, section |-> "edit",
                      mode |-> files[f].mode]
  BY <1>2, <1>3 DEF IsFile
<1>5. IsFile(files'[f]) /\ files'[f].section = "edit" /\ files'[f].head = files[f].head
      /\ files'[f].mode = files[f].mode
  BY <1>3, <1>4 DEF IsFile
<1>6. /\ edits' \in [File -> { "", "edit" }] /\ edits'[f] = "edit"
      /\ \A g \in File : g # f => edits'[g] = edits[g]
  BY <1>1, <1>2 DEF ShapeInv
<1>7. ShapeInv'
  <2>1. (NetIsSeq(net))' /\ (IsKernel(kernel))'
    BY <1>1, <1>2 DEF ShapeInv, NetIsSeq, IsKernel
  <2>2. \A g \in File : IsFile(files'[g])
    BY <1>1, <1>4, <1>5 DEF ShapeInv
  <2>3. (\A g \in File : IsFile(files[g]))'
    BY <2>2 DEF IsFile
  <2>4. QED
    BY <1>1, <1>2, <1>4, <1>6, <2>1, <2>3 DEF ShapeInv
<1>8. TodoInv'
  BY <1>2, EmptyTodo
<1>9. CarryInv'
  <2>1. \A g \in File : files'[g].section \in { "", edits'[g] }
    BY <1>1, <1>4, <1>5, <1>6 DEF CarryInv
  <2>2. QED
    BY <1>1, <1>2, <2>1 DEF CarryInv
<1>10. NothingSkipped'
  <2>1. ASSUME NEW x \in UserSteps(user) \union NetSteps(user, net.config), Done(x)
        PROVE  Done(x)'
    <3>1. x.op \in { "write", "chmod" } => x.on \in File
      BY StepKnown DEF Known
    <3>2. x.op = "write" => files'[x.on].head = x.value
      BY <1>4, <1>5, <2>1, <3>1 DEF Done
    <3>3. x.op = "chmod" => files'[x.on].mode
      BY <1>4, <1>5, <2>1, <3>1 DEF Done
    <3>4. QED
      BY <1>2, <2>1, <3>2, <3>3 DEF Done
  <2>2. Range(todo') = Range(todo)
    BY <1>2
  <2>3. /\ FindUser \in Range(todo') \/ \A x \in UserSteps(user') : x \in Range(todo') \/ Done(x)'
        /\ \/ FindUser \in Range(todo') \/ FindNet \in Range(todo')
           \/ \A x \in NetSteps(user', net'.config) : x \in Range(todo') \/ Done(x)'
    BY <1>1, <1>2, <2>1, <2>2 DEF NothingSkipped
  <2>4. QED
    BY <2>3 DEF NothingSkipped, FindUser, FindNet, UserSteps, NetSteps
<1>11. KeptInv => KeptInv'
  BY <1>2, <1>4, <1>5, <1>6 DEF KeptInv
<1>12. QED
  BY <1>7, <1>8, <1>9, <1>10, <1>11 DEF RunInv

\* A stuttering step.
LEMMA StutterInv ==
  ASSUME RunInv, UNCHANGED vars
  PROVE  RunInv' /\ (KeptInv => KeptInv')
<1>1. ShapeInv /\ TodoInv /\ CarryInv /\ NothingSkipped
  BY DEF RunInv
<1>2. /\ status' = status /\ todo' = todo /\ user' = user /\ net' = net /\ from' = from
      /\ carry' = carry /\ files' = files
      /\ hostname' = hostname /\ password' = password /\ owned' = owned
      /\ services' = services /\ kernel' = kernel
      /\ media' = media /\ edits' = edits /\ runs' = runs /\ crashes' = crashes
  BY DEF vars, runVars, diskVars, envVars
<1>3. ShapeInv'
  <2>1. (NetIsSeq(net))' /\ (IsKernel(kernel))' /\ (\A f \in File : IsFile(files[f]))'
    BY <1>1, <1>2 DEF ShapeInv, NetIsSeq, IsKernel, IsFile
  <2>2. QED
    BY <1>1, <1>2, <2>1 DEF ShapeInv
<1>4. TodoInv'
  <2>1. \A x \in Range(todo) :
          x \in { FindUser } \union UserSteps(user') \union NetSteps(user', net'.config)
    BY <1>1, <1>2 DEF TodoInv
  <2>2. (\A x \in Range(todo) :
           x \in { FindUser } \union UserSteps(user) \union NetSteps(user, net.config))'
    BY <1>2, <2>1 DEF FindUser, UserSteps, NetSteps
  <2>3. (IsSeq(todo) /\ Bracketed(todo) /\ Resolved(todo, Mac))'
    BY <1>1, <1>2 DEF TodoInv, IsSeq, Bracketed, BracketAt, Resolved
  <2>4. (\A k \in DOMAIN todo :
           todo[k].op \in { "findUserData", "findNetworkConfig" } => k = Len(todo))'
    BY <1>1, <1>2 DEF TodoInv
  <2>5. QED
    BY <2>2, <2>3, <2>4 DEF TodoInv
<1>5. CarryInv'
  BY <1>1, <1>2 DEF CarryInv
<1>6. NothingSkipped'
  <2>1. \A x : Done(x) => Done(x)'
    BY <1>2 DEF Done
  <2>2. /\ status' \in { "running", "ok" } =>
             FindUser \in Range(todo') \/ \A x \in UserSteps(user') : x \in Range(todo') \/ Done(x)'
        /\ status' \in { "running", "ok" } =>
             \/ FindUser \in Range(todo') \/ FindNet \in Range(todo')
             \/ \A x \in NetSteps(user', net'.config) : x \in Range(todo') \/ Done(x)'
    BY <1>1, <1>2, <2>1 DEF NothingSkipped
  <2>3. QED
    BY <2>2 DEF NothingSkipped, FindUser, FindNet, UserSteps, NetSteps
<1>7. KeptInv => KeptInv'
  BY <1>2 DEF KeptInv
<1>8. QED
  BY <1>3, <1>4, <1>5, <1>6, <1>7 DEF RunInv

\* A machine that has not run void-init yet.
LEMMA InitInv ==
  ASSUME Init
  PROVE  RunInv /\ KeptInv
<1>1. PICK there \in BOOLEAN : files = [f \in File |-> [NoFile EXCEPT !.there = there]]
  BY DEF Init
<1>2. \A f \in File : files[f] = [there |-> there, head |-> << >>, section |-> "", mode |-> FALSE]
  BY <1>1 DEF NoFile
<1>3. files = [f \in File |-> files[f]] /\ \A f \in File : IsFile(files[f]) /\ files[f].section = ""
  BY <1>1, <1>2 DEF IsFile
<1>4. edits \in [File -> { "", "edit" }] /\ \A f \in File : edits[f] = ""
  BY DEF Init
<1>5. NetIsSeq(net)
  <2>1. net.config = << >>
    BY DEF Init, NoNet
  <2>2. Range(<< >>) = { } /\ IsSeq(<< >>)
    BY NoStep DEF Plan
  <2>3. QED
    BY <2>1, <2>2 DEF NetIsSeq
<1>6. IsKernel(kernel) /\ kernel.up = { }
  BY DEF Init, NoKernel, IsKernel
<1>7. 0 \in 0 .. MaxRuns /\ 0 \in 0 .. MaxCrashes
  BY BoundsAssumption
<1>8. ShapeInv
  BY <1>3, <1>4, <1>5, <1>6, <1>7 DEF ShapeInv, Init
<1>9. TodoInv
  <2>1. todo = << >>
    BY DEF Init
  <2>2. IsSeq(<< >>) /\ Bracketed(<< >>) /\ Resolved(<< >>, Mac) /\ Range(<< >>) = { }
    BY NoStep DEF Plan
  <2>3. QED
    BY <2>1, <2>2 DEF TodoInv
<1>10. CarryInv /\ NothingSkipped /\ KeptInv
  BY <1>3, <1>4 DEF Init, CarryInv, NothingSkipped, KeptInv
<1>11. QED
  BY <1>8, <1>9, <1>10 DEF RunInv

\* Every step: of a run, of the machine, of the user.
LEMMA NextInv ==
  ASSUME RunInv, [Next]_vars
  PROVE  RunInv' /\ (KeptInv /\ ~MayFail => KeptInv')
<1>1. ShapeInv /\ TodoInv /\ CarryInv
  BY DEF RunInv
<1>2. CASE Run
  <2>1. CASE FindUserData
    BY <1>1, <2>1, FindUserStep, UserFoundInv, FailsInv
  <2>2. CASE FindNetworkConfig
    BY <1>1, <2>2, FindNetStep, NetFoundInv, FailsInv
  <2>3. CASE Finished
    BY <2>3, FinishedInv
  <2>4. CASE Fails
    BY <2>4, FailsInv
  <2>5. ASSUME NEW h, Advance(h) PROVE RunInv' /\ (KeptInv => KeptInv')
    BY <1>1, <2>5, AdvanceShape, AdvanceTodo, AdvanceCarry, AdvanceSkips, AdvanceKept DEF RunInv
  <2>6. QED
    BY <1>1, <1>2, <2>1, <2>2, <2>3, <2>4, <2>5, RunSteps
<1>3. CASE Boot \/ RunAgain
  BY <1>3, MainInv DEF Boot, RunAgain
<1>4. CASE Shutdown
  <2>1. /\ Off /\ media' \in Media /\ edits' = edits /\ runs' = runs /\ crashes' = crashes
        /\ status # "running" /\ todo = << >> /\ todo' = << >> /\ files' = files
        /\ crashes \in 0 .. MaxCrashes
    BY <1>1, <1>4 DEF Shutdown, Off, diskVars, ShapeInv
  <2>2. RunInv'
    BY <2>1, OffInv
  <2>3. KeptInv => KeptInv'
    BY <2>1 DEF KeptInv
  <2>4. QED
    BY <2>2, <2>3
<1>5. CASE Crash
  <2>1. /\ Off /\ media' = media /\ media \in Media /\ edits' = edits /\ runs' = runs
        /\ crashes' = crashes + 1 /\ crashes < MaxCrashes /\ crashes \in 0 .. MaxCrashes
    BY <1>1, <1>5 DEF Crash, ShapeInv
  <2>2. crashes' \in 0 .. MaxCrashes /\ crashes' # 0
    BY <2>1, BoundsAssumption
  <2>3. RunInv'
    BY <2>1, <2>2, OffInv
  <2>4. KeptInv'
    BY <2>2 DEF KeptInv
  <2>5. QED
    BY <2>3, <2>4
<1>6. ASSUME NEW f \in File, Edit(f) PROVE RunInv' /\ (KeptInv => KeptInv')
  BY <1>6, EditInv
<1>7. CASE UNCHANGED vars
  BY <1>7, StutterInv
<1>8. QED
  BY <1>2, <1>3, <1>4, <1>5, <1>6, <1>7 DEF Next, Terminated

\* The inductive invariant: in every state of any number of runs, what is left to
\* do is the end of the plan main.go follows, and what the plan has behind it is
\* in effect.
THEOREM RunInvariant == Spec => []RunInv
<1>1. Init => RunInv
  BY InitInv
<1>2. RunInv /\ [Next]_vars => RunInv'
  BY NextInv
<1>3. QED
  BY <1>1, <1>2, PTL DEF Spec

-----------------------------------------------------------------------------
(* The properties *)

\* TypeOK, for main.go: among others, only interfaces that the machine has are
\* touched (network.go:107), and a file's section is what the user wrote there or
\* nothing.
THEOREM TypeCorrect == Spec => []TypeOK
<1>1. RunInv => TypeOK
  <2>1. ASSUME RunInv PROVE TypeOK
    <3>1. ShapeInv /\ CarryInv
      BY <2>1 DEF RunInv
    <3>2. \A f \in File : files[f].section \in { "", edits[f] } /\ files[f].mode \in BOOLEAN
      BY <3>1 DEF ShapeInv, CarryInv, IsFile
    <3>3. QED
      BY <3>1, <3>2 DEF ShapeInv, CarryInv, TypeOK
  <2>2. QED
    BY <2>1
<1>2. QED
  BY <1>1, RunInvariant, PTL

\* After a run that ended well every call that it needed is in effect.
LEMMA AllDone ==
  ASSUME RunInv, status = "ok"
  PROVE  /\ \A x \in UserSteps(user) \union NetSteps(user, net.config) : Done(x)
         /\ Do("error", "", "") \notin NetSteps(user, net.config)
<1>1. todo = << >>
  BY DEF RunInv, ShapeInv
<1>2. Range(todo) = { }
  BY <1>1, NoStep
<1>3. \A x \in UserSteps(user) \union NetSteps(user, net.config) : Done(x)
  BY <1>2 DEF RunInv, NothingSkipped
<1>4. Do("error", "", "").op = "error"
  BY DEF Do
<1>5. QED
  BY <1>3, <1>4 DEF Done

\* A file of which all the calls are in effect holds what it should.
LEMMA FileHolds ==
  ASSUME NEW f \in File, NEW head, \A x \in FileSteps(f, head) : Done(x)
  PROVE  Holds(f, head)
<1> DEFINE a == Do("write", f, head)
           b == Do("chmod", f, "")
<1>1. a \in FileSteps(f, head) /\ b \in FileSteps(f, head)
  BY DEF FileSteps
<1>2. a.op = "write" /\ a.on = f /\ a.value = head /\ b.op = "chmod" /\ b.on = f
  BY DEF Do
<1> HIDE DEF a, b
<1>3. Done(a) /\ Done(b)
  BY <1>1
<1>4. files[f].head = head /\ files[f].mode
  BY <1>2, <1>3 DEF Done
<1>5. QED
  BY <1>4 DEF Holds

\* UserDataInEffect: whatever earlier boots left behind, a run that ends well has
\* put into effect all that its user-data asks for (main.go).
LEMMA UserDone ==
  ASSUME RunInv
  PROVE  UserDataInEffect
<1>1. SUFFICES ASSUME status = "ok"
      PROVE  /\ user.hostname # "" =>
                  hostname = user.hostname /\ kernel.hostname = user.hostname
             /\ (user.name # "" /\ user.password # "") => password = user.password
             /\ (user.name # "" /\ user.keys # "") =>
                  /\ Holds("authorized_keys", << user.keys >>)
                  /\ { ".ssh", "authorized_keys" } \subseteq owned
             /\ "qemu-ga" \in services
  BY DEF UserDataInEffect
<1>2. \A x \in UserSteps(user) \union NetSteps(user, net.config) : Done(x)
  BY <1>1, AllDone
<1>3. ASSUME user.hostname # "" PROVE hostname = user.hostname /\ kernel.hostname = user.hostname
  <2> DEFINE a == Do("writeHostname", "", user.hostname)
             b == Do("sethostname", "", user.hostname)
  <2>1. a \in UserSteps(user) /\ b \in UserSteps(user)
    BY <1>3 DEF UserSteps, UserCalls, HostnameSteps
  <2>2. a.op = "writeHostname" /\ a.value = user.hostname
        /\ b.op = "sethostname" /\ b.value = user.hostname
    BY DEF Do
  <2> HIDE DEF a, b
  <2>3. Done(a) /\ Done(b)
    BY <1>2, <2>1
  <2>4. QED
    BY <2>2, <2>3 DEF Done
<1>4. ASSUME user.name # "", user.password # "" PROVE password = user.password
  <2> DEFINE a == Do("chpasswd", "", user.password)
  <2>1. a \in UserSteps(user)
    BY <1>4 DEF UserSteps, UserCalls
  <2>2. a.op = "chpasswd" /\ a.value = user.password
    BY DEF Do
  <2> HIDE DEF a
  <2>3. QED
    BY <1>2, <2>1, <2>2 DEF Done
<1>5. ASSUME user.name # "", user.keys # ""
      PROVE  /\ Holds("authorized_keys", << user.keys >>)
             /\ ".ssh" \in owned /\ "authorized_keys" \in owned
  <2> DEFINE a == Do("chown", ".ssh", "")
             b == Do("chown", "authorized_keys", "")
  <2>1. a \in UserSteps(user) /\ b \in UserSteps(user)
        /\ FileSteps("authorized_keys", << user.keys >>) \subseteq UserSteps(user)
    BY <1>5 DEF UserSteps, UserCalls
  <2>2. a.op = "chown" /\ a.on = ".ssh" /\ b.op = "chown" /\ b.on = "authorized_keys"
    BY DEF Do
  <2> HIDE DEF a, b
  <2>3. Done(a) /\ Done(b)
    BY <1>2, <2>1
  <2>4. ".ssh" \in owned /\ "authorized_keys" \in owned
    BY <2>2, <2>3 DEF Done
  <2>5. "authorized_keys" \in File
    BY DEF File
  <2>6. Holds("authorized_keys", << user.keys >>)
    BY <1>2, <2>1, <2>5, FileHolds
  <2>7. QED
    BY <2>4, <2>6
<1>6. "qemu-ga" \in services
  <2> DEFINE a == Do("enable", "qemu-ga", "")
  <2>1. a \in NetSteps(user, net.config)
    BY DEF NetSteps
  <2>2. a.op = "enable" /\ a.on = "qemu-ga"
    BY DEF Do
  <2> HIDE DEF a
  <2>3. QED
    BY <1>2, <2>1, <2>2 DEF Done
<1>7. QED
  BY <1>3, <1>4, <1>5, <1>6

\* UserDataInEffect: when main returns without an error, everything in user-data
\* is in effect, whatever earlier runs, reboots and crashes left (main.go:56-65,
\* apply.go).
THEOREM UserDataTakesEffect == Spec => []UserDataInEffect
BY RunInvariant, UserDone, PTL

\* The calls for a subnet of an interface.
LEMMA SubnetCalls ==
  ASSUME NEW n, NEW u, NEW d \in Range(n), d.type = "physical", NEW s \in Range(d.subnets)
  PROVE  SubnetSteps(d.mac, s) \subseteq NetSteps(u, n)
<1>1. SubnetSteps(d.mac, s) \subseteq DeviceSteps(d)
  BY DEF DeviceSteps
<1>2. QED
  BY <1>1 DEF NetSteps

\* A static subnet of an interface is in effect.
LEMMA StaticDone ==
  ASSUME RunInv, status = "ok",
         NEW d \in Range(net.config), d.type = "physical",
         NEW s \in Range(d.subnets), s.type = "static"
  PROVE  /\ d.mac \in kernel.up /\ << d.mac, s.address >> \in kernel.addrs
         /\ s.gateway # << >> => s.gateway \in kernel.routes
<1>1. /\ \A x \in NetSteps(user, net.config) : Done(x)
      /\ Do("error", "", "") \notin NetSteps(user, net.config)
  BY AllDone
<1>2. SubnetSteps(d.mac, s) \subseteq NetSteps(user, net.config)
  BY SubnetCalls
<1>3. s.prefix
  <2>1. ~s.prefix => Do("error", "", "") \in SubnetSteps(d.mac, s)
    BY DEF SubnetSteps
  <2>2. QED
    BY <1>1, <1>2, <2>1
<1> DEFINE a == Do("up", d.mac, "")
           b == Do("addr", d.mac, s.address)
           c == Do("route", "", s.gateway)
<1>4. /\ a \in SubnetSteps(d.mac, s) /\ b \in SubnetSteps(d.mac, s)
      /\ s.gateway # << >> => c \in SubnetSteps(d.mac, s)
  BY <1>3 DEF SubnetSteps
<1>5. a.op = "up" /\ a.on = d.mac /\ b.op = "addr" /\ b.on = d.mac /\ b.value = s.address
      /\ c.op = "route" /\ c.value = s.gateway
  BY DEF Do
<1> HIDE DEF a, b, c
<1>6. Done(a) /\ Done(b) /\ (s.gateway # << >> => Done(c))
  BY <1>1, <1>2, <1>4
<1>7. QED
  BY <1>5, <1>6 DEF Done

\* StaticNetworkInEffect: and all of the static part of its network-config; a
\* dynamic interface is up, and dhcpcd.conf is there for it (network.go).
LEMMA NetDone ==
  ASSUME RunInv
  PROVE  StaticNetworkInEffect
<1>1. SUFFICES ASSUME status = "ok"
      PROVE  /\ \A ms \in Subnets("static") :
                  /\ ms[1] \in kernel.up /\ << ms[1], ms[2].address >> \in kernel.addrs
                  /\ ms[2].gateway # << >> => ms[2].gateway \in kernel.routes
             /\ \A ms \in Subnets("dynamic") :
                  ms[1] \in kernel.up /\ Holds("dhcpcd.conf", << "template" >>)
             /\ nameservers(net.config) # {} => Holds("resolv.conf", << nameservers(net.config) >>)
  BY DEF StaticNetworkInEffect
<1>2. \A x \in NetSteps(user, net.config) : Done(x)
  BY <1>1, AllDone
<1>3. ASSUME NEW ms \in Subnets("static")
      PROVE  /\ ms[1] \in kernel.up /\ << ms[1], ms[2].address >> \in kernel.addrs
             /\ ms[2].gateway # << >> => ms[2].gateway \in kernel.routes
  <2>0. PICK d \in Range(net.config) : \E s \in Range(d.subnets) :
          d.type = "physical" /\ s.type = "static" /\ ms = << d.mac, s >>
    BY DEF Subnets
  <2>1. PICK s \in Range(d.subnets) :
          d.type = "physical" /\ s.type = "static" /\ ms = << d.mac, s >>
    BY <2>0
  <2>2. QED
    BY <1>1, <2>1, StaticDone
<1>4. ASSUME NEW ms \in Subnets("dynamic")
      PROVE  ms[1] \in kernel.up /\ Holds("dhcpcd.conf", << "template" >>)
  <2>0. PICK d \in Range(net.config) : \E s \in Range(d.subnets) :
          d.type = "physical" /\ s.type = "dynamic" /\ ms = << d.mac, s >>
    BY DEF Subnets
  <2>1. PICK s \in Range(d.subnets) :
          d.type = "physical" /\ s.type = "dynamic" /\ ms = << d.mac, s >>
    BY <2>0
  <2>2. SubnetSteps(d.mac, s) \subseteq NetSteps(user, net.config)
    BY <2>1, SubnetCalls
  <2> DEFINE a == Do("up", d.mac, "")
  <2>3. /\ a \in SubnetSteps(d.mac, s)
        /\ FileSteps("dhcpcd.conf", << "template" >>) \subseteq SubnetSteps(d.mac, s)
    BY <2>1 DEF SubnetSteps
  <2>4. a.op = "up" /\ a.on = d.mac
    BY DEF Do
  <2> HIDE DEF a
  <2>5. d.mac \in kernel.up
    BY <1>2, <2>2, <2>3, <2>4 DEF Done
  <2>6. "dhcpcd.conf" \in File
    BY DEF File
  <2>7. Holds("dhcpcd.conf", << "template" >>)
    BY <1>2, <2>2, <2>3, <2>6, FileHolds
  <2>8. QED
    BY <2>1, <2>5, <2>7
<1>5. ASSUME nameservers(net.config) # {}
      PROVE  Holds("resolv.conf", << nameservers(net.config) >>)
  <2>1. FileSteps("resolv.conf", << nameservers(net.config) >>) \subseteq NetSteps(user, net.config)
    BY <1>5 DEF NetSteps, ResolvSteps
  <2>2. "resolv.conf" \in File
    BY DEF File
  <2>3. QED
    BY <1>2, <2>1, <2>2, FileHolds
<1>6. QED
  BY <1>3, <1>4, <1>5

\* StaticNetworkInEffect: then every static address, route and name server of
\* network-config is in effect too, and every dynamic interface is up with
\* dhcpcd.conf in place (network.go:65-110).
THEOREM StaticNetworkTakesEffect == Spec => []StaticNetworkInEffect
BY RunInvariant, NetDone, PTL

\* Entries other than interfaces carry no subnets (network.go:28-30): staticAddress
\* in hosts.go looks at the subnets of every entry.
PhysicalOnly(n) ==
  \A d \in Range(n.config) : d.type # "physical" => Range(d.subnets) = { }

\* The scans read such network-configs only.
LEMMA PhysicalStays ==
  ASSUME RunInv, [Next]_vars, PhysicalOnly(net),
         \A m \in Media : \A d \in Range(m) : \A n \in Range(d.net) : PhysicalOnly(n)
  PROVE  PhysicalOnly(net)'
<1>1. ShapeInv /\ TodoInv
  BY DEF RunInv
<1>2. PhysicalOnly(NoNet)
  <2>1. NoNet.config = << >> /\ Range(<< >>) = { }
    BY NoStep DEF NoNet
  <2>2. QED
    BY <2>1 DEF PhysicalOnly
<1>3. PhysicalOnly(net')
  <2>1. CASE net' = net \/ net' = NoNet
    BY <1>2, <2>1
  <2>2. CASE NetFound
    BY <1>1, <1>2, <2>2 DEF NetFound, ShapeInv
  <2>3. CASE Run
    <3>1. FindUserData => net' = net
      BY <1>1, FindUserStep DEF UserFound, Fails
    <3>2. FindNetworkConfig => net' = net \/ NetFound
      BY <1>1, FindNetStep DEF Fails
    <3>3. Finished \/ Fails \/ (\E h : Advance(h)) => net' = net
      BY DEF Finished, Fails, Advance, runVars
    <3>4. QED
      BY <1>1, <2>1, <2>2, <2>3, <3>1, <3>2, <3>3, RunSteps
  <2>4. CASE Boot \/ RunAgain \/ Shutdown \/ Crash \/ (\E f \in File : Edit(f)) \/ Terminated
             \/ UNCHANGED vars
    <3>1. net' = net \/ net' = NoNet
      BY <2>4 DEF Boot, RunAgain, main, Shutdown, Crash, Off, Edit, Terminated, vars, runVars
    <3>2. QED
      BY <2>1, <3>1
  <2>5. QED
    BY <2>3, <2>4 DEF Next
<1>4. QED
  BY <1>3 DEF PhysicalOnly

\* HostsAddressIsAssigned: the address that /etc/hosts gives the hostname is one
\* that the machine has (hosts.go:24-26).
LEMMA HostsDone ==
  ASSUME RunInv, PhysicalOnly(net)
  PROVE  HostsAddressIsAssigned
<1>1. SUFFICES ASSUME status = "ok", user.manage, user.hostname # ""
      PROVE  \/ /\ Subnets("static") = {}
                /\ Holds("hosts", << LoopbackAlias, user.hostname >>)
             \/ \E a \in kernel.addrs : Holds("hosts", << a[2], user.hostname >>)
  BY DEF HostsAddressIsAssigned
<1>2. \A x \in NetSteps(user, net.config) : Done(x)
  BY <1>1, AllDone
<1>3. Holds("hosts", << staticAddress(net.config), user.hostname >>)
  <2>1. FileSteps("hosts", << staticAddress(net.config), user.hostname >>)
          \subseteq NetSteps(user, net.config)
    BY <1>1 DEF NetSteps, HostsSteps
  <2>2. "hosts" \in File
    BY DEF File
  <2>3. QED
    BY <1>2, <2>1, <2>2, FileHolds
<1>4. NetIsSeq(net)
  BY DEF RunInv, ShapeInv
<1>5. CASE /\ staticAddress(net.config) = LoopbackAlias
           /\ \A d \in Range(net.config) : \A s \in Range(d.subnets) : s.type # "static"
  <2>1. Subnets("static") = {}
    BY <1>5 DEF Subnets
  <2>2. QED
    BY <1>3, <1>5, <2>1
<1>6. ASSUME NEW d \in Range(net.config), NEW s \in Range(d.subnets),
             s.type = "static", staticAddress(net.config) = s.address
      PROVE  \E a \in kernel.addrs : Holds("hosts", << a[2], user.hostname >>)
  <2>1. d.type = "physical"
    BY <1>6 DEF PhysicalOnly
  <2>2. << d.mac, s.address >> \in kernel.addrs
    BY <1>1, <1>6, <2>1, StaticDone
  <2>3. << d.mac, s.address >>[2] = staticAddress(net.config)
    BY <1>6
  <2> DEFINE a == << d.mac, s.address >>
  <2>4. a \in kernel.addrs /\ a[2] = staticAddress(net.config)
    BY <2>2, <2>3
  <2> HIDE DEF a
  <2>5. QED
    BY <1>3, <2>4
<1>7. QED
  BY <1>4, <1>5, <1>6, StaticAddress DEF NetIsSeq

\* HostsAddressIsAssigned: the hostname in /etc/hosts stands for an address that
\* the machine has, or for the loopback alias if it has no static one (hosts.go:53-68),
\* where only interfaces have subnets.
THEOREM HostsAddress ==
  ASSUME \A m \in Media : \A d \in Range(m) : \A n \in Range(d.net) : PhysicalOnly(n)
  PROVE  Spec => []HostsAddressIsAssigned
<1> DEFINE I == RunInv /\ PhysicalOnly(net)
<1>1. Init => I
  <2>1. NoNet.config = << >> /\ Range(<< >>) = { }
    BY NoStep DEF NoNet
  <2>2. Init => PhysicalOnly(net)
    BY <2>1 DEF Init, PhysicalOnly
  <2>3. QED
    BY <2>2, InitInv
<1>2. I /\ [Next]_vars => I'
  BY NextInv, PhysicalStays
<1>3. I => HostsAddressIsAssigned
  BY HostsDone
<1>4. QED
  BY <1>1, <1>2, <1>3, PTL DEF Spec

\* EditsSurvive: what the user appended to a managed file is there after any runs,
\* reboots and changes of media, unless a file operation failed or the machine
\* crashed (fsutil.go:14-17).
THEOREM EditsAreKept ==
  ASSUME "call" \notin Faults
  PROVE  Spec => []EditsSurvive
<1>1. ~MayFail
  BY DEF MayFail
<1>2. Init => RunInv /\ KeptInv
  BY InitInv
<1>3. RunInv /\ KeptInv /\ [Next]_vars => (RunInv /\ KeptInv)'
  BY <1>1, NextInv
<1>4. RunInv /\ KeptInv => EditsSurvive
  <2>1. ASSUME RunInv, KeptInv, crashes = 0, NEW f \in File, files[f].section # edits[f]
        PROVE  At("write") /\ On = f
    <3>1. todo # << >> /\ todo[1].op = "write" /\ todo[1].on = f
      BY <2>1 DEF KeptInv
    <3>2. status = "running"
      BY <2>1, <3>1 DEF RunInv, ShapeInv
    <3>3. IsSeq(todo)
      BY <2>1 DEF RunInv, TodoInv
    <3>4. Head(todo) = todo[1]
      BY <3>3 DEF IsSeq
    <3>5. QED
      BY <3>1, <3>2, <3>4 DEF At, On
  <2>2. QED
    BY <2>1 DEF EditsSurvive
<1>5. QED
  BY <1>2, <1>3, <1>4, PTL DEF Spec

=============================================================================
