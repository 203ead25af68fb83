--------------------------- MODULE FunctionProofs ---------------------------
(***************************************************************************)
(* Proofs about TextRewrites: what its functions compute, for inputs of    *)
(* every length.  Each property is proved of the function first, and then  *)
(* of the specification that makes the inputs.                             *)
(***************************************************************************)
EXTENDS MCFunctions, Integers, SequenceTheorems, TLAPS

-----------------------------------------------------------------------------
(* Numbers and sequences *)

\* What is proved of the numbers themselves, whatever is folded.
N == INSTANCE FoldProofs WITH Step <- LAMBDA r, e : r, Base <- 0

\* A set of indices has a greatest member.
LEMMA HasGreatest ==
  ASSUME NEW n \in Nat, NEW S, S \subseteq 1 .. n, S # { }
  PROVE  \E m \in S : \A y \in S : y <= m
BY N!GreatestIs

\* A set of indices has a least member.
LEMMA HasLeast ==
  ASSUME NEW n \in Nat, NEW S, S \subseteq 1 .. n, S # { }
  PROVE  \E m \in S : \A y \in S : m <= y
<1>1. S \subseteq Nat
  OBVIOUS
<1>2. QED
  BY <1>1, N!LeastNumber

\* Max is the greatest member.
LEMMA MaxIs ==
  ASSUME NEW n \in Nat, NEW S, S \subseteq 1 .. n, NEW m \in S, \A y \in S : y <= m
  PROVE  Max(S) = m
<1>1. \A y \in S : m >= y
  OBVIOUS
<1>2. Max(S) \in S /\ \A y \in S : Max(S) >= y
  BY <1>1, Zenon DEF Max
<1>3. \A x \in S : x >= m => x = m
  OBVIOUS
<1>4. QED
  BY <1>2, <1>3

\* Min is the least member.
LEMMA MinIs ==
  ASSUME NEW n \in Nat, NEW S, S \subseteq 1 .. n, NEW m \in S, \A y \in S : m <= y
  PROVE  Min(S) = m
<1>1. Min(S) \in S /\ \A y \in S : Min(S) <= y
  BY Zenon DEF Min
<1>2. \A x \in S : x <= m => x = m
  OBVIOUS
<1>3. QED
  BY <1>1, <1>2

\* The first n elements of a sequence.
LEMMA Cut ==
  ASSUME NEW T, NEW s \in Seq(T), NEW n \in 0 .. Len(s)
  PROVE  /\ SubSeq(s, 1, n) \in Seq(T)
         /\ Len(SubSeq(s, 1, n)) = n
         /\ \A k \in 1 .. n : SubSeq(s, 1, n)[k] = s[k]
<1>1. n \in Int /\ 1 \in Int /\ \A i \in 1 .. n : s[i] \in T
  OBVIOUS
<1>2. SubSeq(s, 1, n) \in Seq(T)
  BY <1>1, SubSeqProperties
<1>3. QED
  BY <1>2

-----------------------------------------------------------------------------
(* Managed files *)

\* Either a text is blank, or there is a last token in it that isn't.
LEMMA LastToken ==
  ASSUME NEW T, NEW s \in Seq(T)
  PROVE  \/ \A k \in 1 .. Len(s) : IsBlank(s[k])
         \/ \E n \in 1 .. Len(s) : ~IsBlank(s[n]) /\ \A k \in n + 1 .. Len(s) : IsBlank(s[k])
<1> DEFINE S == { k \in 1 .. Len(s) : ~IsBlank(s[k]) }
<1>1. CASE S = { }
  BY <1>1
<1>2. CASE S # { }
  <2>1. PICK n \in S : \A y \in S : y <= n
    <3>1. Len(s) \in Nat /\ S \subseteq 1 .. Len(s)
      OBVIOUS
    <3> HIDE DEF S
    <3>2. QED
      BY <1>2, <3>1, HasGreatest
  <2>2. \A k \in n + 1 .. Len(s) : IsBlank(s[k])
    BY <2>1
  <2>3. QED
    BY <2>1, <2>2
<1>3. QED
  BY <1>1, <1>2

\* A text is cut after its last token that isn't blank.
LEMMA TrimAt ==
  ASSUME NEW T, NEW s \in Seq(T), NEW n \in 1 .. Len(s),
         ~IsBlank(s[n]), \A k \in n + 1 .. Len(s) : IsBlank(s[k])
  PROVE  withSingleTrailingNewline(s) = SubSeq(s, 1, n) \o << "newline" >>
<1> DEFINE full == { k \in DOMAIN s : ~IsBlank(s[k]) }
<1>1. Len(s) \in Nat /\ full \subseteq 1 .. Len(s) /\ n \in full /\ \A y \in full : y <= n
  OBVIOUS
<1>2. Max(full) = n
  <2> HIDE DEF full
  <2>1. QED
    BY <1>1, MaxIs
<1>3. QED
  BY <1>1, <1>2, Zenon DEF withSingleTrailingNewline

\* Nothing is left of a blank text.
LEMMA TrimBlank ==
  ASSUME NEW T, NEW s \in Seq(T), \A k \in 1 .. Len(s) : IsBlank(s[k])
  PROVE  withSingleTrailingNewline(s) = << "newline" >>
<1>1. { k \in DOMAIN s : ~IsBlank(s[k]) } = { }
  OBVIOUS
<1>2. << >> \o << "newline" >> = << "newline" >>
  OBVIOUS
<1>3. QED
  BY <1>1, <1>2, Zenon DEF withSingleTrailingNewline

\* What is cut off at the end makes no difference to what comes before.
LEMMA TrimAfter ==
  ASSUME NEW T, "newline" \in T, NEW h \in Seq(T), NEW a \in Seq(T), h # << >>, ~IsBlank(h[Len(h)])
  PROVE  withSingleTrailingNewline(h \o a) = h \o withSingleTrailingNewline(a)
<1>1. /\ h \o a \in Seq(T) /\ Len(h \o a) = Len(h) + Len(a) /\ Len(h) \in Nat \ {0} /\ Len(a) \in Nat
      /\ \A i \in 1 .. Len(h) : (h \o a)[i] = h[i]
      /\ \A i \in Len(h) + 1 .. Len(h) + Len(a) : (h \o a)[i] = a[i - Len(h)]
  BY ConcatProperties, EmptySeq
<1>2. CASE \A k \in 1 .. Len(a) : IsBlank(a[k])
  <2>1. ~IsBlank((h \o a)[Len(h)]) /\ \A k \in Len(h) + 1 .. Len(h \o a) : IsBlank((h \o a)[k])
    BY <1>1, <1>2
  <2>2. Len(h) \in 1 .. Len(h \o a)
    BY <1>1
  <2>3. withSingleTrailingNewline(h \o a) = SubSeq(h \o a, 1, Len(h)) \o << "newline" >>
    BY <1>1, <2>1, <2>2, TrimAt
  <2>4. SubSeq(h \o a, 1, Len(h)) = h
    BY <1>1
  <2>5. QED
    BY <1>2, <2>3, <2>4, TrimBlank
<1>3. ASSUME NEW n \in 1 .. Len(a), ~IsBlank(a[n]), \A k \in n + 1 .. Len(a) : IsBlank(a[k])
      PROVE  withSingleTrailingNewline(h \o a) = h \o withSingleTrailingNewline(a)
  <2>1. ~IsBlank((h \o a)[Len(h) + n])
    BY <1>1, <1>3
  <2>2. \A k \in Len(h) + n + 1 .. Len(h \o a) : IsBlank((h \o a)[k])
    BY <1>1, <1>3
  <2>3. Len(h) + n \in 1 .. Len(h \o a)
    BY <1>1
  <2>4. withSingleTrailingNewline(h \o a) = SubSeq(h \o a, 1, Len(h) + n) \o << "newline" >>
    BY <1>1, <2>1, <2>2, <2>3, TrimAt
  <2>5. SubSeq(h \o a, 1, Len(h) + n) = h \o SubSeq(a, 1, n)
    BY <1>1
  <2>6. SubSeq(a, 1, n) \in Seq(T) /\ << "newline" >> \in Seq(T)
    OBVIOUS
  <2>7. (h \o SubSeq(a, 1, n)) \o << "newline" >> = h \o (SubSeq(a, 1, n) \o << "newline" >>)
    BY <2>6, ConcatAssociative
  <2>8. QED
    BY <1>3, <2>4, <2>5, <2>7, TrimAt
<1>4. QED
  BY <1>2, <1>3, LastToken

\* Trimming what is trimmed changes nothing.
LEMMA TrimTwice ==
  ASSUME NEW T, "newline" \in T, NEW s \in Seq(T)
  PROVE  /\ withSingleTrailingNewline(s) \in Seq(T)
         /\ withSingleTrailingNewline(withSingleTrailingNewline(s)) = withSingleTrailingNewline(s)
<1>1. << "newline" >> \in Seq(T) /\ Len(<< "newline" >>) = 1
      /\ \A k \in 1 .. Len(<< "newline" >>) : IsBlank(<< "newline" >>[k])
  BY DEF IsBlank
<1>2. withSingleTrailingNewline(<< "newline" >>) = << "newline" >>
  BY <1>1, TrimBlank
<1>3. CASE \A k \in 1 .. Len(s) : IsBlank(s[k])
  BY <1>1, <1>2, <1>3, TrimBlank
<1>4. ASSUME NEW n \in 1 .. Len(s), ~IsBlank(s[n]), \A k \in n + 1 .. Len(s) : IsBlank(s[k])
      PROVE  /\ withSingleTrailingNewline(s) \in Seq(T)
             /\ withSingleTrailingNewline(withSingleTrailingNewline(s)) = withSingleTrailingNewline(s)
  <2>1. PICK h : h = SubSeq(s, 1, n)
    OBVIOUS
  <2>2. h \in Seq(T) /\ Len(h) = n /\ h # << >> /\ h[Len(h)] = s[n]
    BY <2>1
  <2>3. withSingleTrailingNewline(s) = h \o << "newline" >>
    BY <1>4, <2>1, TrimAt
  <2>4. withSingleTrailingNewline(h \o << "newline" >>) = h \o << "newline" >>
    BY <1>1, <1>2, <1>4, <2>2, TrimAfter
  <2>5. h \o << "newline" >> \in Seq(T)
    BY <1>1, <2>2, ConcatProperties
  <2>6. QED
    BY <2>3, <2>4, <2>5
<1>5. QED
  BY <1>3, <1>4, LastToken

\* SelectInSeq, of markers, and the set in Section.
Marks(s) == { k \in 1 .. Len(s) : IsMarker(s[k]) }

\* What the two ways to find the first marker are for a sequence.
LEMMA MarkerFound ==
  ASSUME NEW T, NEW s \in Seq(T)
  PROVE  /\ SelectInSeq(s, IsMarker) = IF Marks(s) # { } THEN Min(Marks(s)) ELSE 0
         /\ Section(s) = IF Marks(s) = { } THEN << >> ELSE SubSeq(s, Min(Marks(s)) + 1, Len(s))
<1>1. Marks(s) = { k \in DOMAIN s : s[k] = "MARK" }
  BY DEF Marks, IsMarker
<1>2. SelectInSeq(s, IsMarker) = IF Marks(s) # { } THEN Min(Marks(s)) ELSE 0
  BY Zenon DEF SelectInSeq, Marks
<1>3. QED
  BY <1>1, <1>2, Zenon DEF Section

\* The parts of a text whose first marker is its n-th token.
LEMMA SplitAtMarker ==
  ASSUME NEW T, NEW s \in Seq(T), NEW n \in 1 .. Len(s),
         s[n] = "MARK", \A k \in 1 .. n - 1 : s[k] # "MARK"
  PROVE  /\ UpToMarker(s) = SubSeq(s, 1, n)
         /\ AfterMarker(s) = SubSeq(s, n + 1, Len(s))
         /\ Section(s) = SubSeq(s, n + 1, Len(s))
<1>1. /\ Len(s) \in Nat /\ Marks(s) \subseteq 1 .. Len(s) /\ n \in Marks(s)
      /\ \A y \in Marks(s) : n <= y
  BY DEF Marks, IsMarker
<1>2. Min(Marks(s)) = n /\ Marks(s) # { }
  BY <1>1, MinIs
<1>3. SelectInSeq(s, IsMarker) = n
  BY <1>2, MarkerFound
<1>4. Section(s) = SubSeq(s, n + 1, Len(s))
  BY <1>2, MarkerFound
<1>5. n # 0
  OBVIOUS
<1>6. QED
  BY <1>3, <1>4, <1>5 DEF UpToMarker, AfterMarker

\* Without a marker there is no section; with one, the section is what the
\* code takes over.
LEMMA SectionIs ==
  ASSUME NEW T, NEW s \in Seq(T)
  PROVE  AfterMarker(s) = Section(s) /\ Section(s) \in Seq(T)
<1>1. CASE Marks(s) = { }
  <2>1. SelectInSeq(s, IsMarker) = 0 /\ Section(s) = << >>
    BY <1>1, MarkerFound
  <2>2. QED
    BY <2>1 DEF AfterMarker
<1>2. CASE Marks(s) # { }
  <2>1. PICK n \in Marks(s) : \A y \in Marks(s) : n <= y
    <3>1. Len(s) \in Nat /\ Marks(s) \subseteq 1 .. Len(s)
      BY DEF Marks
    <3>2. QED
      BY <1>2, <3>1, HasLeast
  <2>2. n \in 1 .. Len(s) /\ s[n] = "MARK" /\ \A k \in 1 .. n - 1 : s[k] # "MARK"
    BY <2>1 DEF Marks, IsMarker
  <2>3. AfterMarker(s) = SubSeq(s, n + 1, Len(s)) /\ Section(s) = SubSeq(s, n + 1, Len(s))
    BY <2>2, SplitAtMarker
  <2>4. SubSeq(s, n + 1, Len(s)) \in Seq(T)
    BY <2>2
  <2>5. QED
    BY <2>3, <2>4
<1>3. QED
  BY <1>1, <1>2

\* What ends in its only marker is a heading.
IsHeading(h) ==
  h # << >> /\ h[Len(h)] = "MARK" /\ \A k \in 1 .. Len(h) - 1 : h[k] # "MARK"

\* A text that begins with a heading is divided after it.
LEMMA SplitAfterHeading ==
  ASSUME NEW T, NEW h \in Seq(T), NEW w \in Seq(T), IsHeading(h)
  PROVE  UpToMarker(h \o w) = h /\ Section(h \o w) = w
<1>1. PICK s \in Seq(T) : s = h \o w
  BY ConcatProperties
<1>2. /\ Len(s) = Len(h) + Len(w) /\ Len(w) \in Nat /\ Len(h) \in Nat \ {0}
      /\ \A i \in 1 .. Len(h) : s[i] = h[i]
      /\ \A i \in 1 .. Len(w) : s[i + Len(h)] = w[i]
  BY <1>1, EmptySeq DEF IsHeading
<1>3. Len(h) \in 1 .. Len(s) /\ s[Len(h)] = "MARK" /\ \A k \in 1 .. Len(h) - 1 : s[k] # "MARK"
  <2>1. h[Len(h)] = "MARK" /\ \A k \in 1 .. Len(h) - 1 : h[k] # "MARK"
    BY DEF IsHeading
  <2>2. Len(h) \in 1 .. Len(h) /\ Len(h) \in 1 .. Len(s)
        /\ \A k \in 1 .. Len(h) - 1 : k \in 1 .. Len(h)
    BY <1>2
  <2>3. QED
    BY <1>2, <2>1, <2>2
<1>4. UpToMarker(s) = SubSeq(s, 1, Len(h)) /\ Section(s) = SubSeq(s, Len(h) + 1, Len(s))
  BY <1>3, SplitAtMarker
<1>5. SubSeq(s, 1, Len(h)) = h
  BY <1>2
<1>6. SubSeq(s, Len(h) + 1, Len(s)) = w
  BY <1>2
<1>7. QED
  BY <1>1, <1>4, <1>5, <1>6

\* What is written of either rendering.
Heading == << "text", "newline", "MARK" >>

\* Three tokens and one are four.
LEMMA FourTokens ==
  ASSUME NEW T, NEW a \in T, NEW b \in T, NEW c \in T, NEW d \in T
  PROVE  << a, b, c >> \o << d >> = << a, b, c, d >>
<1>1. PICK s : s = << a, b, c >> \o << d >>
  OBVIOUS
<1>2. PICK t : t = << a, b, c, d >>
  OBVIOUS
<1>3. << a, b, c >> \in Seq(T) /\ << d >> \in Seq(T) /\ Len(<< a, b, c >>) = 3 /\ Len(<< d >>) = 1
  OBVIOUS
<1>4. s \in Seq(T) /\ Len(s) = 4 /\ s[1] = a /\ s[2] = b /\ s[3] = c /\ s[4] = d
  BY <1>1, <1>3, ConcatProperties
<1>5. t \in Seq(T) /\ Len(t) = 4 /\ t[1] = a /\ t[2] = b /\ t[3] = c /\ t[4] = d
  BY <1>2
<1>6. s = t
  BY <1>4, <1>5, SeqEqual
<1>7. QED
  BY <1>1, <1>2, <1>6

\* Both renderings begin with Heading, and that's all that is written of them.
LEMMA HeadingIs ==
  ASSUME NEW T, { "text", "newline", "MARK" } \subseteq T
  PROVE  /\ Heading \in Seq(T) /\ IsHeading(Heading)
         /\ \A r \in Renderings : UpToMarker(r) = Heading
<1>1. << >> \in Seq(T) /\ << "newline" >> \in Seq(T) /\ Heading \in Seq(T)
  BY DEF Heading
<1>2. IsHeading(Heading)
  BY DEF IsHeading, Heading
<1>3. UpToMarker(Heading \o << >>) = Heading /\ UpToMarker(Heading \o << "newline" >>) = Heading
  BY <1>1, <1>2, SplitAfterHeading
<1>4. Heading \o << >> = Heading
  BY <1>1, ConcatEmptySeq
<1>5. Heading \o << "newline" >> = << "text", "newline", "MARK", "newline" >>
  BY FourTokens DEF Heading
<1>6. \A r \in Renderings : r = Heading \/ r = Heading \o << "newline" >>
  BY <1>5, Zenon DEF Renderings, Heading
<1>7. QED
  BY <1>1, <1>2, <1>3, <1>4, <1>6

\* A managed file of any tokens and any length is Heading and the user's section.
LEMMA ManagedFileIs ==
  ASSUME NEW T, { "text", "newline", "MARK" } \subseteq T, NEW existing \in Seq(T), NEW r \in Renderings
  PROVE  /\ writeManagedFile(r, existing) = Heading \o withSingleTrailingNewline(Section(existing))
         /\ writeManagedFile(r, existing) \in Seq(T)
         /\ Section(writeManagedFile(r, existing)) = withSingleTrailingNewline(Section(existing))
<1>1. Heading \in Seq(T) /\ IsHeading(Heading) /\ UpToMarker(r) = Heading
  BY HeadingIs
<1>2. PICK a \in Seq(T) : a = Section(existing) /\ AfterMarker(existing) = a
  BY SectionIs
<1>3. PICK w \in Seq(T) : w = withSingleTrailingNewline(a)
  BY TrimTwice
<1>4. writeManagedFile(r, existing) = Heading \o w
  <2>1. Heading # << >> /\ ~IsBlank(Heading[Len(Heading)])
    BY <1>1 DEF IsHeading, IsBlank
  <2>2. withSingleTrailingNewline(Heading \o a) = Heading \o withSingleTrailingNewline(a)
    BY <1>1, <2>1, TrimAfter
  <2>3. QED
    BY <1>1, <1>2, <1>3, <2>2 DEF writeManagedFile
<1>5. Section(Heading \o w) = w /\ Heading \o w \in Seq(T)
  BY <1>1, SplitAfterHeading, ConcatProperties
<1>6. QED
  BY <1>2, <1>3, <1>4, <1>5

\* fsutil.go:9-17: whatever tokens a managed file has, and however many, it is
\* rewritten as SectionSurvives says.
THEOREM ManagedFile ==
  ASSUME NEW T, { "text", "newline", "MARK" } \subseteq T, NEW existing \in Seq(T),
         NEW r1 \in Renderings, NEW r2 \in Renderings
  PROVE  LET once == writeManagedFile(r1, existing)
         IN  /\ IsPrefix(UpToMarker(r1), once)
             /\ Section(once) = withSingleTrailingNewline(Section(existing))
             /\ writeManagedFile(r2, once) = once
<1>1. PICK once \in Seq(T) : once = writeManagedFile(r1, existing)
  BY ManagedFileIs
<1>2. PICK w \in Seq(T) : /\ w = withSingleTrailingNewline(Section(existing))
                          /\ withSingleTrailingNewline(w) = w
  <2>1. Section(existing) \in Seq(T)
    BY SectionIs
  <2>2. QED
    BY <2>1, TrimTwice
<1>3. once = Heading \o w /\ Section(once) = w
  BY <1>1, <1>2, ManagedFileIs
<1>4. writeManagedFile(r2, once) = once
  <2>1. writeManagedFile(r2, once) = Heading \o withSingleTrailingNewline(Section(once))
    BY ManagedFileIs
  <2>2. QED
    BY <1>2, <1>3, <2>1
<1>5. Heading \in Seq(T) /\ UpToMarker(r1) = Heading
  BY HeadingIs
<1>6. IsPrefix(Heading, once)
  <2>1. PICK h \in Seq(T) : h = Heading
    BY <1>5
  <2>2. Len(h) <= Len(h \o w) /\ SubSeq(h, 1, Len(h)) = SubSeq(h \o w, 1, Len(h))
    OBVIOUS
  <2>3. QED
    BY <1>3, <2>1, <2>2 DEF IsPrefix
<1>7. QED
  BY <1>1, <1>2, <1>3, <1>4, <1>5, <1>6

-----------------------------------------------------------------------------
(* user-data *)

UserData == [hostname : Seq(Char), user : Seq(Char), password : Seq(Char), keys : Seq(Seq(Char))]

\* A reader that has seen nothing yet.
Unread == [done |-> << >>, line |-> << >>]
R == INSTANCE FoldProofs WITH Step <- ReadChar, Base <- Unread

\* What a reader of a text has seen.
Read(text) == FoldLeft(ReadChar, Unread, text)

\* A text is read from left to right.
LEMMA ReadIs ==
  ASSUME NEW T
  PROVE  /\ Read(<< >>) = Unread
         /\ \A s \in Seq(T), c \in T : Read(Append(s, c)) = ReadChar(Read(s), c)
<1>1. ASSUME NEW s, NEW n \in Nat, DOMAIN s = 1 .. n
      PROVE  Read(s) = R!Folded(s, n)
  BY <1>1, Zenon DEF Read, FoldLeft, MapThenFoldSet, Max, R!Folded, R!Iter, R!Greatest
<1>2. Read(<< >>) = Unread
  <2>1. DOMAIN << >> = 1 .. 0 /\ 0 \in Nat
    OBVIOUS
  <2>2. QED
    BY <1>1, <2>1, R!FoldEmpty, Zenon
<1>3. ASSUME NEW s \in Seq(T), NEW c \in T
      PROVE  Read(Append(s, c)) = ReadChar(Read(s), c)
  <2>1. PICK t \in Seq(T) : t = Append(s, c)
    BY AppendProperties
  <2>2. PICK n \in Nat : n = Len(s)
    OBVIOUS
  <2>3. /\ DOMAIN s = 1 .. n /\ DOMAIN t = 1 .. n + 1 /\ n + 1 \in Nat
        /\ t[n + 1] = c /\ \A k \in 1 .. n : s[k] = t[k]
    BY <2>1, <2>2, AppendProperties
  <2>4. R!Folded(t, n + 1) = ReadChar(R!Folded(s, n), t[n + 1])
    BY <2>3, R!FoldAppend
  <2>5. QED
    BY <1>1, <2>1, <2>3, <2>4
<1>4. QED
  BY <1>2, <1>3

\* A text without newlines is added to the line that the reader is at.
LEMMA ReadOn ==
  ASSUME NEW s \in Seq(Char), NEW t \in Seq(Char), \A k \in 1 .. Len(t) : t[k] # "newline",
         NEW d, Read(s) = [done |-> d, line |-> << >>]
  PROVE  Read(s \o t) = [done |-> d, line |-> t]
<1> DEFINE Upto(k) == SubSeq(t, 1, k)
           G == { k \in 0 .. Len(t) : Read(s \o Upto(k)) = [done |-> d, line |-> Upto(k)] }
<1>1. 0 \in G
  <2>1. Upto(0) = << >> /\ s \o << >> = s /\ 0 \in 0 .. Len(t)
    BY SubSeqEmpty, ConcatEmptySeq
  <2>2. QED
    BY <2>1, Zenon
<1>2. ASSUME NEW k \in 1 .. Len(t), k - 1 \in G
      PROVE  k \in G
  <2>1. PICK u \in Seq(Char) : u = Upto(k - 1)
    <3>1. \A i \in 1 .. k - 1 : t[i] \in Char
      OBVIOUS
    <3>2. Upto(k - 1) \in Seq(Char)
      BY <3>1, SubSeqProperties
    <3>3. QED
      BY <3>2, Zenon
  <2>2. t[k] \in Char /\ t[k] # "newline" /\ Upto(k) = Append(u, t[k])
    BY <2>1
  <2>3. s \o Upto(k) = Append(s \o u, t[k]) /\ s \o u \in Seq(Char)
    BY <2>1, <2>2
  <2>4. Read(s \o Upto(k)) = ReadChar(Read(s \o u), t[k])
    BY <2>2, <2>3, ReadIs
  <2>5. Read(s \o u) = [done |-> d, line |-> u]
    BY <1>2, <2>1
  <2>6. ReadChar([done |-> d, line |-> u], t[k]) = [done |-> d, line |-> Append(u, t[k])]
    BY <2>2 DEF ReadChar
  <2>7. k \in 0 .. Len(t)
    OBVIOUS
  <2>8. QED
    BY <2>2, <2>4, <2>5, <2>6, <2>7, Zenon
<1>3. Len(t) \in G
  <2>1. Len(t) \in Nat /\ Len(t) \in 0 .. Len(t) /\ \A k \in 1 .. Len(t) : k - 1 \in G => k \in G
    BY <1>2
  <2> HIDE DEF G
  <2>2. QED
    BY <1>1, <2>1, N!UpTo
<1>4. Upto(Len(t)) = t
  BY SubSeqFull
<1>5. QED
  BY <1>3, <1>4

\* A text without newlines that one newline follows is a line.
LEMMA ReadLine ==
  ASSUME NEW s \in Seq(Char), NEW t \in Seq(Char), \A k \in 1 .. Len(t) : t[k] # "newline",
         NEW d, Read(s) = [done |-> d, line |-> << >>]
  PROVE  Read(s \o t \o << "newline" >>) = [done |-> Append(d, t), line |-> << >>]
<1>1. s \o t \in Seq(Char) /\ "newline" \in Char
  BY ConcatProperties DEF Char
<1>2. s \o t \o << "newline" >> = Append(s \o t, "newline")
  BY <1>1, AppendIsConcat
<1>3. Read(s \o t \o << "newline" >>) = ReadChar([done |-> d, line |-> t], "newline")
  <2>1. Read(s \o t) = [done |-> d, line |-> t]
    BY ReadOn
  <2>2. Read(Append(s \o t, "newline")) = ReadChar(Read(s \o t), "newline")
    BY <1>1, ReadIs, Zenon
  <2>3. QED
    BY <1>2, <2>1, <2>2
<1>4. QED
  BY <1>3 DEF ReadChar

\* The only line of a text with one newline, at the end.
LEMMA OneLine ==
  ASSUME NEW t \in Seq(Char), \A k \in 1 .. Len(t) : t[k] # "newline"
  PROVE  LinesOf(t \o << "newline" >>) = << t >>
<1>1. << >> \in Seq(Char) /\ << >> \o t = t
  BY ConcatEmptySeq
<1>2. Read(<< >>) = [done |-> << >>, line |-> << >>]
  BY ReadIs DEF Unread
<1>3. Read(t \o << "newline" >>) = [done |-> Append(<< >>, t), line |-> << >>]
  BY <1>1, <1>2, ReadLine
<1>4. Append(<< >>, t) = << t >>
  OBVIOUS
<1>5. QED
  BY <1>3, <1>4 DEF LinesOf, Read, Unread

\* A text without blanks is followed by a newline.
LEMMA NotBlankIs ==
  ASSUME NEW t \in Seq(Char), \A k \in 1 .. Len(t) : ~IsBlank(t[k])
  PROVE  withSingleTrailingNewline(t) = t \o << "newline" >>
<1>1. CASE t = << >>
  <2>1. \A k \in 1 .. Len(t) : IsBlank(t[k])
    BY <1>1
  <2>2. << >> \o << "newline" >> = << "newline" >>
    OBVIOUS
  <2>3. QED
    BY <1>1, <2>1, <2>2, TrimBlank
<1>2. CASE t # << >>
  <2>1. Len(t) \in 1 .. Len(t) /\ \A k \in Len(t) + 1 .. Len(t) : IsBlank(t[k])
    BY <1>2, EmptySeq
  <2>2. QED
    BY <2>1, TrimAt, SubSeqFull
<1>3. QED
  BY <1>1, <1>2

K == INSTANCE FoldProofs WITH Step <- AddKey, Base <- << >>

\* The keys' lines, of a sequence of keys and of one key more.
LEMMA KeysAdded ==
  ASSUME NEW T
  PROVE  /\ FoldLeft(AddKey, << >>, << >>) = << >>
         /\ \A s \in Seq(T), key \in T :
              FoldLeft(AddKey, << >>, Append(s, key)) = AddKey(FoldLeft(AddKey, << >>, s), key)
<1>1. ASSUME NEW s, NEW n \in Nat, DOMAIN s = 1 .. n
      PROVE  FoldLeft(AddKey, << >>, s) = K!Folded(s, n)
  BY <1>1, Zenon DEF FoldLeft, MapThenFoldSet, Max, K!Folded, K!Iter, K!Greatest
<1>2. FoldLeft(AddKey, << >>, << >>) = << >>
  <2>1. DOMAIN << >> = 1 .. 0 /\ 0 \in Nat
    OBVIOUS
  <2>2. QED
    BY <1>1, <2>1, K!FoldEmpty, Zenon
<1>3. ASSUME NEW s \in Seq(T), NEW key \in T
      PROVE  FoldLeft(AddKey, << >>, Append(s, key)) = AddKey(FoldLeft(AddKey, << >>, s), key)
  <2>1. PICK t \in Seq(T) : t = Append(s, key)
    BY AppendProperties
  <2>2. PICK n \in Nat : n = Len(s)
    OBVIOUS
  <2>3. /\ DOMAIN s = 1 .. n /\ DOMAIN t = 1 .. n + 1 /\ n + 1 \in Nat
        /\ t[n + 1] = key /\ \A k \in 1 .. n : s[k] = t[k]
    BY <2>1, <2>2, AppendProperties
  <2>4. K!Folded(t, n + 1) = AddKey(K!Folded(s, n), t[n + 1])
    BY <2>3, K!FoldAppend
  <2>5. QED
    BY <1>1, <2>1, <2>3, <2>4
<1>4. QED
  BY <1>2, <1>3

\* Each key is a line.
LEMMA KeysAreLines ==
  ASSUME NEW keys \in Seq(Seq(Char)), \A i \in 1 .. Len(keys) : \A k \in 1 .. Len(keys[i]) : keys[i][k] # "newline"
  PROVE  /\ FoldLeft(AddKey, << >>, keys) \in Seq(Char)
         /\ Read(FoldLeft(AddKey, << >>, keys)) = [done |-> keys, line |-> << >>]
<1> DEFINE Upto(k) == SubSeq(keys, 1, k)
           Written(k) == FoldLeft(AddKey, << >>, Upto(k))
           G == { k \in 0 .. Len(keys) : /\ Written(k) \in Seq(Char)
                                         /\ Read(Written(k)) = [done |-> Upto(k), line |-> << >>] }
<1>1. 0 \in G
  <2>1. Upto(0) = << >> /\ 0 \in 0 .. Len(keys) /\ << >> \in Seq(Char)
    BY SubSeqEmpty
  <2>2. Written(0) = << >>
    BY <2>1, KeysAdded, Zenon
  <2>3. Read(<< >>) = [done |-> << >>, line |-> << >>]
    BY ReadIs DEF Unread
  <2>4. QED
    BY <2>1, <2>2, <2>3, Zenon
<1>2. ASSUME NEW k \in 1 .. Len(keys), k - 1 \in G
      PROVE  k \in G
  <2>1. PICK u \in Seq(Seq(Char)) : u = Upto(k - 1)
    <3>1. \A i \in 1 .. k - 1 : keys[i] \in Seq(Char)
      OBVIOUS
    <3>2. Upto(k - 1) \in Seq(Seq(Char))
      BY <3>1, SubSeqProperties
    <3>3. QED
      BY <3>2, Zenon
  <2>2. Upto(k) = Append(u, keys[k]) /\ k \in 0 .. Len(keys)
    BY <2>1
  <2>3. PICK key \in Seq(Char) : key = keys[k] /\ \A i \in 1 .. Len(key) : key[i] # "newline"
    OBVIOUS
  <2>4. PICK s \in Seq(Char) : s = FoldLeft(AddKey, << >>, u) /\ Read(s) = [done |-> u, line |-> << >>]
    BY <1>2, <2>1, Zenon
  <2>5. Written(k) = s \o key \o << "newline" >>
    BY <2>2, <2>3, <2>4, KeysAdded, Zenon DEF AddKey
  <2>6. s \o key \o << "newline" >> \in Seq(Char)
    BY ConcatProperties DEF Char
  <2>7. Read(s \o key \o << "newline" >>) = [done |-> Append(u, key), line |-> << >>]
    BY <2>3, <2>4, ReadLine
  <2>8. QED
    BY <2>2, <2>3, <2>5, <2>6, <2>7, Zenon
<1>3. Len(keys) \in G
  <2>1. Len(keys) \in Nat /\ Len(keys) \in 0 .. Len(keys)
    OBVIOUS
  <2> HIDE DEF G
  <2>2. \A k \in 1 .. Len(keys) : k - 1 \in G => k \in G
    BY <1>2
  <2>3. QED
    BY <1>1, <2>1, <2>2, N!UpTo
<1>4. Upto(Len(keys)) = keys
  BY SubSeqFull
<1>5. QED
  BY <1>3, <1>4, Zenon

\* A record is divided at its first colon, which is the one after the user.
LEMMA FieldsAre ==
  ASSUME NEW user \in Seq(Char), NEW password \in Seq(Char), \A k \in 1 .. Len(user) : user[k] # "colon"
  PROVE  LET record == user \o << "colon" >> \o password
             colon  == SelectInSeq(record, IsColon)
         IN  /\ record \in Seq(Char)
             /\ SubSeq(record, 1, colon - 1) = user
             /\ SubSeq(record, colon + 1, Len(record)) = password
<1>1. PICK p \in Seq(Char) : p = user \o << "colon" >>
  <2>1. << "colon" >> \in Seq(Char)
    BY DEF Char
  <2>2. QED
    BY <2>1, ConcatProperties
<1>2. PICK record \in Seq(Char) : record = p \o password
  BY ConcatProperties
<1>3. PICK n \in Nat : n = Len(user) + 1
  OBVIOUS
<1>4. Len(p) = n /\ p[n] = "colon" /\ \A k \in 1 .. n - 1 : p[k] = user[k]
  BY <1>1, <1>3
<1>5. /\ Len(record) = n + Len(password) /\ record[n] = "colon"
      /\ \A k \in 1 .. n - 1 : record[k] = user[k]
      /\ \A k \in 1 .. Len(password) : record[n + k] = password[k]
  <2>1. n \in 1 .. n /\ \A k \in 1 .. n - 1 : k \in 1 .. n
    BY <1>3
  <2>2. Len(record) = n + Len(password) /\ \A k \in 1 .. n : record[k] = p[k]
    <3>1. Len(record) = Len(p) + Len(password) /\ \A k \in 1 .. Len(p) : record[k] = p[k]
      BY <1>2
    <3>2. QED
      BY <1>4, <3>1
  <2>3. \A k \in 1 .. Len(password) : record[n + k] = password[k]
    BY <1>2, <1>4
  <2>4. QED
    BY <1>4, <2>1, <2>2, <2>3
<1>6. SelectInSeq(record, IsColon) = n
  <2> DEFINE I == { i \in 1 .. Len(record) : IsColon(record[i]) }
  <2>1. I \subseteq 1 .. Len(record) /\ Len(record) \in Nat /\ n \in I /\ \A y \in I : n <= y
    BY <1>3, <1>5 DEF IsColon
  <2>2. Min(I) = n /\ I # { }
    <3> HIDE DEF I
    <3>1. QED
      BY <2>1, MinIs
  <2>3. QED
    BY <2>2, Zenon DEF SelectInSeq
<1>7. SubSeq(record, 1, n - 1) = user
  BY <1>3, <1>5
<1>8. SubSeq(record, n + 1, Len(record)) = password
  BY <1>5
<1>9. QED
  BY <1>1, <1>2, <1>6, <1>7, <1>8

\* userdata.go:51-58, apply.go:61-68: of accepted user-data of any size, each value is
\* a line of its own, as SplicedExactly says.
THEOREM Spliced ==
  ASSUME NEW u \in UserData, validate(u)
  PROVE  /\ LinesOf(hostnameFile(u)) = << u.hostname >>
         /\ LinesOf(authorizedKeys(u)) = Append(u.keys, << >>)
         /\ LET lines == LinesOf(chpasswdRecord(u))
                colon == SelectInSeq(lines[1], IsColon)
            IN  /\ Len(lines) = 1
                /\ SubSeq(lines[1], 1, colon - 1) = u.user
                /\ SubSeq(lines[1], colon + 1, Len(lines[1])) = u.password
<1>1. /\ u.hostname \in Seq(Char) /\ u.user \in Seq(Char) /\ u.password \in Seq(Char)
      /\ u.keys \in Seq(Seq(Char))
  BY DEF UserData
<1>2. /\ \A k \in 1 .. Len(u.hostname) : ~IsBlank(u.hostname[k]) /\ u.hostname[k] # "newline"
      /\ \A k \in 1 .. Len(u.user) : u.user[k] # "newline" /\ u.user[k] # "colon"
      /\ \A k \in 1 .. Len(u.password) : u.password[k] # "newline"
      /\ \A i \in 1 .. Len(u.keys) : \A k \in 1 .. Len(u.keys[i]) : u.keys[i][k] # "newline"
  BY <1>1 DEF validate, isSpaceOrControl, IsBlank, ToSet
<1>3. LinesOf(hostnameFile(u)) = << u.hostname >>
  BY <1>1, <1>2, NotBlankIs, OneLine DEF hostnameFile
<1>4. LinesOf(authorizedKeys(u)) = Append(u.keys, << >>)
  <2>1. PICK s \in Seq(Char) : s = FoldLeft(AddKey, << >>, u.keys) /\ Read(s) = [done |-> u.keys, line |-> << >>]
    BY <1>1, <1>2, KeysAreLines
  <2>2. Read(Append(s, "newline")) = ReadChar([done |-> u.keys, line |-> << >>], "newline")
    BY <2>1, ReadIs DEF Char
  <2>3. Read(Append(s, "newline")).done = Append(u.keys, << >>)
    BY <2>2 DEF ReadChar
  <2>4. QED
    BY <2>1, <2>3 DEF LinesOf, authorizedKeys, Read, Unread
<1>5. PICK record \in Seq(Char) :
        /\ record = u.user \o << "colon" >> \o u.password
        /\ SubSeq(record, 1, SelectInSeq(record, IsColon) - 1) = u.user
        /\ SubSeq(record, SelectInSeq(record, IsColon) + 1, Len(record)) = u.password
  BY <1>1, <1>2, FieldsAre
<1>6. \A k \in 1 .. Len(record) : record[k] # "newline"
  <2>1. PICK p \in Seq(Char) : p = u.user \o << "colon" >>
    <3>1. << "colon" >> \in Seq(Char)
      BY DEF Char
    <3>2. QED
      BY <1>1, <3>1, ConcatProperties
  <2>2. \A k \in 1 .. Len(p) : p[k] # "newline"
    BY <1>1, <1>2, <2>1
  <2>3. record = p \o u.password
    BY <1>5, <2>1
  <2>4. QED
    BY <1>1, <1>2, <2>2, <2>3
<1>7. LinesOf(chpasswdRecord(u)) = << record >>
  BY <1>5, <1>6, OneLine DEF chpasswdRecord
<1>8. << record >>[1] = record /\ Len(<< record >>) = 1
  OBVIOUS
<1>9. QED
  BY <1>3, <1>4, <1>5, <1>7, <1>8, Zenon

-----------------------------------------------------------------------------
(* Configuration files *)

\* Either all lines are blank, or there is a last one that isn't.
LEMMA LastLine ==
  ASSUME NEW T, NEW s \in Seq(T)
  PROVE  \/ \A k \in 1 .. Len(s) : s[k].kind = "blank"
         \/ \E n \in 1 .. Len(s) : s[n].kind # "blank" /\ \A k \in n + 1 .. Len(s) : s[k].kind = "blank"
<1> DEFINE S == { k \in 1 .. Len(s) : s[k].kind # "blank" }
<1>1. CASE S = { }
  BY <1>1
<1>2. CASE S # { }
  <2>1. PICK n \in S : \A y \in S : y <= n
    <3>1. Len(s) \in Nat /\ S \subseteq 1 .. Len(s)
      OBVIOUS
    <3> HIDE DEF S
    <3>2. QED
      BY <1>2, <3>1, HasGreatest
  <2>2. \A k \in n + 1 .. Len(s) : s[k].kind = "blank"
    BY <2>1
  <2>3. QED
    BY <2>1, <2>2
<1>3. QED
  BY <1>1, <1>2

\* A file ends after the last line that isn't blank.
LEMMA WriteAt ==
  ASSUME NEW T, NEW s \in Seq(T), NEW n \in 1 .. Len(s),
         s[n].kind # "blank", \A k \in n + 1 .. Len(s) : s[k].kind = "blank"
  PROVE  writeFile(s) = Append(SubSeq(s, 1, n), Blank)
<1> DEFINE full == { k \in DOMAIN s : s[k].kind # "blank" }
<1>1. Len(s) \in Nat /\ full \subseteq 1 .. Len(s) /\ n \in full /\ \A y \in full : y <= n
  OBVIOUS
<1>2. Max(full) = n
  <2> HIDE DEF full
  <2>1. QED
    BY <1>1, MaxIs
<1>3. QED
  BY <1>1, <1>2, Zenon DEF writeFile

\* Blank is blank.
LEMMA BlankIs == Blank.kind = "blank"
BY DEF Blank, Line

\* Writing a file once more changes nothing.
LEMMA WriteTwice ==
  ASSUME NEW T, Blank \in T, NEW s \in Seq(T), NEW n \in 1 .. Len(s),
         s[n].kind # "blank", \A k \in n + 1 .. Len(s) : s[k].kind = "blank"
  PROVE  writeFile(writeFile(s)) = writeFile(s)
<1>1. PICK h \in Seq(T) : h = SubSeq(s, 1, n)
  <2>1. n \in 0 .. Len(s)
    OBVIOUS
  <2>2. SubSeq(s, 1, n) \in Seq(T)
    BY <2>1, Cut
  <2>3. QED
    BY <2>2, Zenon
<1>2. Len(h) = n /\ h[n] = s[n] /\ n \in Nat
  BY <1>1
<1>3. PICK t \in Seq(T) : t = Append(h, Blank)
  BY AppendProperties
<1>4. Len(t) = n + 1 /\ t[n] = s[n] /\ t[n + 1] = Blank
  BY <1>2, <1>3
<1>5. writeFile(s) = t
  BY <1>1, <1>3, WriteAt
<1>6. n \in 1 .. Len(t) /\ t[n].kind # "blank" /\ \A k \in n + 1 .. Len(t) : t[k].kind = "blank"
  BY <1>4, BlankIs
<1>7. writeFile(t) = Append(SubSeq(t, 1, n), Blank)
  BY <1>6, WriteAt
<1>8. SubSeq(t, 1, n) = h
  BY <1>2, <1>3
<1>9. QED
  BY <1>3, <1>5, <1>7, <1>8

\* What is written of a text that is not blank: its lines up to the last one that
\* isn't, and a blank one.
LEMMA WriteIs ==
  ASSUME NEW T, Blank \in T, NEW s \in Seq(T), NEW m \in 1 .. Len(s), s[m].kind # "blank"
  PROVE  \E n \in m .. Len(s) :
           /\ writeFile(s) \in Seq(T)
           /\ Len(writeFile(s)) = n + 1
           /\ \A k \in 1 .. n : writeFile(s)[k] = s[k]
           /\ writeFile(s)[n + 1] = Blank
           /\ \A k \in n + 1 .. Len(s) : s[k].kind = "blank"
           /\ writeFile(writeFile(s)) = writeFile(s)
<1>1. PICK n \in 1 .. Len(s) : s[n].kind # "blank" /\ \A k \in n + 1 .. Len(s) : s[k].kind = "blank"
  BY LastLine
<1>2. n \in m .. Len(s)
  BY <1>1
<1>3. writeFile(s) = Append(SubSeq(s, 1, n), Blank)
  BY <1>1, WriteAt
<1>4. PICK h \in Seq(T) : h = SubSeq(s, 1, n)
  <2>1. n \in 0 .. Len(s)
    OBVIOUS
  <2>2. SubSeq(s, 1, n) \in Seq(T)
    BY <2>1, Cut
  <2>3. QED
    BY <2>2, Zenon
<1>5. Len(h) = n /\ \A k \in 1 .. n : h[k] = s[k]
  BY <1>4
<1>6. /\ Append(h, Blank) \in Seq(T) /\ Len(Append(h, Blank)) = n + 1
      /\ Append(h, Blank)[n + 1] = Blank /\ \A k \in 1 .. n : Append(h, Blank)[k] = s[k]
  BY <1>5, AppendProperties
<1>7. writeFile(writeFile(s)) = writeFile(s)
  BY <1>1, WriteTwice
<1>8. QED
  BY <1>1, <1>2, <1>3, <1>4, <1>6, <1>7

\* Some line sets the key, and every line that does says the same.
AllSet(s, key, value) ==
  /\ \E m \in 1 .. Len(s) : s[m].kind = "set" /\ s[m].key = key
  /\ \A k \in 1 .. Len(s) : s[k].kind = "set" /\ s[k].key = key => s[k].value = value

\* Then that is in effect.
LEMMA EffectiveIs ==
  ASSUME NEW T, NEW s \in Seq(T), NEW key, NEW value, AllSet(s, key, value)
  PROVE  Effective(s, key) = value
<1>0. PICK m \in 1 .. Len(s) : s[m].kind = "set" /\ s[m].key = key
  BY DEF AllSet
<1> DEFINE here == { k \in DOMAIN s : s[k].kind = "set" /\ s[k].key = key }
<1>1. Len(s) \in Nat /\ here \subseteq 1 .. Len(s) /\ m \in here
  BY <1>0
<1>2. \A k \in here : s[k].value = value
  BY DEF AllSet
<1>3. Max(here) \in here
  <2> HIDE DEF here
  <2>1. PICK n \in here : \A y \in here : y <= n
    BY <1>1, HasGreatest
  <2>2. Max(here) = n
    BY <1>1, <2>1, MaxIs
  <2>3. QED
    BY <2>2
<1>4. Effective(s, key) = IF here = { } THEN "" ELSE s[Max(here)].value
  BY Zenon DEF Effective
<1>5. QED
  <2> HIDE DEF here
  <2>1. QED
    BY <1>1, <1>2, <1>3, <1>4

-----------------------------------------------------------------------------
(* /etc/default/grub *)

\* The settings are three lines, each of which assigns a key of its own.
LEMMA SettingsAre ==
  /\ DOMAIN grubFastbootSettings = 1 .. 3
  /\ \A j \in 1 .. 3 : grubFastbootSettings[j].kind = "set"
  /\ \A i, j \in 1 .. 3 : grubFastbootSettings[i].key = grubFastbootSettings[j].key => i = j
BY DEF grubFastbootSettings, Set, Line

\* Any line assigns at most one of the three keys.
LEMMA AssignedIs ==
  ASSUME NEW line
  PROVE  \/ Assigned(line) = { } /\ ~SetsGrub(line)
         \/ \E j \in 1 .. 3 : /\ Assigned(line) = { j } /\ SetsGrub(line)
                              /\ line.key = grubFastbootSettings[j].key
<1>1. Assigned(line) \subseteq 1 .. 3
      /\ \A j \in Assigned(line) : line.key = grubFastbootSettings[j].key
  BY SettingsAre DEF Assigned, Assigns
<1>2. SetsGrub(line) <=> Assigned(line) # { }
  BY Zenon DEF SetsGrub, Assigned
<1>3. QED
  BY <1>1, <1>2, SettingsAre

\* A line that sets a key of a setting, and the setting itself, assign that key.
LEMMA SetAssigns ==
  ASSUME NEW line, NEW j \in 1 .. 3, line.kind = "set", line.key = grubFastbootSettings[j].key
  PROVE  Assigned(line) = { j } /\ SetsGrub(line)
<1>1. j \in Assigned(line)
  BY SettingsAre DEF Assigned, Assigns
<1>2. QED
  BY <1>1, AssignedIs

\* A setting assigns its own key.
LEMMA SettingAssigns ==
  ASSUME NEW j \in 1 .. 3
  PROVE  Assigned(grubFastbootSettings[j]) = { j } /\ SetsGrub(grubFastbootSettings[j])
BY SettingsAre, SetAssigns

\* What setGrubFastboot makes of lines before they are written: e has a setting
\* in the place of each line that assigns its key, and at the end those that are missing.
Settles(lines, e) ==
  /\ Len(lines) <= Len(e)
  /\ \A k \in 1 .. Len(lines) :
       \/ Assigned(lines[k]) = { } /\ e[k] = lines[k]
       \/ \E j \in 1 .. 3 : Assigned(lines[k]) = { j } /\ e[k] = grubFastbootSettings[j]
  /\ \A k \in Len(lines) + 1 .. Len(e) : \E j \in 1 .. 3 : e[k] = grubFastbootSettings[j]
  /\ \A j \in 1 .. 3 : \E k \in 1 .. Len(e) : e[k] = grubFastbootSettings[j]
  /\ (\A j \in 1 .. 3 : \E k \in 1 .. Len(lines) : Assigned(lines[k]) = { j }) => Len(e) = Len(lines)

\* e is d, and line after it if j has not been found.
Adds(d, e, line, j, found) ==
  /\ Len(d) <= Len(e)
  /\ j \in found => Len(e) = Len(d)
  /\ j \notin found => \E k \in 1 .. Len(e) : e[k] = line
  /\ \A k \in 1 .. Len(d) : e[k] = d[k]
  /\ \A k \in Len(d) + 1 .. Len(e) : e[k] = line

Missing(line, j, found) == IF j \in found THEN << >> ELSE << line >>

\* A line is added if it's missing.
LEMMA MissingAdded ==
  ASSUME NEW T, NEW d \in Seq(T), NEW line \in T, NEW j, NEW found
  PROVE  \E e \in Seq(T) : e = d \o Missing(line, j, found) /\ Adds(d, e, line, j, found)
<1>1. CASE j \in found
  <2>1. d \o << >> = d
    BY ConcatEmptySeq
  <2>2. Adds(d, d, line, j, found)
    BY <1>1 DEF Adds
  <2>3. QED
    BY <1>1, <2>1, <2>2, Zenon DEF Missing
<1>2. CASE j \notin found
  <2>1. PICK e \in Seq(T) : e = Append(d, line)
    BY AppendProperties
  <2>2. d \o << line >> = e
    BY <2>1, AppendIsConcat
  <2>3. Len(e) = Len(d) + 1 /\ e[Len(d) + 1] = line /\ \A k \in 1 .. Len(d) : e[k] = d[k]
    BY <2>1, AppendProperties
  <2>4. Adds(d, e, line, j, found)
    BY <1>2, <2>3 DEF Adds
  <2>5. QED
    BY <1>2, <2>2, <2>4, Zenon DEF Missing
<1>3. QED
  BY <1>1, <1>2

\* e is d, and those of three lines after it that have not been found.
AddsAll(d, e, g1, g2, g3, found) ==
  /\ Len(d) <= Len(e)
  /\ 1 \in found /\ 2 \in found /\ 3 \in found => Len(e) = Len(d)
  /\ 1 \notin found => \E k \in 1 .. Len(e) : e[k] = g1
  /\ 2 \notin found => \E k \in 1 .. Len(e) : e[k] = g2
  /\ 3 \notin found => \E k \in 1 .. Len(e) : e[k] = g3
  /\ \A k \in 1 .. Len(d) : e[k] = d[k]
  /\ \A k \in Len(d) + 1 .. Len(e) : e[k] \in { g1, g2, g3 }

\* Three lines that may be missing.
LEMMA ThreeAdded ==
  ASSUME NEW T, NEW d \in Seq(T), NEW d1 \in Seq(T), NEW d2 \in Seq(T), NEW d3 \in Seq(T),
         NEW g1, NEW g2, NEW g3, NEW found,
         Adds(d, d1, g1, 1, found), Adds(d1, d2, g2, 2, found), Adds(d2, d3, g3, 3, found)
  PROVE  AddsAll(d, d3, g1, g2, g3, found)
<1>1. Len(d) \in Nat /\ Len(d1) \in Nat /\ Len(d2) \in Nat /\ Len(d3) \in Nat
  OBVIOUS
<1>2. Len(d) <= Len(d1) /\ Len(d1) <= Len(d2) /\ Len(d2) <= Len(d3)
  BY DEF Adds
<1>3. 1 \in found /\ 2 \in found /\ 3 \in found => Len(d3) = Len(d)
  BY DEF Adds
<1>4. /\ \A k \in 1 .. Len(d) : d1[k] = d[k]
      /\ \A k \in 1 .. Len(d1) : d2[k] = d1[k]
      /\ \A k \in 1 .. Len(d2) : d3[k] = d2[k]
      /\ \A k \in Len(d) + 1 .. Len(d1) : d1[k] = g1
      /\ \A k \in Len(d1) + 1 .. Len(d2) : d2[k] = g2
      /\ \A k \in Len(d2) + 1 .. Len(d3) : d3[k] = g3
      /\ 1 \notin found => \E k \in 1 .. Len(d1) : d1[k] = g1
      /\ 2 \notin found => \E k \in 1 .. Len(d2) : d2[k] = g2
      /\ 3 \notin found => \E k \in 1 .. Len(d3) : d3[k] = g3
  BY Zenon DEF Adds
<1>5. /\ \A k \in 1 .. Len(d) : k \in 1 .. Len(d3) /\ d3[k] = d[k]
      /\ \A k \in 1 .. Len(d1) : k \in 1 .. Len(d3) /\ d3[k] = d1[k]
      /\ \A k \in 1 .. Len(d2) : k \in 1 .. Len(d3) /\ d3[k] = d2[k]
  BY <1>1, <1>2, <1>4
<1>6. \A k \in Len(d) + 1 .. Len(d3) : d3[k] \in { g1, g2, g3 }
  <2>1. ASSUME NEW k \in Len(d) + 1 .. Len(d3)
        PROVE  \/ k \in Len(d) + 1 .. Len(d1) /\ k \in 1 .. Len(d1)
               \/ k \in Len(d1) + 1 .. Len(d2) /\ k \in 1 .. Len(d2)
               \/ k \in Len(d2) + 1 .. Len(d3)
    BY <1>1, <1>2
  <2>2. QED
    BY <1>4, <1>5, <2>1, Zenon
<1>7. Len(d) <= Len(d3)
  BY <1>1, <1>2
<1>8. QED
  BY <1>3, <1>4, <1>5, <1>6, <1>7, Zenon DEF AddsAll

\* What setGrubFastboot does with one line.
Replaced(line) ==
  IF Assigned(line) = { } THEN line
  ELSE grubFastbootSettings[CHOOSE j \in Assigned(line) : TRUE]

\* A line is kept, or replaced by the setting it assigns.
LEMMA ReplacedIs ==
  ASSUME NEW line
  PROVE  \/ Assigned(line) = { } /\ Replaced(line) = line
         \/ \E j \in 1 .. 3 : Assigned(line) = { j } /\ Replaced(line) = grubFastbootSettings[j]
<1>1. CASE Assigned(line) = { }
  BY <1>1 DEF Replaced
<1>2. ASSUME NEW j \in 1 .. 3, Assigned(line) = { j }
      PROVE  Replaced(line) = grubFastbootSettings[j]
  <2>1. (CHOOSE i \in { j } : TRUE) = j
    BY Zenon
  <2>2. Assigned(line) # { }
    BY <1>2
  <2>3. QED
    BY <1>2, <2>1, <2>2, Zenon DEF Replaced
<1>3. QED
  BY <1>1, <1>2, AssignedIs

\* The lines that setGrubFastboot writes.
LEMMA SetGrubIs ==
  ASSUME NEW T, \A j \in 1 .. 3 : grubFastbootSettings[j] \in T, NEW lines \in Seq(T)
  PROVE  \E e \in Seq(T) : Settles(lines, e) /\ setGrubFastboot(lines) = writeFile(e)
<1>1. PICK found, d : /\ found = UNION { Assigned(lines[k]) : k \in DOMAIN lines }
                      /\ d = [k \in DOMAIN lines |-> Replaced(lines[k])]
  OBVIOUS
<1>2. PICK g1, g2, g3 :
        g1 = grubFastbootSettings[1] /\ g2 = grubFastbootSettings[2] /\ g3 = grubFastbootSettings[3]
  OBVIOUS
<1>3. setGrubFastboot(lines) =
        writeFile(d \o Missing(g1, 1, found)
                    \o Missing(g2, 2, found)
                    \o Missing(g3, 3, found))
  BY <1>1, <1>2, Zenon DEF setGrubFastboot, Replaced, Missing
<1>4. d \in Seq(T) /\ Len(d) = Len(lines) /\ \A k \in 1 .. Len(lines) : d[k] = Replaced(lines[k])
  <2>1. \A k \in 1 .. Len(lines) : lines[k] \in T
    OBVIOUS
  <2>2. \A k \in 1 .. Len(lines) : Replaced(lines[k]) \in T
    BY <2>1, ReplacedIs
  <2>3. QED
    BY <1>1, <2>2
<1>5. g1 \in T /\ g2 \in T /\ g3 \in T
  BY <1>2
<1>6. PICK d1 \in Seq(T) : d1 = d \o Missing(g1, 1, found) /\ Adds(d, d1, g1, 1, found)
  BY <1>4, <1>5, MissingAdded
<1>7. PICK d2 \in Seq(T) : d2 = d1 \o Missing(g2, 2, found) /\ Adds(d1, d2, g2, 2, found)
  BY <1>5, MissingAdded
<1>8. PICK d3 \in Seq(T) : d3 = d2 \o Missing(g3, 3, found) /\ Adds(d2, d3, g3, 3, found)
  BY <1>5, MissingAdded
<1>9. setGrubFastboot(lines) = writeFile(d3)
  BY <1>3, <1>6, <1>7, <1>8, Zenon
<1>10. \A j \in 1 .. 3 : j \in found <=> \E k \in 1 .. Len(lines) : Assigned(lines[k]) = { j }
  <2>1. \A j : j \in found <=> \E k \in 1 .. Len(lines) : j \in Assigned(lines[k])
    <3>1. DOMAIN lines = 1 .. Len(lines)
      OBVIOUS
    <3>2. QED
      BY <1>1, <3>1, Zenon
  <2>2. \A j, line : j \in Assigned(line) <=> Assigned(line) = { j }
    BY AssignedIs
  <2>3. QED
    BY <2>1, <2>2, Zenon
<1>11. /\ Len(d) <= Len(d3)
       /\ 1 \in found /\ 2 \in found /\ 3 \in found => Len(d3) = Len(d)
       /\ 1 \notin found => \E k \in 1 .. Len(d3) : d3[k] = g1
       /\ 2 \notin found => \E k \in 1 .. Len(d3) : d3[k] = g2
       /\ 3 \notin found => \E k \in 1 .. Len(d3) : d3[k] = g3
       /\ \A k \in 1 .. Len(d) : d3[k] = d[k]
       /\ \A k \in Len(d) + 1 .. Len(d3) : d3[k] \in { g1, g2, g3 }
  <2>1. AddsAll(d, d3, g1, g2, g3, found)
    BY <1>4, <1>6, <1>7, <1>8, ThreeAdded
  <2>2. QED
    BY <2>1, Zenon DEF AddsAll
<1>12. \A k \in 1 .. Len(lines) :
         \/ Assigned(lines[k]) = { } /\ d3[k] = lines[k]
         \/ \E j \in 1 .. 3 : Assigned(lines[k]) = { j } /\ d3[k] = grubFastbootSettings[j]
  <2>1. \A k \in 1 .. Len(lines) : d3[k] = Replaced(lines[k])
    BY <1>4, <1>11
  <2>2. QED
    BY <2>1, ReplacedIs, Zenon
<1>13. \A k \in Len(lines) + 1 .. Len(d3) : \E j \in 1 .. 3 : d3[k] = grubFastbootSettings[j]
  <2>1. \A k \in Len(lines) + 1 .. Len(d3) : d3[k] \in { g1, g2, g3 }
    BY <1>4, <1>11
  <2>2. 1 \in 1 .. 3 /\ 2 \in 1 .. 3 /\ 3 \in 1 .. 3
    OBVIOUS
  <2>3. QED
    BY <1>2, <2>1, <2>2, Zenon
<1>14. \A j \in 1 .. 3 : \E k \in 1 .. Len(d3) : d3[k] = grubFastbootSettings[j]
  <2>1. ASSUME NEW j \in 1 .. 3, j \in found
        PROVE  \E k \in 1 .. Len(d3) : d3[k] = grubFastbootSettings[j]
    <3>1. PICK k \in 1 .. Len(lines) : Assigned(lines[k]) = { j }
      BY <1>10, <2>1
    <3>2. Assigned(lines[k]) # { }
      BY <3>1
    <3>3. PICK i \in 1 .. 3 : Assigned(lines[k]) = { i } /\ d3[k] = grubFastbootSettings[i]
      BY <1>12, <3>2
    <3>4. i = j
      BY <3>1, <3>3
    <3>5. k \in 1 .. Len(d3)
      BY <1>4, <1>11
    <3>6. QED
      BY <3>3, <3>4, <3>5
  <2>2. ASSUME NEW j \in 1 .. 3, j \notin found
        PROVE  \E k \in 1 .. Len(d3) : d3[k] = grubFastbootSettings[j]
    <3>1. j = 1 \/ j = 2 \/ j = 3
      OBVIOUS
    <3>2. QED
      BY <1>2, <1>11, <2>2, <3>1, Zenon
  <2>3. QED
    BY <2>1, <2>2
<1>15. (\A j \in 1 .. 3 : \E k \in 1 .. Len(lines) : Assigned(lines[k]) = { j }) => Len(d3) = Len(lines)
  <2>1. 1 \in 1 .. 3 /\ 2 \in 1 .. 3 /\ 3 \in 1 .. 3
    OBVIOUS
  <2>2. QED
    BY <1>4, <1>10, <1>11, <2>1, Zenon
<1>16. Settles(lines, d3)
  BY <1>4, <1>11, <1>12, <1>13, <1>14, <1>15, Zenon DEF Settles
<1>17. QED
  BY <1>9, <1>16

\* A file in which exactly the settings assign their keys.
Settled(x) ==
  /\ \A k \in 1 .. Len(x) :
       \/ Assigned(x[k]) = { }
       \/ \E j \in 1 .. 3 : Assigned(x[k]) = { j } /\ x[k] = grubFastbootSettings[j]
  /\ \A j \in 1 .. 3 : \E k \in 1 .. Len(x) : x[k] = grubFastbootSettings[j]

\* The lines that setGrubFastboot writes are settled.
LEMMA SettlesIsSettled ==
  ASSUME NEW T, NEW lines \in Seq(T), NEW e \in Seq(T), Settles(lines, e)
  PROVE  Settled(e)
<1>1. ASSUME NEW k \in 1 .. Len(e)
      PROVE  \/ Assigned(e[k]) = { }
             \/ \E j \in 1 .. 3 : Assigned(e[k]) = { j } /\ e[k] = grubFastbootSettings[j]
  <2>1. k \in 1 .. Len(lines) \/ k \in Len(lines) + 1 .. Len(e)
    OBVIOUS
  <2>2. \/ Assigned(lines[k]) = { } /\ e[k] = lines[k]
        \/ \E j \in 1 .. 3 : e[k] = grubFastbootSettings[j]
    BY <2>1, Zenon DEF Settles
  <2>3. QED
    BY <2>2, SettingAssigns, Zenon
<1>2. QED
  BY <1>1, Zenon DEF Settled, Settles

\* A blank line assigns nothing.
LEMMA BlankAssigns ==
  ASSUME NEW line, line.kind = "blank"
  PROVE  Assigned(line) = { } /\ ~SetsGrub(line)
BY DEF Assigned, SetsGrub, Assigns

\* So is the file that is written of them.
LEMMA WrittenIsSettled ==
  ASSUME NEW T, Blank \in T, NEW e \in Seq(T), Settled(e)
  PROVE  /\ writeFile(e) \in Seq(T) /\ Settled(writeFile(e))
         /\ writeFile(writeFile(e)) = writeFile(e)
<1>1. PICK m \in 1 .. Len(e) : e[m] = grubFastbootSettings[1]
  <2>1. 1 \in 1 .. 3
    OBVIOUS
  <2>2. QED
    BY <2>1, Zenon DEF Settled
<1>2. e[m].kind # "blank"
  BY <1>1, SettingsAre
<1>3. PICK x, n : /\ x = writeFile(e) /\ n \in m .. Len(e) /\ x \in Seq(T) /\ Len(x) = n + 1
                  /\ \A k \in 1 .. n : x[k] = e[k]
                  /\ x[n + 1] = Blank
                  /\ \A k \in n + 1 .. Len(e) : e[k].kind = "blank"
                  /\ writeFile(x) = x
  BY <1>2, WriteIs, Zenon
<1>4. ASSUME NEW k \in 1 .. Len(x)
      PROVE  \/ Assigned(x[k]) = { }
             \/ \E j \in 1 .. 3 : Assigned(x[k]) = { j } /\ x[k] = grubFastbootSettings[j]
  <2>1. CASE k \in 1 .. n
    <3>1. x[k] = e[k] /\ k \in 1 .. Len(e)
      BY <1>3, <2>1
    <3>2. QED
      BY <3>1, Zenon DEF Settled
  <2>2. CASE k = n + 1
    BY <1>3, <2>2, BlankIs, BlankAssigns
  <2>3. QED
    BY <1>3, <2>1, <2>2
<1>5. ASSUME NEW j \in 1 .. 3
      PROVE  \E k \in 1 .. Len(x) : x[k] = grubFastbootSettings[j]
  <2>1. PICK k \in 1 .. Len(e) : e[k] = grubFastbootSettings[j]
    BY Zenon DEF Settled
  <2>2. e[k].kind # "blank"
    BY <2>1, SettingsAre
  <2>3. k \in 1 .. n
    BY <1>3, <2>2
  <2>4. k \in 1 .. Len(x) /\ x[k] = e[k]
    BY <1>3, <2>3
  <2>5. QED
    BY <2>1, <2>4
<1>6. QED
  BY <1>3, <1>4, <1>5, Zenon DEF Settled

\* In a settled file the settings are in effect.
LEMMA SettledEffective ==
  ASSUME NEW T, NEW x \in Seq(T), Settled(x), NEW j \in 1 .. 3
  PROVE  Effective(x, grubFastbootSettings[j].key) = grubFastbootSettings[j].value
<1>1. PICK m \in 1 .. Len(x) : x[m] = grubFastbootSettings[j]
  BY Zenon DEF Settled
<1>2. x[m].kind = "set" /\ x[m].key = grubFastbootSettings[j].key
  BY <1>1, SettingsAre
<1>3. ASSUME NEW k \in 1 .. Len(x), x[k].kind = "set", x[k].key = grubFastbootSettings[j].key
      PROVE  x[k].value = grubFastbootSettings[j].value
  <2>1. Assigned(x[k]) = { j }
    BY <1>3, SetAssigns
  <2>2. PICK i \in 1 .. 3 : Assigned(x[k]) = { i } /\ x[k] = grubFastbootSettings[i]
    <3>1. Assigned(x[k]) # { }
      BY <2>1
    <3>2. QED
      BY <3>1, Zenon DEF Settled
  <2>3. i = j
    BY <2>1, <2>2
  <2>4. QED
    BY <2>2, <2>3
<1>4. PICK key, value : key = grubFastbootSettings[j].key /\ value = grubFastbootSettings[j].value
  OBVIOUS
<1>5. AllSet(x, key, value)
  BY <1>2, <1>3, <1>4 DEF AllSet
<1>6. Effective(x, key) = value
  BY <1>5, EffectiveIs
<1>7. QED
  BY <1>4, <1>6

\* In a settled file nothing is to be settled.
LEMMA SettledAgain ==
  ASSUME NEW T, NEW x \in Seq(T), NEW e \in Seq(T), Settled(x), Settles(x, e)
  PROVE  e = x
<1>1. \A j \in 1 .. 3 : \E k \in 1 .. Len(x) : Assigned(x[k]) = { j }
  BY SettingAssigns, Zenon DEF Settled
<1>2. Len(e) = Len(x)
  BY <1>1, Zenon DEF Settles
<1>3. ASSUME NEW k \in 1 .. Len(x) PROVE e[k] = x[k]
  <2>1. CASE Assigned(x[k]) = { }
    BY <2>1 DEF Settles
  <2>2. ASSUME NEW j \in 1 .. 3, Assigned(x[k]) = { j } PROVE e[k] = x[k]
    <3>1. Assigned(x[k]) # { } /\ \A i : Assigned(x[k]) = { i } => i = j
      BY <2>2
    <3>2. x[k] = grubFastbootSettings[j]
      BY <2>2, <3>1, Zenon DEF Settled
    <3>3. e[k] = grubFastbootSettings[j]
      BY <2>2, <3>1, Zenon DEF Settles
    <3>4. QED
      BY <3>2, <3>3
  <2>3. QED
    BY <2>1, <2>2, AssignedIs
<1>4. QED
  BY <1>2, <1>3, SeqEqual

\* The other lines, one after another.
KeepUnlessSet(kept, line) ==
  IF line.kind = "blank" \/ SetsGrub(line) THEN kept ELSE Append(kept, line)

O == INSTANCE FoldProofs WITH Step <- KeepUnlessSet, Base <- << >>

\* Two files have the same other lines if they agree in their first n lines, but
\* for blanks and lines that are edited, and have no others after them.
LEMMA OthersAgree ==
  ASSUME NEW T, NEW s \in Seq(T), NEW t \in Seq(T), NEW n \in Nat, n <= Len(s), n <= Len(t),
         \A k \in 1 .. n : s[k] = t[k] \/ (SetsGrub(s[k]) /\ SetsGrub(t[k])),
         \A k \in n + 1 .. Len(s) : s[k].kind = "blank" \/ SetsGrub(s[k]),
         \A k \in n + 1 .. Len(t) : t[k].kind = "blank" \/ SetsGrub(t[k])
  PROVE  Others(s, SetsGrub) = Others(t, SetsGrub)
<1>1. ASSUME NEW u, NEW m \in Nat, DOMAIN u = 1 .. m
      PROVE  Others(u, SetsGrub) = O!Folded(u, m)
  BY <1>1, Zenon DEF Others, KeepUnlessSet, FoldLeft, MapThenFoldSet, Max, O!Folded, O!Iter, O!Greatest
<1>2. \A line : line.kind = "blank" \/ SetsGrub(line) => \A kept : KeepUnlessSet(kept, line) = kept
  BY DEF KeepUnlessSet
<1>3. PICK l, m \in Nat : l = Len(s) /\ m = Len(t)
  OBVIOUS
<1>4. O!Folded(s, l) = O!Folded(s, n)
  <2>1. \A k \in n + 1 .. l : \A kept : KeepUnlessSet(kept, s[k]) = kept
    BY <1>2, <1>3
  <2>2. QED
    BY <1>3, <2>1, O!FoldNeutral
<1>5. O!Folded(t, m) = O!Folded(t, n)
  <2>1. \A k \in n + 1 .. m : \A kept : KeepUnlessSet(kept, t[k]) = kept
    BY <1>2, <1>3
  <2>2. QED
    BY <1>3, <2>1, O!FoldNeutral
<1>6. O!Folded(s, n) = O!Folded(t, n)
  <2>1. \A k \in 1 .. n :
          s[k] = t[k] \/ \A kept : KeepUnlessSet(kept, s[k]) = kept /\ KeepUnlessSet(kept, t[k]) = kept
    BY <1>2
  <2>2. QED
    BY <2>1, O!FoldSimilar
<1>7. DOMAIN s = 1 .. l /\ DOMAIN t = 1 .. m
  BY <1>3
<1>8. QED
  BY <1>1, <1>3, <1>4, <1>5, <1>6, <1>7

\* bootloader.go:72-82: whatever lines /etc/default/grub has, and however many, it's
\* edited as EditedInPlace says.
THEOREM GrubEdited ==
  ASSUME NEW T, Blank \in T, \A j \in 1 .. 3 : grubFastbootSettings[j] \in T, NEW lines \in Seq(T)
  PROVE  LET edited == setGrubFastboot(lines)
         IN  /\ \A j \in DOMAIN grubFastbootSettings :
                  Effective(edited, grubFastbootSettings[j].key) = grubFastbootSettings[j].value
             /\ Others(edited, SetsGrub) = Others(lines, SetsGrub)
             /\ setGrubFastboot(edited) = edited
<1>1. PICK e \in Seq(T) : Settles(lines, e) /\ setGrubFastboot(lines) = writeFile(e)
  BY SetGrubIs
<1>2. Settled(e)
  BY <1>1, SettlesIsSettled
<1>3. PICK x \in Seq(T) : x = writeFile(e) /\ Settled(x) /\ writeFile(x) = x
  BY <1>2, WrittenIsSettled
<1>4. \A j \in DOMAIN grubFastbootSettings :
        Effective(x, grubFastbootSettings[j].key) = grubFastbootSettings[j].value
  BY <1>3, SettingsAre, SettledEffective
<1>5. setGrubFastboot(x) = x
  <2>1. PICK y \in Seq(T) : Settles(x, y) /\ setGrubFastboot(x) = writeFile(y)
    BY SetGrubIs
  <2>2. y = x
    BY <1>3, <2>1, SettledAgain
  <2>3. QED
    BY <1>3, <2>1, <2>2
<1>6. Others(e, SetsGrub) = Others(lines, SetsGrub)
  <2>1. Len(lines) \in Nat /\ Len(lines) <= Len(lines) /\ Len(lines) <= Len(e)
    BY <1>1 DEF Settles
  <2>2. \A k \in 1 .. Len(lines) : e[k] = lines[k] \/ (SetsGrub(e[k]) /\ SetsGrub(lines[k]))
    <3>1. ASSUME NEW k \in 1 .. Len(lines), NEW j \in 1 .. 3, Assigned(lines[k]) = { j },
                 e[k] = grubFastbootSettings[j]
          PROVE  SetsGrub(e[k]) /\ SetsGrub(lines[k])
      BY <3>1, SettingAssigns, AssignedIs
    <3>2. QED
      BY <1>1, <3>1, Zenon DEF Settles
  <2>3. \A k \in Len(lines) + 1 .. Len(e) : SetsGrub(e[k])
    BY <1>1, SettingAssigns, Zenon DEF Settles
  <2>4. \A k \in Len(lines) + 1 .. Len(lines) : FALSE
    OBVIOUS
  <2>5. QED
    BY <2>1, <2>2, <2>3, <2>4, OthersAgree
<1>7. Others(x, SetsGrub) = Others(e, SetsGrub)
  <2>1. PICK m \in 1 .. Len(e) : e[m] = grubFastbootSettings[1]
    <3>1. 1 \in 1 .. 3
      OBVIOUS
    <3>2. QED
      BY <1>2, <3>1, Zenon DEF Settled
  <2>2. e[m].kind # "blank"
    BY <2>1, SettingsAre
  <2>3. PICK n \in m .. Len(e) : /\ Len(x) = n + 1 /\ \A k \in 1 .. n : x[k] = e[k]
                                 /\ x[n + 1] = Blank
                                 /\ \A k \in n + 1 .. Len(e) : e[k].kind = "blank"
    <3>1. \E n \in m .. Len(e) : /\ Len(writeFile(e)) = n + 1 /\ \A k \in 1 .. n : writeFile(e)[k] = e[k]
                                 /\ writeFile(e)[n + 1] = Blank
                                 /\ \A k \in n + 1 .. Len(e) : e[k].kind = "blank"
      BY <2>2, WriteIs, Zenon
    <3>2. QED
      BY <1>3, <3>1
  <2>4. n \in Nat /\ n <= Len(x) /\ n <= Len(e)
    BY <2>3
  <2>5. \A k \in n + 1 .. Len(x) : x[k].kind = "blank" \/ SetsGrub(x[k])
    BY <2>3, BlankIs
  <2>6. \A k \in 1 .. n : x[k] = e[k] \/ (SetsGrub(x[k]) /\ SetsGrub(e[k]))
    BY <2>3
  <2>7. \A k \in n + 1 .. Len(e) : e[k].kind = "blank" \/ SetsGrub(e[k])
    BY <2>3
  <2>8. QED
    BY <2>4, <2>5, <2>6, <2>7, OthersAgree
<1>8. QED
  BY <1>1, <1>3, <1>4, <1>5, <1>6, <1>7

-----------------------------------------------------------------------------
(* .bashrc *)

\* The line of the prompt sets it.
LEMMA PromptIs ==
  /\ bashPromptLine.kind = "set" /\ bashPromptLine.key = "PS1" /\ bashPromptLine.value = "prompt"
  /\ IsPS1(bashPromptLine) /\ ~IsPS1(Blank)
BY DEF bashPromptLine, IsPS1, Set, Line, Blank

\* A .bashrc without a prompt is replaced by the template.
LEMMA TemplateIsWritten == writeFile(bashrcTemplate) = Append(bashrcTemplate, Blank)
<1>1. PICK a, b, c, d : /\ a = Other("interactive") /\ b = Blank /\ c = Other("alias")
                        /\ d = bashPromptLine /\ bashrcTemplate = << a, b, c, d >>
  BY DEF bashrcTemplate
<1>2. PICK T : T = { a, b, c, d }
  OBVIOUS
<1>3. PICK t \in Seq(T) : t = << a, b, c, d >>
  <2>1. a \in T /\ b \in T /\ c \in T /\ d \in T
    BY <1>2
  <2>2. << a, b, c, d >> \in Seq(T)
    BY <2>1
  <2>3. QED
    BY <2>2, Zenon
<1>4. Len(t) \in 1 .. Len(t) /\ t[Len(t)] = d
  BY <1>3
<1>5. t[Len(t)].kind # "blank" /\ \A k \in Len(t) + 1 .. Len(t) : t[k].kind = "blank"
  BY <1>1, <1>4, PromptIs
<1>6. writeFile(t) = Append(SubSeq(t, 1, Len(t)), Blank)
  BY <1>4, <1>5, WriteAt
<1>7. QED
  BY <1>1, <1>3, <1>6, SubSeqFull

\* Without a line that sets it, the prompt has no value; with one, its value is that
\* of such a line.
LEMMA PromptFrom ==
  ASSUME NEW T, NEW s \in Seq(T)
  PROVE  \/ Effective(s, "PS1") = "" /\ \A k \in 1 .. Len(s) : ~IsPS1(s[k])
         \/ \E k \in 1 .. Len(s) : IsPS1(s[k]) /\ Effective(s, "PS1") = s[k].value
<1> DEFINE here == { k \in DOMAIN s : s[k].kind = "set" /\ s[k].key = "PS1" }
<1>1. Len(s) \in Nat /\ here \subseteq 1 .. Len(s)
  OBVIOUS
<1>2. Effective(s, "PS1") = IF here = { } THEN "" ELSE s[Max(here)].value
  BY Zenon DEF Effective
<1>3. \A k \in 1 .. Len(s) : IsPS1(s[k]) <=> k \in here
  BY DEF IsPS1
<1> HIDE DEF here
<1>4. CASE here = { }
  BY <1>2, <1>3, <1>4
<1>5. CASE here # { }
  <2>1. Max(here) \in here
    <3>1. PICK n \in here : \A y \in here : y <= n
      BY <1>1, <1>5, HasGreatest
    <3>2. Max(here) = n
      BY <1>1, <3>1, MaxIs
    <3>3. QED
      BY <3>2
  <2>2. QED
    BY <1>1, <1>2, <1>3, <1>5, <2>1
<1>6. QED
  BY <1>4, <1>5

\* The lines of a .bashrc with the prompt in it.
Prompted(lines) == [k \in DOMAIN lines |-> IF IsPS1(lines[k]) THEN bashPromptLine ELSE lines[k]]

\* What is in them.
LEMMA PromptedIs ==
  ASSUME NEW T, bashPromptLine \in T, NEW lines \in Seq(T)
  PROVE  /\ Prompted(lines) \in Seq(T) /\ Len(Prompted(lines)) = Len(lines)
         /\ \A k \in 1 .. Len(lines) :
              Prompted(lines)[k] = IF IsPS1(lines[k]) THEN bashPromptLine ELSE lines[k]
<1>1. Prompted(lines) = [k \in 1 .. Len(lines) |-> IF IsPS1(lines[k]) THEN bashPromptLine ELSE lines[k]]
  BY DEF Prompted
<1>2. \A k \in 1 .. Len(lines) : (IF IsPS1(lines[k]) THEN bashPromptLine ELSE lines[k]) \in T
  OBVIOUS
<1>3. QED
  BY <1>1, <1>2

\* The other lines, one after another.
KeepUnlessPS1(kept, line) ==
  IF line.kind = "blank" \/ IsPS1(line) THEN kept ELSE Append(kept, line)

B == INSTANCE FoldProofs WITH Step <- KeepUnlessPS1, Base <- << >>

\* OthersAgree, of the lines that setBashPrompt edits.
LEMMA OthersAgreeBash ==
  ASSUME NEW T, NEW s \in Seq(T), NEW t \in Seq(T), NEW n \in Nat, n <= Len(s), n <= Len(t),
         \A k \in 1 .. n : s[k] = t[k] \/ (IsPS1(s[k]) /\ IsPS1(t[k])),
         \A k \in n + 1 .. Len(s) : s[k].kind = "blank" \/ IsPS1(s[k]),
         \A k \in n + 1 .. Len(t) : t[k].kind = "blank" \/ IsPS1(t[k])
  PROVE  Others(s, IsPS1) = Others(t, IsPS1)
<1>1. ASSUME NEW u, NEW m \in Nat, DOMAIN u = 1 .. m
      PROVE  Others(u, IsPS1) = B!Folded(u, m)
  BY <1>1, Zenon DEF Others, KeepUnlessPS1, FoldLeft, MapThenFoldSet, Max, B!Folded, B!Iter, B!Greatest
<1>2. \A line : line.kind = "blank" \/ IsPS1(line) => \A kept : KeepUnlessPS1(kept, line) = kept
  BY DEF KeepUnlessPS1
<1>3. PICK l, m \in Nat : l = Len(s) /\ m = Len(t)
  OBVIOUS
<1>4. B!Folded(s, l) = B!Folded(s, n)
  <2>1. \A k \in n + 1 .. l : \A kept : KeepUnlessPS1(kept, s[k]) = kept
    BY <1>2, <1>3
  <2>2. QED
    BY <1>3, <2>1, B!FoldNeutral
<1>5. B!Folded(t, m) = B!Folded(t, n)
  <2>1. \A k \in n + 1 .. m : \A kept : KeepUnlessPS1(kept, t[k]) = kept
    BY <1>2, <1>3
  <2>2. QED
    BY <1>3, <2>1, B!FoldNeutral
<1>6. B!Folded(s, n) = B!Folded(t, n)
  <2>1. \A k \in 1 .. n :
          s[k] = t[k] \/ \A kept : KeepUnlessPS1(kept, s[k]) = kept /\ KeepUnlessPS1(kept, t[k]) = kept
    BY <1>2
  <2>2. QED
    BY <2>1, B!FoldSimilar
<1>7. DOMAIN s = 1 .. l /\ DOMAIN t = 1 .. m
  BY <1>3
<1>8. QED
  BY <1>1, <1>3, <1>4, <1>5, <1>6, <1>7

\* Lines that set the prompt have a value.
PromptsHaveValues(T) == \A line \in T : IsPS1(line) => line.value # ""

\* bashprompt.go:50-52: whatever lines .bashrc has, and however many, it's edited as
\* EditedInPlace says.
THEOREM BashrcEdited ==
  ASSUME NEW T, Blank \in T, bashPromptLine \in T, PromptsHaveValues(T),
         NEW lines \in Seq(T)
  PROVE  LET edited == setBashPrompt(lines)
         IN  IF Effective(lines, "PS1") = "" THEN edited = Append(bashrcTemplate, Blank)
             ELSE /\ Effective(edited, "PS1") = "prompt"
                  /\ Others(edited, IsPS1) = Others(lines, IsPS1)
                  /\ setBashPrompt(edited) = edited
<1>1. Effective(lines, "PS1") = "" <=> \A k \in 1 .. Len(lines) : ~IsPS1(lines[k])
  <2>1. CASE \A k \in 1 .. Len(lines) : ~IsPS1(lines[k])
    BY <2>1, PromptFrom
  <2>2. ASSUME NEW m \in 1 .. Len(lines), IsPS1(lines[m])
        PROVE  Effective(lines, "PS1") # ""
    <3>1. PICK k \in 1 .. Len(lines) : IsPS1(lines[k]) /\ Effective(lines, "PS1") = lines[k].value
      BY <2>2, PromptFrom
    <3>2. lines[k] \in T
      OBVIOUS
    <3>3. QED
      BY <3>1, <3>2 DEF PromptsHaveValues
  <2>3. QED
    BY <2>1, <2>2
<1>2. CASE \A k \in 1 .. Len(lines) : ~IsPS1(lines[k])
  <2>1. ~ \E k \in DOMAIN lines : IsPS1(lines[k])
    BY <1>2
  <2>2. setBashPrompt(lines) = writeFile(bashrcTemplate)
    BY <2>1, Zenon DEF setBashPrompt
  <2>3. QED
    BY <1>1, <1>2, <2>2, TemplateIsWritten
<1>3. ASSUME NEW m \in 1 .. Len(lines), IsPS1(lines[m])
      PROVE  LET edited == setBashPrompt(lines)
             IN  /\ Effective(edited, "PS1") = "prompt"
                 /\ Others(edited, IsPS1) = Others(lines, IsPS1)
                 /\ setBashPrompt(edited) = edited
  <2>1. PICK e \in Seq(T) : e = Prompted(lines)
    BY PromptedIs
  <2>2. /\ Len(e) = Len(lines)
        /\ \A k \in 1 .. Len(lines) : e[k] = IF IsPS1(lines[k]) THEN bashPromptLine ELSE lines[k]
    BY <2>1, PromptedIs
  <2>3. setBashPrompt(lines) = writeFile(e)
    <3>1. m \in DOMAIN lines
      OBVIOUS
    <3>2. QED
      BY <1>3, <2>1, <3>1, Zenon DEF setBashPrompt, Prompted
  <2>4. m \in 1 .. Len(e) /\ e[m] = bashPromptLine /\ e[m].kind # "blank"
    BY <1>3, <2>2, PromptIs
  <2>5. PICK x \in Seq(T) : x = writeFile(e)
    BY <2>4, WriteIs
  <2>6. PICK n \in m .. Len(e) : /\ Len(x) = n + 1 /\ \A k \in 1 .. n : x[k] = e[k]
                                 /\ x[n + 1] = Blank
                                 /\ \A k \in n + 1 .. Len(e) : e[k].kind = "blank"
                                 /\ writeFile(x) = x
    <3>1. \E n \in m .. Len(e) : /\ Len(writeFile(e)) = n + 1 /\ \A k \in 1 .. n : writeFile(e)[k] = e[k]
                                 /\ writeFile(e)[n + 1] = Blank
                                 /\ \A k \in n + 1 .. Len(e) : e[k].kind = "blank"
                                 /\ writeFile(writeFile(e)) = writeFile(e)
      BY <2>4, WriteIs, Zenon
    <3>2. QED
      BY <2>5, <3>1
  <2>7. m \in 1 .. Len(x) /\ x[m] = bashPromptLine
    BY <2>4, <2>6
  <2>8. ASSUME NEW k \in 1 .. Len(x), IsPS1(x[k])
        PROVE  x[k] = bashPromptLine
    <3>1. k \in 1 .. n
      BY <2>6, <2>8, PromptIs
    <3>2. x[k] = e[k] /\ k \in 1 .. Len(lines)
      BY <2>2, <2>6, <3>1
    <3>3. QED
      BY <2>2, <2>8, <3>2
  <2>9. Effective(x, "PS1") = "prompt"
    <3>1. \E k \in 1 .. Len(x) : x[k].kind = "set" /\ x[k].key = "PS1"
      BY <2>7, PromptIs
    <3>2. \A k \in 1 .. Len(x) : x[k].kind = "set" /\ x[k].key = "PS1" => x[k].value = "prompt"
      BY <2>8, PromptIs DEF IsPS1
    <3>3. AllSet(x, "PS1", "prompt")
      BY <3>1, <3>2, Zenon DEF AllSet
    <3>4. QED
      BY <3>3, EffectiveIs
  <2>10. setBashPrompt(x) = x
    <3>1. IsPS1(x[m])
      BY <2>7, PromptIs
    <3>2. setBashPrompt(x) = writeFile(Prompted(x))
      <4>1. m \in DOMAIN x
        BY <2>7
      <4>2. QED
        BY <3>1, <4>1, Zenon DEF setBashPrompt, Prompted
    <3>3. PICK y \in Seq(T) : y = Prompted(x)
      BY PromptedIs
    <3>4. Len(y) = Len(x) /\ \A k \in 1 .. Len(x) : y[k] = x[k]
      BY <2>8, <3>3, PromptedIs
    <3>5. y = x
      BY <3>4, SeqEqual
    <3>6. QED
      BY <2>6, <3>2, <3>3, <3>5
  <2>11. Others(e, IsPS1) = Others(lines, IsPS1)
    <3>1. \A k \in 1 .. Len(lines) : e[k] = lines[k] \/ (IsPS1(e[k]) /\ IsPS1(lines[k]))
      BY <2>2, PromptIs
    <3>2. Len(lines) \in Nat /\ Len(lines) <= Len(lines) /\ Len(lines) <= Len(e)
      BY <2>2
    <3>3. /\ \A k \in Len(lines) + 1 .. Len(lines) : FALSE
          /\ \A k \in Len(lines) + 1 .. Len(e) : FALSE
      BY <2>2
    <3>4. QED
      BY <3>1, <3>2, <3>3, OthersAgreeBash
  <2>12. Others(x, IsPS1) = Others(e, IsPS1)
    <3>1. n \in Nat /\ n <= Len(x) /\ n <= Len(e)
      BY <2>6
    <3>2. \A k \in n + 1 .. Len(x) : x[k].kind = "blank" \/ IsPS1(x[k])
      BY <2>6, BlankIs
    <3>3. \A k \in 1 .. n : x[k] = e[k] \/ (IsPS1(x[k]) /\ IsPS1(e[k]))
      BY <2>6
    <3>4. \A k \in n + 1 .. Len(e) : e[k].kind = "blank" \/ IsPS1(e[k])
      BY <2>6
    <3>5. QED
      BY <3>1, <3>2, <3>3, <3>4, OthersAgreeBash
  <2>13. QED
    BY <2>3, <2>5, <2>9, <2>10, <2>11, <2>12
<1>4. QED
  BY <1>1, <1>2, <1>3

-----------------------------------------------------------------------------
(* Powers of two *)

\* f is Pow2, of the numbers up to n.
PowersUpTo(f, n) == f = [k \in 0 .. n |-> IF k = 0 THEN 1 ELSE 2 * f[k - 1]]

\* There are powers of two up to n.
LEMMA PowersExist ==
  ASSUME NEW n \in Nat
  PROVE  \E f : PowersUpTo(f, n)
<1> DEFINE G == { m \in Nat : \E f : PowersUpTo(f, m) }
<1>1. 0 \in G
  <2>1. PowersUpTo([k \in 0 .. 0 |-> 1], 0)
    BY DEF PowersUpTo
  <2>2. QED
    BY <2>1
<1>2. ASSUME NEW m \in 1 .. n, m - 1 \in G PROVE m \in G
  <2>1. PICK g : PowersUpTo(g, m - 1)
    BY <1>2
  <2>2. \A k \in 0 .. m - 1 : g[k] = IF k = 0 THEN 1 ELSE 2 * g[k - 1]
    BY <2>1, Zenon DEF PowersUpTo
  <2> DEFINE f == [k \in 0 .. m |-> IF k = m THEN 2 * g[m - 1] ELSE g[k]]
  <2>3. ASSUME NEW k \in 0 .. m PROVE f[k] = IF k = 0 THEN 1 ELSE 2 * f[k - 1]
    BY <2>2
  <2>4. PowersUpTo(f, m)
    BY <2>3 DEF PowersUpTo
  <2>5. QED
    BY <2>4
<1>3. n \in G
  <2> HIDE DEF G
  <2>1. \A m \in 1 .. n : m - 1 \in G => m \in G
    BY <1>2
  <2>2. QED
    BY <1>1, <2>1, N!UpTo
<1>4. QED
  BY <1>3

\* They are the same, however far they go.
LEMMA PowersAgree ==
  ASSUME NEW m \in Nat, NEW n \in Nat, m <= n, NEW f, NEW g, PowersUpTo(f, m), PowersUpTo(g, n)
  PROVE  f[m] = g[m]
<1> DEFINE G == { k \in Nat : k <= m => f[k] = g[k] }
<1>1. /\ \A k \in 0 .. m : f[k] = IF k = 0 THEN 1 ELSE 2 * f[k - 1]
      /\ \A k \in 0 .. n : g[k] = IF k = 0 THEN 1 ELSE 2 * g[k - 1]
  BY Zenon DEF PowersUpTo
<1>2. 0 \in G
  BY <1>1
<1>3. ASSUME NEW k \in 1 .. m, k - 1 \in G PROVE k \in G
  <2>1. f[k] = 2 * f[k - 1] /\ g[k] = 2 * g[k - 1]
    BY <1>1
  <2>2. QED
    BY <1>3, <2>1
<1>4. m \in G
  <2> HIDE DEF G
  <2>1. \A k \in 1 .. m : k - 1 \in G => k \in G
    BY <1>3
  <2>2. QED
    BY <1>2, <2>1, N!UpTo
<1>5. QED
  BY <1>4

\* So the recursion that defines Pow2 has a solution, and Pow2 is one.
LEMMA Pow2Is ==
  /\ Pow2[0] = 1
  /\ \A n \in Nat : Pow2[n + 1] = 2 * Pow2[n]
<1> DEFINE P(n) == CHOOSE f : PowersUpTo(f, n)
           p == [n \in Nat |-> P(n)[n]]
<1>1. \A n \in Nat : PowersUpTo(P(n), n)
  BY PowersExist, Zenon
<1>2. \A n \in Nat : \A k \in 0 .. n : P(n)[k] = IF k = 0 THEN 1 ELSE 2 * P(n)[k - 1]
  BY <1>1, Zenon DEF PowersUpTo
<1> HIDE DEF P
<1>3. ASSUME NEW n \in Nat PROVE p[n] = IF n = 0 THEN 1 ELSE 2 * p[n - 1]
  <2>1. CASE n = 0
    BY <1>2, <2>1
  <2>2. CASE n # 0
    <3>1. n - 1 \in Nat /\ n - 1 <= n /\ n \in 0 .. n
      BY <2>2
    <3>2. P(n)[n] = 2 * P(n)[n - 1]
      BY <1>2, <2>2, <3>1
    <3>3. P(n - 1)[n - 1] = P(n)[n - 1]
      BY <1>1, <3>1, PowersAgree
    <3>4. QED
      BY <2>2, <3>1, <3>2, <3>3
  <2>3. QED
    BY <2>1, <2>2
<1>4. p = [n \in Nat |-> IF n = 0 THEN 1 ELSE 2 * p[n - 1]]
  BY <1>3
<1>5. Pow2 = [n \in Nat |-> IF n = 0 THEN 1 ELSE 2 * Pow2[n - 1]]
  <2> HIDE DEF p
  <2>1. QED
    BY <1>4, Zenon DEF Pow2
<1>6. \A n \in Nat : Pow2[n] = IF n = 0 THEN 1 ELSE 2 * Pow2[n - 1]
  BY <1>5, Zenon
<1>7. QED
  BY <1>6

\* Powers of two are positive numbers.
LEMMA Pow2Type == \A n \in Nat : Pow2[n] \in Nat \ {0}
<1> DEFINE G == { n \in Nat : Pow2[n] \in Nat \ {0} }
<1>1. 0 \in G
  BY Pow2Is
<1>2. ASSUME NEW n \in Nat, NEW k \in 1 .. n, k - 1 \in G PROVE k \in G
  <2>1. Pow2[(k - 1) + 1] = 2 * Pow2[k - 1] /\ (k - 1) + 1 = k /\ k \in Nat
    BY Pow2Is
  <2>2. QED
    BY <1>2, <2>1
<1>3. ASSUME NEW n \in Nat PROVE n \in G
  <2> HIDE DEF G
  <2>1. \A k \in 1 .. n : k - 1 \in G => k \in G
    BY <1>2
  <2>2. QED
    BY <1>1, <2>1, N!UpTo
<1>4. QED
  BY <1>3

\* What the powers are at a distance of k: half at most, and the product.
LEMMA Pow2Plus ==
  ASSUME NEW m \in Nat, NEW k \in Nat
  PROVE  Pow2[m + k] = Pow2[m] * Pow2[k] /\ (k # 0 => 2 * Pow2[m] <= Pow2[m + k])
<1> DEFINE G == { j \in Nat : /\ Pow2[m + j] = Pow2[m] * Pow2[j]
                              /\ j # 0 => 2 * Pow2[m] <= Pow2[m + j] }
<1>1. 0 \in G
  <2>1. m + 0 = m /\ Pow2[m] \in Nat
    BY Pow2Type
  <2>2. QED
    BY <2>1, Pow2Is
<1>2. ASSUME NEW j \in 1 .. k, j - 1 \in G PROVE j \in G
  <2>1. PICK a, b, c \in Nat \ {0} : a = Pow2[m] /\ b = Pow2[j - 1] /\ c = Pow2[m + (j - 1)]
    <3>1. j - 1 \in Nat /\ m + (j - 1) \in Nat
      OBVIOUS
    <3>2. QED
      BY <3>1, Pow2Type
  <2>2. Pow2[j] = 2 * b /\ Pow2[m + j] = 2 * c
    <3>1. j - 1 \in Nat /\ m + (j - 1) \in Nat /\ (j - 1) + 1 = j /\ (m + (j - 1)) + 1 = m + j
      OBVIOUS
    <3>2. QED
      BY <2>1, <3>1, Pow2Is
  <2>3. c = a * b /\ (j - 1 # 0 => 2 * a <= c)
    BY <1>2, <2>1
  <2>4. 2 * c = a * (2 * b)
    BY <2>3
  <2>5. 2 * a <= 2 * c
    <3>1. CASE j - 1 = 0
      <4>1. c = a
        BY <2>1, <3>1
      <4>2. QED
        BY <4>1
    <3>2. CASE j - 1 # 0
      BY <2>3, <3>2
    <3>3. QED
      BY <3>1, <3>2
  <2>6. j \in Nat
    OBVIOUS
  <2>7. QED
    BY <2>1, <2>2, <2>4, <2>5, <2>6
<1>3. k \in G
  <2> HIDE DEF G
  <2>1. \A j \in 1 .. k : j - 1 \in G => j \in G
    BY <1>2
  <2>2. QED
    BY <1>1, <2>1, N!UpTo
<1>4. QED
  BY <1>3

\* Of two powers the one of the greater number is at least twice as great.
LEMMA Pow2Grows ==
  ASSUME NEW m \in Nat, NEW n \in Nat, m < n
  PROVE  2 * Pow2[m] <= Pow2[n] /\ Pow2[m] < Pow2[n]
<1>1. PICK k \in Nat : n = m + k /\ k # 0
  <2>1. n - m \in Nat /\ n = m + (n - m) /\ n - m # 0
    OBVIOUS
  <2>2. QED
    BY <2>1
<1>2. 2 * Pow2[m] <= Pow2[n]
  BY <1>1, Pow2Plus
<1>3. Pow2[m] \in Nat \ {0} /\ Pow2[n] \in Nat
  BY Pow2Type
<1>4. QED
  BY <1>2, <1>3

-----------------------------------------------------------------------------
(* Netmasks *)

\* A netmask of bits bits is looked at through what its value lacks of 2^bits, its gap.
\* The gap of n ones and bits - n zeros is a power of two, of bits - n.
IsPower(gap, bits) == \E j \in 0 .. bits : gap = Pow2[j]

\* An octet is n ones and zeros, or it's reported to have more bits than it has.
LEMMA LeadingIs ==
  ASSUME NEW w \in Nat, NEW octet
  PROVE  \/ \E k \in 0 .. w : octet = Pow2[w] - Pow2[w - k] /\ LeadingOnes(octet, w) = k
         \/ (\A k \in 0 .. w : octet # Pow2[w] - Pow2[w - k]) /\ LeadingOnes(octet, w) = w + 1
BY Zenon DEF LeadingOnes

\* After nothing but ones, an octet that isn't ones and zeros leaves no power.
LEMMA GapAfterOnes ==
  ASSUME NEW w \in Nat, NEW bits \in Nat, NEW octet \in 0 .. OctetMax(w),
         \A k \in 0 .. w : octet # Pow2[w] - Pow2[w - k]
  PROVE  ~IsPower(Pow2[w] - octet, bits + w)
<1>1. SUFFICES ASSUME NEW j \in 0 .. bits + w, Pow2[w] - octet = Pow2[j] PROVE FALSE
  BY DEF IsPower
<1>2. PICK b, p \in Nat \ {0} : b = Pow2[w] /\ p = Pow2[j]
  <2>1. j \in Nat
    OBVIOUS
  <2>2. QED
    BY <2>1, Pow2Type
<1>3. octet \in 0 .. b - 1 /\ b - octet = p
  BY <1>1, <1>2 DEF OctetMax
<1>4. CASE j <= w
  <2>1. w - j \in 0 .. w /\ w - (w - j) = j
    BY <1>4
  <2>2. octet # b - Pow2[w - (w - j)]
    BY <1>2, <2>1
  <2>3. QED
    BY <1>2, <1>3, <2>1, <2>2
<1>5. CASE w < j
  <2>1. b < p
    BY <1>2, <1>5, Pow2Grows
  <2>2. QED
    BY <1>3, <2>1
<1>6. QED
  BY <1>4, <1>5

\* After a zero, an octet that isn't zero leaves none.
LEMMA GapAfterZero ==
  ASSUME NEW w \in Nat, NEW bits \in Nat, NEW a \in 1 .. bits, NEW octet \in 1 .. OctetMax(w)
  PROVE  ~IsPower(Pow2[a] * Pow2[w] - octet, bits + w)
<1>1. SUFFICES ASSUME NEW j \in 0 .. bits + w, Pow2[a] * Pow2[w] - octet = Pow2[j] PROVE FALSE
  BY DEF IsPower
<1>2. PICK b, p, q, r \in Nat \ {0} : b = Pow2[w] /\ p = Pow2[j] /\ q = Pow2[a + w] /\ r = Pow2[(a - 1) + w]
  <2>1. j \in Nat /\ a + w \in Nat /\ (a - 1) + w \in Nat
    OBVIOUS
  <2>2. QED
    BY <2>1, Pow2Type
<1>3. octet \in 1 .. b - 1
  BY <1>2 DEF OctetMax
<1>4. q - octet = p
  <2>1. a \in Nat
    OBVIOUS
  <2>2. Pow2[a + w] = Pow2[a] * Pow2[w]
    BY <2>1, Pow2Plus
  <2>3. QED
    BY <1>1, <1>2, <2>2
<1>5. q = 2 * r
  <2>1. (a - 1) + w \in Nat /\ ((a - 1) + w) + 1 = a + w
    OBVIOUS
  <2>2. QED
    BY <1>2, <2>1, Pow2Is
<1>6. b <= r
  <2>1. CASE a = 1
    <3>1. (a - 1) + w = w
      BY <2>1
    <3>2. QED
      BY <1>2, <3>1
  <2>2. CASE a # 1
    <3>1. w < (a - 1) + w /\ (a - 1) + w \in Nat
      BY <2>2
    <3>2. QED
      BY <1>2, <3>1, Pow2Grows
  <2>3. QED
    BY <2>1, <2>2
<1>7. r < p /\ p < q
  BY <1>3, <1>4, <1>5, <1>6
<1>8. CASE j <= (a - 1) + w
  <2>1. p <= r
    <3>1. CASE j = (a - 1) + w
      BY <1>2, <3>1
    <3>2. CASE j < (a - 1) + w
      <4>1. j \in Nat /\ (a - 1) + w \in Nat
        OBVIOUS
      <4>2. QED
        BY <1>2, <3>2, <4>1, Pow2Grows
    <3>3. QED
      BY <1>8, <3>1, <3>2
  <2>2. QED
    BY <1>7, <2>1
<1>9. CASE a + w <= j
  <2>1. q <= p
    <3>1. CASE j = a + w
      BY <1>2, <3>1
    <3>2. CASE a + w < j
      <4>1. j \in Nat /\ a + w \in Nat
        OBVIOUS
      <4>2. QED
        BY <1>2, <3>2, <4>1, Pow2Grows
    <3>3. QED
      BY <1>9, <3>1, <3>2
  <2>2. QED
    BY <1>7, <2>1
<1>10. QED
  BY <1>8, <1>9

\* What is no power stays none, whatever octet follows.
LEMMA GapStays ==
  ASSUME NEW w \in Nat \ {0}, NEW bits \in Nat, NEW gap \in Nat \ {0}, ~IsPower(gap, bits),
         NEW octet \in 0 .. OctetMax(w)
  PROVE  ~IsPower(gap * Pow2[w] - octet, bits + w)
<1>1. SUFFICES ASSUME NEW j \in 0 .. bits + w, gap * Pow2[w] - octet = Pow2[j] PROVE FALSE
  BY DEF IsPower
<1>2. PICK b, p \in Nat \ {0} : b = Pow2[w] /\ p = Pow2[j]
  <2>1. j \in Nat
    OBVIOUS
  <2>2. QED
    BY <2>1, Pow2Type
<1>3. octet \in 0 .. b - 1 /\ gap * b - octet = p
  BY <1>1, <1>2 DEF OctetMax
<1>4. CASE w <= j
  <2>1. j - w \in Nat /\ j - w \in 0 .. bits /\ w + (j - w) = j
    BY <1>4
  <2>2. PICK r \in Nat : r = Pow2[j - w]
    BY <2>1, Pow2Type
  <2>3. p = b * r
    BY <1>2, <2>1, <2>2, Pow2Plus
  <2>4. gap # r
    BY <2>1, <2>2 DEF IsPower
  <2>5. octet = b * (gap - r)
    BY <1>3, <2>3
  <2>6. CASE gap < r
    <3>1. b * (gap - r) <= 0 - b
      BY <2>6
    <3>2. QED
      BY <1>3, <2>5, <3>1
  <2>7. CASE r < gap
    <3>1. b * (gap - r) >= b
      BY <2>7
    <3>2. QED
      BY <1>3, <2>5, <3>1
  <2>8. QED
    BY <2>4, <2>6, <2>7
<1>5. CASE j < w
  <2>1. gap # 1
    <3>1. 0 \in 0 .. bits
      OBVIOUS
    <3>2. QED
      BY <3>1, Pow2Is DEF IsPower
  <2>2. gap * b >= 2 * b
    BY <2>1
  <2>3. p < b
    <3>1. j \in Nat
      OBVIOUS
    <3>2. QED
      BY <1>2, <1>5, <3>1, Pow2Grows
  <2>4. QED
    BY <1>3, <2>2, <2>3
<1>6. QED
  BY <1>4, <1>5

\* What the size s of bits bits says of their gap.
SizeInv(s, gap, bits) ==
  /\ gap \in Nat \ {0}
  /\ s.ok => /\ s.n \in 0 .. bits /\ gap = Pow2[bits - s.n]
             /\ s.full <=> s.n = bits
  /\ ~s.ok => ~IsPower(gap, bits)

\* One more octet.
LEMMA SizeStep ==
  ASSUME NEW w \in Nat \ {0}, NEW bits \in Nat, NEW octet \in 0 .. OctetMax(w), NEW gap,
         NEW s, SizeInv(s, gap, bits)
  PROVE  SizeInv(AddOctet(s, octet, w), gap * Pow2[w] - octet, bits + w)
<1>1. PICK t : t = AddOctet(s, octet, w)
  OBVIOUS
<1>2. /\ t.n = IF s.full THEN s.n + LeadingOnes(octet, w) ELSE s.n
      /\ t.full <=> s.full /\ octet = OctetMax(w)
      /\ t.ok <=> s.ok /\ (IF s.full THEN LeadingOnes(octet, w) <= w ELSE octet = 0)
  BY <1>1, Zenon DEF AddOctet
<1>3. PICK b \in Nat \ {0} : b = Pow2[w]
  BY Pow2Type
<1>4. gap \in Nat \ {0} /\ octet \in 0 .. b - 1 /\ OctetMax(w) = b - 1
  BY <1>3 DEF SizeInv, OctetMax
<1>5. gap * b - octet \in Nat \ {0}
  <2>1. gap * b >= b
    BY <1>4
  <2>2. gap * b \in Nat
    BY <1>4
  <2>3. QED
    BY <1>4, <2>1, <2>2
<1>6. CASE ~s.ok
  <2>1. ~IsPower(gap * Pow2[w] - octet, bits + w)
    BY <1>4, <1>6, GapStays DEF SizeInv
  <2>2. QED
    BY <1>1, <1>2, <1>3, <1>5, <1>6, <2>1, Zenon DEF SizeInv
<1>7. CASE s.ok /\ s.full
  <2>1. s.n = bits /\ gap = 1
    <3>1. s.n = bits /\ gap = Pow2[bits - s.n]
      BY <1>7, Zenon DEF SizeInv
    <3>2. bits - bits = 0
      OBVIOUS
    <3>3. QED
      BY <3>1, <3>2, Pow2Is
  <2>2. gap * b - octet = b - octet
    BY <1>4, <2>1
  <2>3. ASSUME NEW k \in 0 .. w, octet = b - Pow2[w - k], LeadingOnes(octet, w) = k
        PROVE  SizeInv(t, b - octet, bits + w)
    <3>1. t.ok /\ t.n = bits + k
      BY <1>2, <1>7, <2>1, <2>3
    <3>2. w - k \in Nat /\ (bits + w) - (bits + k) = w - k /\ bits + k \in 0 .. bits + w
      OBVIOUS
    <3>3. PICK p \in Nat : p = Pow2[w - k]
      BY <3>2, Pow2Type
    <3>4. b - octet = Pow2[(bits + w) - t.n]
      BY <1>4, <2>3, <3>1, <3>2, <3>3
    <3>5. octet = b - 1 <=> k = w
      <4>1. octet = b - 1 <=> p = 1
        BY <1>4, <2>3, <3>3
      <4>2. ASSUME k # w PROVE p # 1
        <5>1. 0 < w - k /\ 0 \in Nat
          BY <4>2
        <5>2. Pow2[0] < Pow2[w - k]
          BY <3>2, <5>1, Pow2Grows
        <5>3. QED
          BY <3>3, <5>2, Pow2Is
      <4>3. ASSUME k = w PROVE p = 1
        <5>1. w - k = 0
          BY <4>3
        <5>2. QED
          BY <3>3, <5>1, Pow2Is
      <4>4. QED
        BY <4>1, <4>2, <4>3
    <3>6. t.full <=> octet = b - 1
      BY <1>2, <1>4, <1>7, Zenon
    <3>7. bits + k = bits + w <=> k = w
      OBVIOUS
    <3>8. t.full <=> t.n = bits + w
      BY <3>1, <3>5, <3>6, <3>7, Zenon
    <3>9. t.n \in 0 .. bits + w
      BY <3>1, <3>2
    <3>10. b - octet \in Nat \ {0}
      BY <1>5, <2>2
    <3>11. QED
      BY <3>1, <3>4, <3>8, <3>9, <3>10, Zenon DEF SizeInv
  <2>4. ASSUME \A k \in 0 .. w : octet # Pow2[w] - Pow2[w - k], LeadingOnes(octet, w) = w + 1
        PROVE  SizeInv(t, b - octet, bits + w)
    <3>1. ~(LeadingOnes(octet, w) <= w)
      BY <2>4
    <3>2. ~t.ok
      BY <1>2, <1>7, <3>1, Zenon
    <3>3. ~IsPower(Pow2[w] - octet, bits + w)
      BY <2>4, GapAfterOnes
    <3>4. b - octet \in Nat \ {0}
      BY <1>5, <2>2
    <3>5. QED
      BY <1>3, <3>2, <3>3, <3>4, Zenon DEF SizeInv
  <2>5. SizeInv(t, b - octet, bits + w)
    BY <1>3, <2>3, <2>4, LeadingIs
  <2>6. QED
    BY <1>1, <1>3, <2>2, <2>5
<1>8. CASE s.ok /\ ~s.full
  <2>1. PICK a \in 1 .. bits : gap = Pow2[a] /\ s.n = bits - a
    <3>1. s.n \in 0 .. bits /\ gap = Pow2[bits - s.n] /\ s.n # bits
      BY <1>8, Zenon DEF SizeInv
    <3>2. bits - s.n \in 1 .. bits /\ s.n = bits - (bits - s.n)
      BY <3>1
    <3>3. QED
      BY <3>1, <3>2
  <2>2. t.n = s.n /\ ~t.full /\ (t.ok <=> octet = 0)
    BY <1>2, <1>8, Zenon
  <2>3. CASE octet = 0
    <3>1. gap * b - octet = gap * b
      BY <1>4, <2>3
    <3>2. gap * b = Pow2[a + w]
      <4>1. a \in Nat
        OBVIOUS
      <4>2. QED
        BY <1>3, <2>1, <4>1, Pow2Plus
    <3>3. (bits + w) - (bits - a) = a + w /\ bits - a \in 0 .. bits + w /\ bits - a # bits + w
      OBVIOUS
    <3>4. gap * b - octet = Pow2[(bits + w) - t.n] /\ t.n \in 0 .. bits + w /\ t.n # bits + w
      BY <2>1, <2>2, <3>1, <3>2, <3>3
    <3>5. QED
      BY <1>1, <1>3, <1>5, <2>2, <2>3, <3>4, Zenon DEF SizeInv
  <2>4. CASE octet # 0
    <3>1. octet \in 1 .. OctetMax(w)
      BY <1>4, <2>4
    <3>2. ~IsPower(gap * Pow2[w] - octet, bits + w)
      BY <2>1, <3>1, GapAfterZero
    <3>3. QED
      BY <1>1, <1>3, <1>5, <2>2, <2>4, <3>2, Zenon DEF SizeInv
  <2>5. QED
    BY <2>3, <2>4
<1>9. QED
  BY <1>6, <1>7, <1>8

\* The number of leading ones and the value of a netmask, octet by octet.
AddWidthOctet(s, octet) == AddOctet(s, octet, Width)
NoOctets == [n |-> 0, full |-> TRUE, ok |-> TRUE]

M == INSTANCE FoldProofs WITH Step <- AddWidthOctet, Base <- NoOctets
V == INSTANCE FoldProofs WITH Step <- AddDigit, Base <- 0

\* The size of a netmask is right, octet by octet.
LEMMA SizeUpTo ==
  ASSUME NEW n \in Nat, NEW mask, \A k \in 1 .. n : mask[k] \in 0 .. OctetMax(Width)
  PROVE  /\ V!Folded(mask, n) \in Nat
         /\ SizeInv(M!Folded(mask, n), Pow2[Width * n] - V!Folded(mask, n), Width * n)
<1> DEFINE G == { m \in Nat : /\ V!Folded(mask, m) \in Nat
                              /\ SizeInv(M!Folded(mask, m), Pow2[Width * m] - V!Folded(mask, m), Width * m) }
<1>1. 0 \in G
  <2>1. V!Folded(mask, 0) = 0 /\ M!Folded(mask, 0) = NoOctets
    BY V!FoldEmpty, M!FoldEmpty
  <2>2. Width * 0 = 0 /\ Pow2[0] - 0 = 1 /\ 0 - 0 = 0 /\ 0 \in Nat
    BY WidthAssumption, Pow2Is
  <2>3. NoOctets.n = 0 /\ NoOctets.full /\ NoOctets.ok
    BY DEF NoOctets
  <2>4. 1 \in Nat \ {0} /\ 0 \in 0 .. 0 /\ 1 = Pow2[0 - 0]
    BY Pow2Is
  <2>5. SizeInv(NoOctets, 1, 0)
    BY <2>3, <2>4, Zenon DEF SizeInv
  <2>6. QED
    BY <2>1, <2>2, <2>5
<1>2. ASSUME NEW m \in 1 .. n, m - 1 \in G PROVE m \in G
  <2>1. m - 1 \in Nat /\ m \in Nat /\ m = (m - 1) + 1
    OBVIOUS
  <2>2. PICK v \in Nat : v = V!Folded(mask, m - 1)
    BY <1>2
  <2>3. PICK octet \in 0 .. OctetMax(Width) : octet = mask[m]
    OBVIOUS
  <2>4. V!Folded(mask, m) = v * Pow2[Width] + octet
    BY <2>1, <2>2, <2>3, V!FoldNext DEF AddDigit
  <2>5. M!Folded(mask, m) = AddOctet(M!Folded(mask, m - 1), octet, Width)
    BY <2>1, <2>3, M!FoldNext DEF AddWidthOctet
  <2>6. Width * (m - 1) \in Nat /\ Width * (m - 1) + Width = Width * m
    BY WidthAssumption
  <2>7. PICK p, b, q \in Nat \ {0} : p = Pow2[Width * (m - 1)] /\ b = Pow2[Width] /\ q = Pow2[Width * m]
    <3>1. Width * m \in Nat
      BY WidthAssumption
    <3>2. QED
      BY <2>6, <3>1, WidthAssumption, Pow2Type
  <2>8. q = p * b
    BY <2>6, <2>7, WidthAssumption, Pow2Plus
  <2>9. octet \in Nat
    BY <2>7 DEF OctetMax
  <2>10. (p - v) * b - octet = q - (v * b + octet) /\ v * b + octet \in Nat
    BY <2>8, <2>9
  <2>11. SizeInv(M!Folded(mask, m - 1), p - v, Width * (m - 1))
    BY <1>2, <2>2, <2>7
  <2>12. SizeInv(AddOctet(M!Folded(mask, m - 1), octet, Width), (p - v) * b - octet, Width * m)
    BY <2>6, <2>7, <2>11, WidthAssumption, SizeStep
  <2>13. QED
    BY <2>1, <2>4, <2>5, <2>7, <2>10, <2>12
<1>3. n \in G
  <2> HIDE DEF G
  <2>1. \A m \in 1 .. n : m - 1 \in G => m \in G
    BY <1>2
  <2>2. QED
    BY <1>1, <2>1, N!UpTo
<1>4. QED
  BY <1>3

\* NetmaskExact, of netmasks of any length.
THEOREM Netmasks ==
  ASSUME NEW mask \in Seq(0 .. OctetMax(Width)), NEW bits, bits = Width * Len(mask)
  PROVE  IF \E k \in 0 .. bits : Value(mask) = Pow2[bits] - Pow2[bits - k]
         THEN /\ netmaskToCIDR(mask, Width) \in 0 .. bits
              /\ Value(mask) = Pow2[bits] - Pow2[bits - netmaskToCIDR(mask, Width)]
         ELSE netmaskToCIDR(mask, Width) = 0 - 1
<1>1. PICK n \in Nat : n = Len(mask) /\ DOMAIN mask = 1 .. n
  OBVIOUS
<1>2. PICK size : size = M!Folded(mask, n)
  OBVIOUS
<1>3. Value(mask) = V!Folded(mask, n)
  BY <1>1, Zenon DEF Value, FoldLeft, MapThenFoldSet, Max, V!Folded, V!Iter, V!Greatest
<1>4. netmaskToCIDR(mask, Width) = IF size.ok THEN size.n ELSE 0 - 1
  <2>1. M!Folded(mask, n) = FoldLeft(AddWidthOctet, NoOctets, mask)
    BY <1>1, Zenon DEF FoldLeft, MapThenFoldSet, Max, M!Folded, M!Iter, M!Greatest
  <2>2. size = FoldLeft(LAMBDA s, octet : AddOctet(s, octet, Width), NoOctets, mask)
    BY <1>2, <2>1, Zenon DEF FoldLeft, MapThenFoldSet, AddWidthOctet
  <2>3. QED
    BY <2>2, Zenon DEF netmaskToCIDR, NoOctets
<1>5. \A k \in 1 .. n : mask[k] \in 0 .. OctetMax(Width)
  <2>1. PICK T : T = 0 .. OctetMax(Width)
    OBVIOUS
  <2>2. mask \in Seq(T)
    BY <2>1
  <2>3. \A k \in 1 .. n : mask[k] \in T
    BY <1>1, <2>2
  <2>4. QED
    BY <2>1, <2>3
<1>6. PICK v \in Nat : v = Value(mask)
  BY <1>3, <1>5, SizeUpTo
<1>7. SizeInv(size, Pow2[bits] - v, bits)
  BY <1>1, <1>2, <1>3, <1>5, <1>6, SizeUpTo
<1>8. bits \in Nat
  BY <1>1, WidthAssumption
<1>9. PICK q \in Nat : q = Pow2[bits]
  BY <1>8, Pow2Type
<1>10. ASSUME NEW j \in 0 .. bits
       PROVE  v = q - Pow2[bits - j] <=> q - v = Pow2[bits - j]
  <2>1. bits - j \in Nat
    BY <1>8
  <2>2. Pow2[bits - j] \in Nat
    BY <2>1, Pow2Type
  <2>3. QED
    BY <2>2
<1>11. (\E k \in 0 .. bits : v = q - Pow2[bits - k]) <=> IsPower(q - v, bits)
  <2>1. \A k \in 0 .. bits : bits - k \in 0 .. bits /\ bits - (bits - k) = k
    BY <1>8
  <2>2. QED
    BY <1>10, <2>1 DEF IsPower
<1>12. CASE size.ok
  <2>1. netmaskToCIDR(mask, Width) = size.n
    BY <1>4, <1>12
  <2>2. size.n \in 0 .. bits /\ q - v = Pow2[bits - size.n]
    BY <1>7, <1>9, <1>12, Zenon DEF SizeInv
  <2>3. v = q - Pow2[bits - size.n]
    BY <1>10, <2>2
  <2>4. QED
    BY <1>6, <1>9, <2>1, <2>2, <2>3
<1>13. CASE ~size.ok
  <2>1. netmaskToCIDR(mask, Width) = 0 - 1
    BY <1>4, <1>13
  <2>2. ~IsPower(q - v, bits)
    BY <1>7, <1>9, <1>13, Zenon DEF SizeInv
  <2>3. QED
    BY <1>6, <1>9, <1>11, <2>1, <2>2
<1>14. QED
  BY <1>12, <1>13

-----------------------------------------------------------------------------
(* The specification *)

\* Of which tokens an input is made.
Inputs ==
  /\ function = "commandLine" => input \in Seq(Arg)
  /\ function = "grub"        => input \in Seq(GrubLine)
  /\ function = "bashrc"      => input \in Seq(BashLine)
  /\ function = "managedFile" => input \in Seq(FileToken)
  /\ function = "netmask"     => input \in Seq(0 .. OctetMax(Width))
  /\ function = "userData"    => input \in UserData

\* An input is made of one token after another.
LEMMA GrowKeeps ==
  ASSUME NEW name, NEW bound, NEW tokens, Grow(name, bound, tokens), input \in Seq(tokens)
  PROVE  function = name /\ function' = name /\ input' \in Seq(tokens)
BY DEF Grow

\* User-data stays made of characters.
LEMMA UserGrows ==
  ASSUME GrowUser, input \in UserData
  PROVE  input' \in UserData
<1>1. ASSUME NEW f \in { "hostname", "user", "password" }, NEW c \in Char,
             input' = [input EXCEPT ![f] = Append(@, c)]
      PROVE  input' \in UserData
  <2>1. input[f] \in Seq(Char)
    BY DEF UserData
  <2>2. PICK text \in Seq(Char) : text = Append(input[f], c)
    BY <2>1, AppendProperties
  <2>3. input' = [input EXCEPT ![f] = text]
    BY <1>1, <2>2, Zenon
  <2>4. QED
    BY <2>3 DEF UserData
<1>2. ASSUME NEW keys \in Seq(Seq(Char)), input' = [input EXCEPT !.keys = keys]
      PROVE  input' \in UserData
  BY <1>2 DEF UserData
<1>3. CASE input' = [input EXCEPT !.keys = Append(@, << >>)]
  <2>1. Append(input.keys, << >>) \in Seq(Seq(Char))
    BY DEF UserData
  <2>2. QED
    BY <1>2, <1>3, <2>1
<1>4. ASSUME NEW c \in Char, input.keys # << >>,
             input' = [input EXCEPT !.keys[Len(input.keys)] = Append(@, c)]
      PROVE  input' \in UserData
  <2>1. PICK keys \in Seq(Seq(Char)) : keys = input.keys
    BY DEF UserData
  <2>2. Len(keys) \in 1 .. Len(keys) /\ Append(keys[Len(keys)], c) \in Seq(Char)
    BY <1>4, <2>1
  <2>3. PICK longer \in Seq(Seq(Char)) :
              longer = [keys EXCEPT ![Len(keys)] = Append(keys[Len(keys)], c)]
    BY <2>2, ExceptSeq
  <2>4. input' = [input EXCEPT !.keys = longer]
    BY <1>4, <2>1, <2>3 DEF UserData
  <2>5. QED
    BY <1>2, <2>4
<1>5. QED
  BY <1>1, <1>3, <1>4 DEF GrowUser

\* Every input is a sequence of the tokens of its function.
THEOREM InputsTyped == Spec => []Inputs
<1>1. Init => Inputs
  <2>1. NoUser \in UserData
    BY DEF UserData, NoUser
  <2>2. ASSUME NEW tokens PROVE << >> \in Seq(tokens)
    OBVIOUS
  <2>3. CASE function = "userData" /\ input = NoUser
    BY <2>1, <2>3 DEF Inputs
  <2>4. CASE function # "userData" /\ input = << >>
    BY <2>2, <2>4, Zenon DEF Inputs
  <2>5. QED
    BY <2>3, <2>4 DEF Init
<1>2. Inputs /\ [Next]_vars => Inputs'
  <2> SUFFICES ASSUME Inputs, [Next]_vars PROVE Inputs'
    OBVIOUS
  <2>1. CASE function = "commandLine" /\ GrowArgs
    BY <2>1, GrowKeeps DEF Inputs, GrowArgs
  <2>2. CASE Grow("grub", MaxLines, GrubLine)
    BY <2>2, GrowKeeps DEF Inputs, Grow
  <2>3. CASE Grow("bashrc", MaxLines, BashLine)
    BY <2>3, GrowKeeps DEF Inputs, Grow
  <2>4. CASE Grow("managedFile", MaxTokens, FileToken)
    BY <2>4, GrowKeeps DEF Inputs, Grow
  <2>5. CASE Grow("netmask", 4, 0 .. OctetMax(Width))
    BY <2>5, GrowKeeps DEF Inputs, Grow
  <2>6. CASE GrowUser
    <3>1. function = "userData" /\ function' = "userData"
      BY <2>6 DEF GrowUser
    <3>2. QED
      BY <2>6, <3>1, UserGrows DEF Inputs
  <2>7. CASE UNCHANGED vars
    BY <2>7 DEF Inputs, vars
  <2>8. QED
    BY <2>1, <2>2, <2>3, <2>4, <2>5, <2>6, <2>7 DEF Next
<1>3. QED
  BY <1>1, <1>2, PTL DEF Spec

\* SectionSurvives, of every input.
THEOREM SectionIsKept == Spec => []SectionSurvives
<1>1. Inputs => SectionSurvives
  <2>1. SUFFICES ASSUME Inputs, function = "managedFile", NEW r1 \in Renderings, NEW r2 \in Renderings
                 PROVE  LET once == writeManagedFile(r1, input)
                        IN  /\ IsPrefix(UpToMarker(r1), once)
                            /\ Section(once) = withSingleTrailingNewline(Section(input))
                            /\ writeManagedFile(r2, once) = once
    BY Zenon DEF SectionSurvives
  <2>2. input \in Seq(FileToken) /\ { "text", "newline", "MARK" } \subseteq FileToken
    BY <2>1 DEF Inputs, FileToken
  <2>3. QED
    BY <2>1, <2>2, ManagedFile
<1>2. QED
  BY <1>1, InputsTyped, PTL

\* SplicedExactly, of all user-data.
THEOREM AlwaysSpliced == Spec => []SplicedExactly
<1>1. Inputs => SplicedExactly
  BY Spliced DEF Inputs, SplicedExactly
<1>2. QED
  BY <1>1, InputsTyped, PTL

\* EditedInPlace, of all configuration files.
THEOREM AlwaysEditedInPlace == Spec => []EditedInPlace
<1>1. ASSUME Inputs, function = "grub"
      PROVE  LET edited == setGrubFastboot(input)
             IN  /\ \A k \in DOMAIN grubFastbootSettings :
                      Effective(edited, grubFastbootSettings[k].key) = grubFastbootSettings[k].value
                 /\ Others(edited, SetsGrub) = Others(input, SetsGrub)
                 /\ setGrubFastboot(edited) = edited
  <2>1. PICK T : T = GrubLine \union { grubFastbootSettings[j] : j \in 1 .. 3 }
    OBVIOUS
  <2>2. Blank \in T /\ \A j \in 1 .. 3 : grubFastbootSettings[j] \in T
    BY <2>1 DEF GrubLine
  <2>3. input \in Seq(T)
    <3>1. input \in Seq(GrubLine) /\ GrubLine \subseteq T
      BY <1>1, <2>1, Zenon DEF Inputs
    <3>2. QED
      BY <3>1, SeqMonotonic
  <2>4. QED
    BY <2>2, <2>3, GrubEdited
<1>2. ASSUME Inputs, function = "bashrc"
      PROVE  LET edited == setBashPrompt(input)
             IN  IF Effective(input, "PS1") = "" THEN edited = Append(bashrcTemplate, Blank)
                 ELSE /\ Effective(edited, "PS1") = "prompt"
                      /\ Others(edited, IsPS1) = Others(input, IsPS1)
                      /\ setBashPrompt(edited) = edited
  <2>1. PICK T : T = BashLine \union { bashPromptLine }
    OBVIOUS
  <2>2. Blank \in T /\ bashPromptLine \in T
    BY <2>1 DEF BashLine
  <2>3. PromptsHaveValues(T)
    <3>1. /\ ~IsPS1(Comment("PS1")) /\ ~IsPS1(Set("PS2", "old")) /\ ~IsPS1(Other("alias")) /\ ~IsPS1(Blank)
          /\ Set("PS1", "old").value = "old"
      BY DEF IsPS1, Comment, Set, Other, Blank, Line
    <3>2. "old" # "" /\ "prompt" # ""
      OBVIOUS
    <3>3. QED
      BY <2>1, <3>1, <3>2, PromptIs, Zenon DEF PromptsHaveValues, BashLine
  <2>4. input \in Seq(T)
    <3>1. input \in Seq(BashLine) /\ BashLine \subseteq T
      BY <1>2, <2>1, Zenon DEF Inputs
    <3>2. QED
      BY <3>1, SeqMonotonic
  <2>5. QED
    BY <2>2, <2>3, <2>4, BashrcEdited
<1>3. Inputs => EditedInPlace
  BY <1>1, <1>2, Zenon DEF EditedInPlace
<1>4. QED
  BY <1>3, InputsTyped, PTL

\* NetmaskExact, of all netmasks.
THEOREM AlwaysNetmaskExact == Spec => []NetmaskExact
<1>1. Inputs => NetmaskExact
  BY Netmasks, Zenon DEF Inputs, NetmaskExact
<1>2. QED
  BY <1>1, InputsTyped, PTL

=============================================================================
